------------------------ MODULE RootBlockAllocatorProofs ------------------------
(***************************************************************************)
(* Proofs about RootBlockAllocator, for every size of chunks and of the    *)
(* address space and all requests.                                         *)
(*                                                                         *)
(* The inductive invariant is about states s of the allocator, as State    *)
(* is, and the set of the groups that are in no list: those that clients   *)
(* have, and within a call also the one in hand.  Each helper of the code  *)
(* keeps it, for a set with or without that group.                         *)
(***************************************************************************)
EXTENDS RootBlockAllocator, InductionTheorems, SequenceTheorems

-----------------------------------------------------------------------------
(* Lists *)

Increasing(list) == \A i, j \in DOMAIN list : i < j => list[i] < list[j]

\* push_front
LEMMA PushFrontFacts ==
    ASSUME NEW S, NEW list \in Seq(S), NEW b \in S
    PROVE  /\ <<b>> \o list \in Seq(S)
           /\ ToSet(<<b>> \o list) = ToSet(list) \cup {b}
           /\ IsInjective(list) /\ b \notin ToSet(list) => IsInjective(<<b>> \o list)
<1> DEFINE longer == <<b>> \o list
<1>1. /\ longer \in Seq(S) /\ Len(longer) = Len(list) + 1 /\ Len(list) \in Nat
      /\ DOMAIN longer = 1..Len(list) + 1 /\ DOMAIN list = 1..Len(list)
      /\ \A i \in 1..Len(list) + 1 : longer[i] = IF i = 1 THEN b ELSE list[i - 1]
  OBVIOUS
<1> HIDE DEF longer
<1>2. ToSet(longer) \subseteq ToSet(list) \cup {b}
  BY <1>1 DEF ToSet
<1>3. b \in ToSet(longer)
  BY <1>1 DEF ToSet
<1>4. ASSUME NEW i \in DOMAIN list PROVE list[i] \in ToSet(longer)
  <2>1. i + 1 \in DOMAIN longer /\ longer[i + 1] = list[i]
    BY <1>1
  <2> QED
    BY <2>1 DEF ToSet
<1>5. ASSUME IsInjective(list), b \notin ToSet(list) PROVE IsInjective(longer)
  <2> SUFFICES ASSUME NEW i \in DOMAIN longer, NEW j \in DOMAIN longer, longer[i] = longer[j]
               PROVE  i = j
    BY DEF IsInjective
  <2>1. \A k \in DOMAIN list : list[k] # b
    BY <1>5 DEF ToSet
  <2>2. CASE i = 1 \/ j = 1
    BY <1>1, <2>1, <2>2
  <2>3. CASE i # 1 /\ j # 1
    <3>1. i - 1 \in DOMAIN list /\ j - 1 \in DOMAIN list /\ list[i - 1] = list[j - 1]
      BY <1>1, <2>3
    <3>2. i - 1 = j - 1
      BY <1>5, <3>1 DEF IsInjective
    <3> QED
      BY <1>1, <3>2
  <2> QED
    BY <2>2, <2>3
<1>6. ToSet(list) \subseteq ToSet(longer)
  BY <1>4 DEF ToSet
<1> QED
  BY <1>1, <1>2, <1>3, <1>5, <1>6 DEF longer

\* pop_front
LEMMA PopFrontFacts ==
    ASSUME NEW S, NEW list \in Seq(S), list # <<>>, IsInjective(list)
    PROVE  /\ Head(list) \in ToSet(list) /\ Tail(list) \in Seq(S)
           /\ ToSet(Tail(list)) = ToSet(list) \ {Head(list)}
           /\ IsInjective(Tail(list))
<1> DEFINE shorter == Tail(list)
<1>1. /\ shorter \in Seq(S) /\ Len(list) \in Nat \ {0} /\ Head(list) = list[1]
      /\ DOMAIN shorter = 1..Len(list) - 1 /\ DOMAIN list = 1..Len(list)
      /\ \A i \in 1..Len(list) - 1 : shorter[i] = list[i + 1]
  OBVIOUS
<1> HIDE DEF shorter
<1>2. IsInjective(shorter)
  <2> SUFFICES ASSUME NEW i \in DOMAIN shorter, NEW j \in DOMAIN shorter,
                      shorter[i] = shorter[j]
               PROVE  i = j
    BY DEF IsInjective
  <2>1. i + 1 \in DOMAIN list /\ j + 1 \in DOMAIN list /\ list[i + 1] = list[j + 1]
    BY <1>1
  <2>2. i + 1 = j + 1
    BY <2>1 DEF IsInjective
  <2> QED
    BY <1>1, <2>2
<1>3. ASSUME NEW i \in DOMAIN shorter PROVE shorter[i] \in ToSet(list) \ {Head(list)}
  <2>1. i + 1 \in DOMAIN list /\ shorter[i] = list[i + 1] /\ i + 1 # 1 /\ 1 \in DOMAIN list
    BY <1>1
  <2>2. list[i + 1] # list[1]
    BY <2>1 DEF IsInjective
  <2> QED
    BY <1>1, <2>1, <2>2 DEF ToSet
<1>4. ASSUME NEW i \in DOMAIN list, list[i] # Head(list) PROVE list[i] \in ToSet(shorter)
  <2>1. i - 1 \in DOMAIN shorter /\ shorter[i - 1] = list[i]
    BY <1>1, <1>4
  <2> QED
    BY <2>1 DEF ToSet
<1>5. Head(list) \in ToSet(list)
  BY <1>1 DEF ToSet
<1>6. ToSet(shorter) \subseteq ToSet(list) \ {Head(list)}
  BY <1>3 DEF ToSet
<1>7. ToSet(list) \ {Head(list)} \subseteq ToSet(shorter)
  BY <1>4 DEF ToSet
<1> QED
  BY <1>1, <1>2, <1>5, <1>6, <1>7 DEF shorter

LEMMA FirstPart ==
    ASSUME NEW S, NEW list \in Seq(S), NEW k \in 0..Len(list)
    PROVE  /\ SubSeq(list, 1, k) \in Seq(S) /\ Len(SubSeq(list, 1, k)) = k
           /\ \A j \in 1..k : SubSeq(list, 1, k)[j] = list[j]
<1>1. 1 \in Int /\ k \in Int /\ \A j \in 1..k : list[j] \in S
  OBVIOUS
<1>2. /\ SubSeq(list, 1, k) \in Seq(S)
      /\ Len(SubSeq(list, 1, k)) = IF 1 <= k THEN k - 1 + 1 ELSE 0
      /\ \A j \in 1..k - 1 + 1 : SubSeq(list, 1, k)[j] = list[1 + j - 1]
  BY <1>1, SubSeqProperties
<1> DEFINE part == SubSeq(list, 1, k)
<1> HIDE DEF part
<1>3. /\ part \in Seq(S) /\ Len(part) = IF 1 <= k THEN k - 1 + 1 ELSE 0
      /\ \A j \in 1..k - 1 + 1 : part[j] = list[1 + j - 1]
  BY <1>2 DEF part
<1>4. part \in Seq(S) /\ Len(part) = k /\ \A j \in 1..k : part[j] = list[j]
  BY <1>1, <1>3
<1> QED
  BY <1>4 DEF part

LEMMA LastPart ==
    ASSUME NEW S, NEW list \in Seq(S), NEW k \in 0..Len(list)
    PROVE  /\ SubSeq(list, k + 1, Len(list)) \in Seq(S)
           /\ Len(SubSeq(list, k + 1, Len(list))) = Len(list) - k
           /\ \A j \in 1..Len(list) - k : SubSeq(list, k + 1, Len(list))[j] = list[k + j]
<1> DEFINE m == k + 1
           n == Len(list)
           part == SubSeq(list, m, n)
<1>1. m \in Int /\ n \in Int /\ \A j \in m..n : list[j] \in S
  OBVIOUS
<1>2. k \in 0..n /\ m = k + 1
  OBVIOUS
<1> HIDE DEF m, n
<1>3. /\ part \in Seq(S) /\ Len(part) = IF m <= n THEN n - m + 1 ELSE 0
      /\ \A j \in 1..n - m + 1 : part[j] = list[m + j - 1]
  BY <1>1, SubSeqProperties
<1> HIDE DEF part
<1>4. part \in Seq(S) /\ Len(part) = n - k /\ \A j \in 1..n - k : part[j] = list[k + j]
  BY <1>1, <1>2, <1>3
<1> QED
  BY <1>4 DEF part, m, n

\* erase
LEMMA WithoutFacts ==
    ASSUME NEW S, NEW list \in Seq(S), NEW b \in ToSet(list), IsInjective(list)
    PROVE  /\ Without(list, b) \in Seq(S)
           /\ ToSet(Without(list, b)) = ToSet(list) \ {b}
           /\ IsInjective(Without(list, b))
           /\ S \subseteq Int /\ Increasing(list) => Increasing(Without(list, b))
<1> DEFINE i == CHOOSE i \in DOMAIN list : list[i] = b
           shorter == Without(list, b)
<1>1. i \in DOMAIN list /\ list[i] = b
  BY DEF ToSet
<1>2. shorter = SubSeq(list, 1, i - 1) \o SubSeq(list, i + 1, Len(list))
  BY DEF Without, RemoveAt
<1> HIDE DEF i, shorter
<1>3. Len(list) \in Nat /\ DOMAIN list = 1..Len(list) /\ i \in 1..Len(list)
  BY <1>1
<1>4. /\ SubSeq(list, 1, i - 1) \in Seq(S) /\ Len(SubSeq(list, 1, i - 1)) = i - 1
      /\ \A j \in 1..i - 1 : SubSeq(list, 1, i - 1)[j] = list[j]
  <2>1. i - 1 \in 0..Len(list)
    BY <1>3
  <2> QED
    BY <2>1, FirstPart
<1>5. /\ SubSeq(list, i + 1, Len(list)) \in Seq(S)
      /\ Len(SubSeq(list, i + 1, Len(list))) = Len(list) - i
      /\ \A j \in 1..Len(list) - i : SubSeq(list, i + 1, Len(list))[j] = list[i + j]
  <2>1. i \in 0..Len(list)
    BY <1>3
  <2> QED
    BY <2>1, LastPart
<1>6. /\ shorter \in Seq(S) /\ DOMAIN shorter = 1..Len(list) - 1
      /\ \A j \in 1..Len(list) - 1 : shorter[j] = IF j < i THEN list[j] ELSE list[j + 1]
  <2> DEFINE p == SubSeq(list, 1, i - 1)
             q == SubSeq(list, i + 1, Len(list))
             n == Len(list)
  <2>1. /\ p \in Seq(S) /\ Len(p) = i - 1 /\ \A j \in 1..i - 1 : p[j] = list[j]
        /\ q \in Seq(S) /\ Len(q) = n - i /\ \A j \in 1..n - i : q[j] = list[i + j]
        /\ i \in 1..n /\ n \in Nat
    BY <1>3, <1>4, <1>5
  <2>2. shorter = p \o q
    BY <1>2
  <2> HIDE DEF p, q, n
  <2>3. /\ p \o q \in Seq(S) /\ Len(p \o q) = Len(p) + Len(q)
        /\ \A j \in 1..Len(p) + Len(q) :
             (p \o q)[j] = IF j <= Len(p) THEN p[j] ELSE q[j - Len(p)]
    BY <2>1, ConcatProperties
  <2>4. shorter \in Seq(S) /\ Len(shorter) = n - 1
    BY <2>1, <2>2, <2>3
  <2>5. ASSUME NEW j \in 1..n - 1
        PROVE  shorter[j] = IF j < i THEN list[j] ELSE list[j + 1]
    <3>1. j \in 1..Len(p) + Len(q)
      BY <2>1
    <3>2. shorter[j] = IF j <= Len(p) THEN p[j] ELSE q[j - Len(p)]
      BY <2>2, <2>3, <3>1
    <3>3. CASE j < i
      BY <2>1, <3>2, <3>3
    <3>4. CASE j >= i
      <4>1. j - Len(p) \in 1..n - i /\ i + (j - Len(p)) = j + 1 /\ ~(j <= Len(p)) /\ ~(j < i)
        BY <2>1, <3>4
      <4>2. q[j - Len(p)] = list[i + (j - Len(p))]
        BY <2>1, <4>1
      <4> QED
        BY <3>2, <4>1, <4>2
    <3> QED
      BY <2>1, <3>3, <3>4
  <2> QED
    BY <2>4, <2>5 DEF n
<1>6a. \A j \in DOMAIN shorter : \E k \in DOMAIN list :
         k # i /\ shorter[j] = list[k] /\ k = IF j < i THEN j ELSE j + 1
  <2> SUFFICES ASSUME NEW j \in DOMAIN shorter
               PROVE  \E k \in DOMAIN list :
                        k # i /\ shorter[j] = list[k] /\ k = IF j < i THEN j ELSE j + 1
    OBVIOUS
  <2>1. j \in Nat /\ j + 1 \in DOMAIN list /\ j \in DOMAIN list /\ i \in Nat
    BY <1>3, <1>6
  <2>2. shorter[j] = IF j < i THEN list[j] ELSE list[j + 1]
    BY <1>6
  <2>3. CASE j < i
    BY <2>1, <2>2, <2>3
  <2>4. CASE ~(j < i)
    BY <2>1, <2>2, <2>4
  <2> QED
    BY <2>3, <2>4
<1>7. IsInjective(shorter)
  <2> SUFFICES ASSUME NEW j \in DOMAIN shorter, NEW k \in DOMAIN shorter,
                      shorter[j] = shorter[k]
               PROVE  j = k
    BY DEF IsInjective
  <2>1. PICK m \in DOMAIN list :
          shorter[j] = list[m] /\ m = IF j < i THEN j ELSE j + 1
    BY <1>6a
  <2>2. PICK n \in DOMAIN list :
          shorter[k] = list[n] /\ n = IF k < i THEN k ELSE k + 1
    BY <1>6a
  <2>3. m = n
    BY <2>1, <2>2 DEF IsInjective
  <2>4. j \in Nat /\ k \in Nat /\ i \in Nat
    BY <1>3, <1>6
  <2> QED
    BY <2>1, <2>2, <2>3, <2>4
<1>8. ASSUME NEW j \in DOMAIN shorter PROVE shorter[j] \in ToSet(list) \ {b}
  <2>1. PICK k \in DOMAIN list : shorter[j] = list[k] /\ k # i
    BY <1>6a
  <2> QED
    BY <1>1, <2>1 DEF ToSet, IsInjective
<1>9. ASSUME NEW k \in DOMAIN list, list[k] # b PROVE list[k] \in ToSet(shorter)
  <2>1. CASE k < i
    <3>1. k \in DOMAIN shorter /\ shorter[k] = list[k]
      BY <1>3, <1>6, <2>1
    <3> QED
      BY <3>1 DEF ToSet
  <2>2. CASE k > i
    <3>1. k - 1 \in DOMAIN shorter /\ shorter[k - 1] = list[k]
      BY <1>3, <1>6, <2>2
    <3> QED
      BY <3>1 DEF ToSet
  <2> QED
    BY <1>1, <1>3, <1>9, <2>1, <2>2
<1>10. ToSet(shorter) = ToSet(list) \ {b}
  BY <1>8, <1>9 DEF ToSet
<1>11. ASSUME S \subseteq Int, Increasing(list) PROVE Increasing(shorter)
  <2> SUFFICES ASSUME NEW j \in DOMAIN shorter, NEW k \in DOMAIN shorter, j < k
               PROVE  shorter[j] < shorter[k]
    BY DEF Increasing
  <2>1. PICK m \in DOMAIN list :
          shorter[j] = list[m] /\ m = IF j < i THEN j ELSE j + 1
    BY <1>6a
  <2>2. PICK n \in DOMAIN list :
          shorter[k] = list[n] /\ n = IF k < i THEN k ELSE k + 1
    BY <1>6a
  <2>3. j \in Nat /\ k \in Nat /\ i \in Nat
    BY <1>3, <1>6
  <2>4. m < n
    BY <2>1, <2>2, <2>3
  <2> QED
    BY <1>11, <2>1, <2>2, <2>4 DEF Increasing
<1> QED
  BY <1>6, <1>7, <1>10, <1>11 DEF shorter

\* insert, at a place in a sorted list
LEMMA InsertFacts ==
    ASSUME NEW S \in SUBSET Int, NEW list \in Seq(S), Increasing(list), NEW b \in S,
           b \notin ToSet(list), NEW k \in 0..Len(list),
           \A j \in 1..k : list[j] < b, k < Len(list) => list[k + 1] >= b
    PROVE  /\ InsertAt(list, k + 1, b) \in Seq(S)
           /\ ToSet(InsertAt(list, k + 1, b)) = ToSet(list) \cup {b}
           /\ Increasing(InsertAt(list, k + 1, b))
<1> DEFINE longer == InsertAt(list, k + 1, b)
<1>1. longer = SubSeq(list, 1, k) \o <<b>> \o SubSeq(list, k + 1, Len(list))
  <2>1. (k + 1) - 1 = k
    OBVIOUS
  <2> QED
    BY <2>1 DEF InsertAt
<1> HIDE DEF longer
<1>2. Len(list) \in Nat /\ DOMAIN list = 1..Len(list)
  OBVIOUS
<1>3. /\ SubSeq(list, 1, k) \in Seq(S) /\ Len(SubSeq(list, 1, k)) = k
      /\ \A j \in 1..k : SubSeq(list, 1, k)[j] = list[j]
  BY <1>2, FirstPart
<1>4. /\ SubSeq(list, k + 1, Len(list)) \in Seq(S)
      /\ Len(SubSeq(list, k + 1, Len(list))) = Len(list) - k
      /\ \A j \in 1..Len(list) - k : SubSeq(list, k + 1, Len(list))[j] = list[k + j]
  BY <1>2, LastPart
<1>5. /\ longer \in Seq(S) /\ DOMAIN longer = 1..Len(list) + 1
      /\ \A j \in 1..Len(list) + 1 :
           longer[j] = IF j <= k THEN list[j] ELSE IF j = k + 1 THEN b ELSE list[j - 1]
  <2> DEFINE p == SubSeq(list, 1, k)
             q == SubSeq(list, k + 1, Len(list))
             n == Len(list)
             pb == p \o <<b>>
  <2>1. /\ p \in Seq(S) /\ Len(p) = k /\ \A j \in 1..k : p[j] = list[j]
        /\ q \in Seq(S) /\ Len(q) = n - k /\ \A j \in 1..n - k : q[j] = list[k + j]
        /\ k \in 0..n /\ n \in Nat
    BY <1>2, <1>3, <1>4
  <2>2. longer = pb \o q
    BY <1>1
  <2> HIDE DEF p, q, n
  <2>3. /\ pb \in Seq(S) /\ Len(pb) = k + 1
        /\ \A j \in 1..k + 1 : pb[j] = IF j <= k THEN list[j] ELSE b
    BY <2>1
  <2> HIDE DEF pb
  <2>4. /\ pb \o q \in Seq(S) /\ Len(pb \o q) = Len(pb) + Len(q)
        /\ \A j \in 1..Len(pb) + Len(q) :
             (pb \o q)[j] = IF j <= Len(pb) THEN pb[j] ELSE q[j - Len(pb)]
    BY <2>1, <2>3, ConcatProperties
  <2>5. longer \in Seq(S) /\ Len(longer) = n + 1
    BY <2>1, <2>2, <2>3, <2>4
  <2>6. ASSUME NEW j \in 1..n + 1
        PROVE  longer[j] = IF j <= k THEN list[j] ELSE IF j = k + 1 THEN b ELSE list[j - 1]
    <3>1. j \in 1..Len(pb) + Len(q)
      BY <2>1, <2>3
    <3>2. longer[j] = IF j <= Len(pb) THEN pb[j] ELSE q[j - Len(pb)]
      BY <2>2, <2>4, <3>1
    <3>3. CASE j <= k + 1
      BY <2>1, <2>3, <3>2, <3>3
    <3>4. CASE j > k + 1
      <4>1. /\ j - Len(pb) \in 1..n - k /\ k + (j - Len(pb)) = j - 1 /\ ~(j <= Len(pb))
            /\ ~(j <= k) /\ j # k + 1
        BY <2>1, <2>3, <3>4
      <4>2. q[j - Len(pb)] = list[k + (j - Len(pb))]
        BY <2>1, <4>1
      <4> QED
        BY <3>2, <4>1, <4>2
    <3> QED
      BY <2>1, <3>3, <3>4
  <2> QED
    BY <2>5, <2>6 DEF n
<1>5a. \A j \in DOMAIN longer : j # k + 1 =>
         \E m \in DOMAIN list : longer[j] = list[m] /\ m = IF j <= k THEN j ELSE j - 1
  <2> SUFFICES ASSUME NEW j \in DOMAIN longer, j # k + 1
               PROVE  \E m \in DOMAIN list :
                        longer[j] = list[m] /\ m = IF j <= k THEN j ELSE j - 1
    OBVIOUS
  <2>1. CASE j <= k
    BY <1>2, <1>5, <2>1
  <2>2. CASE ~(j <= k)
    <3>1. j - 1 \in DOMAIN list /\ longer[j] = list[j - 1]
      BY <1>2, <1>5, <2>2
    <3> QED
      BY <2>2, <3>1
  <2> QED
    BY <2>1, <2>2
<1>5b. k + 1 \in DOMAIN longer /\ longer[k + 1] = b
  BY <1>2, <1>5
<1>6. \A j \in DOMAIN longer : longer[j] \in ToSet(list) \cup {b}
  BY <1>5a, <1>5b DEF ToSet
<1>7. b \in ToSet(longer)
  BY <1>5b DEF ToSet
<1>8. ASSUME NEW j \in DOMAIN list PROVE list[j] \in ToSet(longer)
  <2>1. PICK i \in DOMAIN longer : longer[i] = list[j]
    <3>1. CASE j <= k
      <4>1. j \in DOMAIN longer /\ longer[j] = list[j]
        BY <1>2, <1>5, <3>1
      <4> QED
        BY <4>1
    <3>2. CASE j > k
      <4>1. j + 1 \in DOMAIN longer /\ longer[j + 1] = list[j]
        BY <1>2, <1>5, <3>2
      <4> QED
        BY <4>1
    <3> QED
      BY <1>2, <3>1, <3>2
  <2> QED
    BY <2>1 DEF ToSet
<1>9. Increasing(longer)
  <2> SUFFICES ASSUME NEW i \in DOMAIN longer, NEW j \in DOMAIN longer, i < j
               PROVE  longer[i] < longer[j]
    BY DEF Increasing
  <2>1. \A m \in DOMAIN list : list[m] \in Int /\ list[m] # b
    <3>1. \A m \in DOMAIN list : list[m] \in S
      BY <1>2
    <3>2. \A m \in DOMAIN list : list[m] # b
      BY DEF ToSet
    <3> QED
      BY <3>1, <3>2
  <2>2. \A m \in DOMAIN list : m > k => list[m] > b
    <3> SUFFICES ASSUME NEW m \in DOMAIN list, m > k PROVE list[m] > b
      OBVIOUS
    <3>1. k + 1 \in DOMAIN list /\ list[k + 1] > b
      BY <1>2, <2>1
    <3>2. m = k + 1 \/ list[k + 1] < list[m]
      BY <1>2, <3>1 DEF Increasing
    <3> QED
      BY <2>1, <3>1, <3>2
  <2>3. CASE i = k + 1
    BY <1>2, <1>5, <2>2, <2>3
  <2>4. CASE j = k + 1
    BY <1>2, <1>5, <2>4
  <2>5. CASE i # k + 1 /\ j # k + 1
    <3>1. PICK m \in DOMAIN list : longer[i] = list[m] /\ m = IF i <= k THEN i ELSE i - 1
      BY <1>5a, <2>5
    <3>2. PICK n \in DOMAIN list : longer[j] = list[n] /\ n = IF j <= k THEN j ELSE j - 1
      BY <1>5a, <2>5
    <3>3. i \in Nat /\ j \in Nat /\ k \in Nat
      BY <1>2, <1>5
    <3>4. m < n
      BY <2>5, <3>1, <3>2, <3>3
    <3> QED
      BY <3>1, <3>2, <3>4 DEF Increasing
  <2> QED
    BY <2>3, <2>4, <2>5
<1>10. ToSet(longer) = ToSet(list) \cup {b}
  BY <1>6, <1>7, <1>8 DEF ToSet
<1> QED
  BY <1>5, <1>9, <1>10 DEF longer

-----------------------------------------------------------------------------
(* Chunks and sizes.  From here on ChunkOf, ChunkBegin and the sizes are     *)
(* known by these facts only.                                               *)

\* Quotient and remainder are determined by their equation.
LEMMA Division ==
    ASSUME NEW a \in Int, NEW b \in Nat \ {0}, NEW q \in Int, NEW r \in 0..b - 1,
           a = b * q + r
    PROVE  a \div b = q /\ a % b = r
OBVIOUS

\* What one block of a chunk more has: a group of whole chunks covers the
\* headers of its chunks, but for the first.
Gap == ChunkBlocks - BlocksPerChunk

LEMMA Sizes ==
    /\ ChunkBlocks \in Nat /\ BlocksPerChunk \in Nat /\ MaxChunks \in Nat \ {0}
    /\ 2 <= BlocksPerChunk /\ BlocksPerChunk < ChunkBlocks /\ Gap \in Nat \ {0}
    /\ ChunkBlocks = PowerOfTwo[FreeListCount] /\ FreeListCount \in Nat
<1>1. ChunkBlocks \in Nat
  BY AllocatorAssumption, PowerOfTwoFacts DEF ChunkBlocks
<1> QED
  BY <1>1, AllocatorAssumption DEF Gap, ChunkBlocks

LEMMA ChunkBegins ==
    /\ \A c \in Int : ChunkBegin(c) \in Int /\ ChunkBegin(c + 1) = ChunkBegin(c) + ChunkBlocks
    /\ \A c, d \in Int : c < d => ChunkBegin(c) + ChunkBlocks <= ChunkBegin(d)
    /\ \A c \in Nat : ChunkBegin(c) \in Nat
    /\ ChunkBegin(0) = 0 /\ ChunkBegin(MaxChunks) = MemoryBlocks /\ MemoryBlocks \in Nat
<1> DEFINE C == ChunkBlocks
<1>1. C \in Nat /\ 0 < C /\ MaxChunks \in Nat
  BY Sizes
<1> HIDE DEF C
<1>2. \A c \in Int : c * C \in Int /\ (c + 1) * C = c * C + C
  BY <1>1
<1>3. ASSUME NEW c \in Int, NEW d \in Int, c < d PROVE c * C + C <= d * C
  <2>1. d - c - 1 \in Nat /\ (d - c - 1) * C \in Nat
    BY <1>1, <1>3
  <2>2. d * C = c * C + C + (d - c - 1) * C
    BY <1>1
  <2> QED
    BY <1>2, <2>1, <2>2
<1>4. \A c \in Nat : c * C \in Nat
  BY <1>1
<1> QED
  BY <1>1, <1>2, <1>3, <1>4 DEF ChunkBegin, MemoryBlocks, C

\* A number lies in one chunk.
LEMMA ChunkIs ==
    ASSUME NEW b \in Int, NEW c \in Int,
           ChunkBegin(c) <= b, b < ChunkBegin(c) + ChunkBlocks
    PROVE  ChunkOf(b) = c /\ b % ChunkBlocks = b - ChunkBegin(c)
<1> DEFINE r == b - ChunkBegin(c)
<1>1. r \in 0..ChunkBlocks - 1 /\ ChunkBlocks \in Nat \ {0}
  <2>1. ChunkBegin(c) \in Int
    BY ChunkBegins
  <2> QED
    BY <2>1, Sizes
<1>2. b = ChunkBlocks * c + r
  <2>1. ChunkBegin(c) = ChunkBlocks * c /\ ChunkBegin(c) \in Int
    BY Sizes, ChunkBegins DEF ChunkBegin
  <2> QED
    BY <2>1
<1> HIDE DEF r
<1>3. b \div ChunkBlocks = c /\ b % ChunkBlocks = r
  <2>1. r \in Int
    BY <1>1
  <2> QED
    BY <1>1, <1>2, Division
<1> QED
  BY <1>3 DEF ChunkOf, r

LEMMA ChunkOfFacts ==
    ASSUME NEW b \in Nat
    PROVE  /\ ChunkOf(b) \in Nat
           /\ ChunkBegin(ChunkOf(b)) <= b /\ b < ChunkBegin(ChunkOf(b)) + ChunkBlocks
           /\ b % ChunkBlocks = b - ChunkBegin(ChunkOf(b))
<1> DEFINE C == ChunkBlocks
           q == b \div C
           r == b % C
<1>1. C \in Nat \ {0}
  BY Sizes
<1> HIDE DEF C
<1>2. q \in Nat /\ r \in 0..C - 1 /\ b = C * q + r
  BY <1>1
<1>3. q * C = C * q
  BY <1>1, <1>2
<1> HIDE DEF q, r
<1>4. q * C <= b /\ b < q * C + C /\ r = b - q * C
  <2>1. q * C \in Int
    BY <1>1, <1>2
  <2> QED
    BY <1>1, <1>2, <1>3, <2>1
<1> QED
  BY <1>2, <1>4 DEF ChunkOf, ChunkBegin, q, r, C

LEMMA BlockIs ==
    /\ Blocks \subseteq Nat
    /\ \A b \in Nat : b \in Blocks <=> /\ ChunkOf(b) < MaxChunks
                                       /\ b < ChunkBegin(ChunkOf(b)) + BlocksPerChunk
<1>1. ASSUME NEW b \in Nat
      PROVE  b < MemoryBlocks <=> ChunkOf(b) < MaxChunks
  <2> DEFINE c == ChunkOf(b)
  <2>1. /\ c \in Nat /\ ChunkBegin(c) <= b /\ b < ChunkBegin(c) + ChunkBlocks
        /\ ChunkBegin(c) \in Nat /\ MaxChunks \in Nat
        /\ MemoryBlocks = ChunkBegin(MaxChunks) /\ MemoryBlocks \in Nat
    BY ChunkOfFacts, ChunkBegins, Sizes
  <2> HIDE DEF c
  <2>2. CASE c < MaxChunks
    <3>1. ChunkBegin(c) + ChunkBlocks <= ChunkBegin(MaxChunks)
      BY <2>1, <2>2, ChunkBegins
    <3> QED
      BY <2>1, <2>2, <3>1, Sizes DEF c
  <2>3. CASE c >= MaxChunks
    <3>1. ChunkBegin(c) >= ChunkBegin(MaxChunks)
      <4>1. MaxChunks < c => ChunkBegin(MaxChunks) + ChunkBlocks <= ChunkBegin(c)
        BY <2>1, ChunkBegins
      <4> QED
        BY <2>1, <2>3, <4>1, Sizes
    <3> QED
      BY <2>1, <2>3, <3>1 DEF c
  <2> QED
    BY <2>1, <2>2, <2>3
<1>2. ASSUME NEW b \in Nat
      PROVE  b % ChunkBlocks < BlocksPerChunk
               <=> b < ChunkBegin(ChunkOf(b)) + BlocksPerChunk
  <2>1. /\ ChunkOf(b) \in Nat /\ b % ChunkBlocks = b - ChunkBegin(ChunkOf(b))
        /\ ChunkBegin(ChunkOf(b)) \in Nat
    BY ChunkOfFacts, ChunkBegins
  <2> QED
    BY <2>1, Sizes
<1>3. Blocks \subseteq Nat
  BY ChunkBegins DEF Blocks
<1>4. \A b \in Nat : b \in Blocks <=> b < MemoryBlocks /\ b % ChunkBlocks < BlocksPerChunk
  BY ChunkBegins DEF Blocks
<1> QED
  BY <1>1, <1>2, <1>3, <1>4

\* The spans of groups of whole chunks.
LEMMA SpansOfChunks ==
    ASSUME NEW m \in Nat, 1 <= m
    PROVE  /\ BlocksForChunks(m) \in Nat /\ BlocksPerChunk <= BlocksForChunks(m)
           /\ ChunksForBlocks(BlocksForChunks(m)) = m
           /\ \A c \in Int : ChunkBegin(c) + BlocksForChunks(m) + Gap = ChunkBegin(c + m)
<1> DEFINE C == ChunkBlocks
           P == BlocksPerChunk
           k == m - 1
<1>1. C \in Nat \ {0} /\ P \in Nat /\ P < C /\ k \in Nat /\ m = k + 1 /\ C - 1 \in 0..C - 1
  BY Sizes
<1>2. BlocksForChunks(m) = P + k * C
  BY DEF BlocksForChunks
<1>3. k * C \in Nat /\ k * C = C * k
  <2> HIDE DEF C, k
  <2> QED
    BY <1>1
<1>4. ChunksForBlocks(BlocksForChunks(m)) = m
  <2> DEFINE y == P + k * C
             a == y - P + C - 1
             r == C - 1
  <2>1. a = C * k + r /\ a \in Int
    BY <1>1, <1>3
  <2>2. ChunksForBlocks(BlocksForChunks(m)) = 1 + a \div C
    <3>1. ASSUME NEW x PROVE ChunksForBlocks(x) = 1 + (x - P + C - 1) \div C
      BY DEF ChunksForBlocks
    <3>2. BlocksForChunks(m) = y
      BY <1>2
    <3> HIDE DEF y
    <3> QED
      BY <3>1, <3>2
  <2> HIDE DEF a, C, k
  <2>3. a \div C = k
    <3>1. k \in Int /\ r \in 0..C - 1
      BY <1>1
    <3> HIDE DEF r
    <3> QED
      BY <1>1, <2>1, <3>1, Division
  <2> QED
    BY <1>1, <2>2, <2>3
<1>5. ASSUME NEW c \in Int
      PROVE  ChunkBegin(c) + BlocksForChunks(m) + Gap = ChunkBegin(c + m)
  <2>1. (c + m) * C = c * C + (k * C + C)
    <3> HIDE DEF C, k
    <3> QED
      BY <1>1
  <2>2. c * C \in Int
    <3> HIDE DEF C
    <3> QED
      BY <1>1
  <2> QED
    BY <1>1, <1>2, <1>3, <2>1, <2>2 DEF ChunkBegin, Gap
<1> QED
  BY <1>1, <1>2, <1>3, <1>4, <1>5

\* The chunks for a request are enough, and less than a chunk more.
LEMMA ChunksForRequest ==
    ASSUME NEW n \in Nat, BlocksPerChunk <= n
    PROVE  /\ ChunksForBlocks(n) \in Nat /\ 1 <= ChunksForBlocks(n)
           /\ n <= BlocksForChunks(ChunksForBlocks(n))
           /\ BlocksForChunks(ChunksForBlocks(n)) < n + ChunkBlocks
<1> DEFINE C == ChunkBlocks
           P == BlocksPerChunk
           a == n - P + C - 1
           q == a \div C
           r == a % C
<1>1. C \in Nat \ {0} /\ P \in Nat /\ a \in Nat /\ a = n - P + C - 1
  BY Sizes
<1>2. ChunksForBlocks(n) = 1 + q
  BY DEF ChunksForBlocks
<1> HIDE DEF a, C
<1>3. q \in Nat /\ r \in 0..C - 1 /\ a = C * q + r
  BY <1>1
<1>4. q * C = C * q /\ q * C \in Nat
  BY <1>1, <1>3
<1>5. BlocksForChunks(1 + q) = P + q * C
  <2>1. (1 + q) - 1 = q
    BY <1>3
  <2> HIDE DEF q
  <2> QED
    BY <2>1 DEF BlocksForChunks, C
<1> HIDE DEF q, r
<1>6. n <= P + q * C /\ P + q * C < n + C
  BY <1>1, <1>3, <1>4
<1> QED
  BY <1>2, <1>3, <1>5, <1>6 DEF C

-----------------------------------------------------------------------------
(* The inductive invariant.  Heads are the first blocks of all groups: out   *)
(* are those in no list.                                                     *)

StateType == [span : [Blocks -> 0..MemoryBlocks], free : [Blocks -> BOOLEAN],
              constructed : SUBSET Blocks, lists : [Indices -> Seq(Blocks)],
              chunks : Seq(Blocks), allocations : Seq((0..MaxChunks) \X (0..MaxChunks)),
              blocksAllocated : Int, chunksAllocated : Int]

InLists(s) == UNION {ToSet(s.lists[x]) : x \in Indices}

Heads(s, out) == out \cup InLists(s) \cup ToSet(s.chunks)

\* Where the memory of a group ends.  That of whole chunks ends with a chunk.
EndOf(s, b) == b + s.span[b] + IF s.span[b] < BlocksPerChunk THEN 0 ELSE Gap

IsSmall(s, b) == s.span[b] \in 1..BlocksPerChunk - 1 /\ b + s.span[b] <= ChunkEnd(ChunkOf(b))

IsLarge(s, b) ==
    /\ b = ChunkBegin(ChunkOf(b))
    /\ \E m \in 1..MaxChunks - ChunkOf(b) : s.span[b] = BlocksForChunks(m)

\* The first block and the last one of a group within a chunk have its span,
\* and the descriptors of the chunk are there.
IsTagged(s, b) ==
    /\ DescriptorsOf(ChunkOf(b)) \subseteq s.constructed
    /\ s.span[b] <= BlocksPerChunk => s.span[b + s.span[b] - 1] = s.span[b]

IsGroup(s, b) == b \in Blocks /\ (IsSmall(s, b) \/ IsLarge(s, b)) /\ IsTagged(s, b)

GroupsApart(s, out) == \A g, h \in Heads(s, out) : g < h => EndOf(s, g) <= h

Owned(s) == UNION {a[1]..a[1] + a[2] - 1 : a \in ToSet(s.allocations)}

ChunksCovered(s, out) ==
    \A b \in Blocks :
      ChunkOf(b) \in Owned(s) <=> \E g \in Heads(s, out) : g <= b /\ b < EndOf(s, g)

\* The groups in the free lists and in the list of chunks.
ListsMatch(s, out) ==
    /\ \A x \in Indices :
         /\ IsInjective(s.lists[x])
         /\ \A b \in ToSet(s.lists[x]) :
              /\ b \notin out /\ s.span[b] \in 1..BlocksPerChunk - 1
              /\ PowerOfTwo[x] <= s.span[b] /\ s.span[b] < PowerOfTwo[x + 1]
    /\ Increasing(s.chunks)
    /\ \A b \in ToSet(s.chunks) : b \notin out /\ s.span[b] >= BlocksPerChunk

\* All descriptors but those of the groups in no list are marked as free, also
\* within groups.
FreeMatch(s, out) == \A d \in s.constructed : s.free[d] \/ d \in out

MemoryCounted(s) ==
    /\ Owned(s) \subseteq 0..MaxChunks - 1
    /\ s.chunksAllocated = Cardinality(Owned(s))

Sound(s, out) ==
    /\ s \in StateType
    /\ \A b \in Heads(s, out) : IsGroup(s, b)
    /\ GroupsApart(s, out) /\ ChunksCovered(s, out)
    /\ ListsMatch(s, out) /\ FreeMatch(s, out) /\ MemoryCounted(s)

Merged(s) ==
    /\ \A b, c \in InLists(s) : b + s.span[b] = c => ChunkOf(b) # ChunkOf(c)
    /\ \A b, c \in ToSet(s.chunks) : EndOf(s, b) # c

\* What clients have, asked for n blocks.
SpanFor(n) == IF n < BlocksPerChunk THEN n ELSE BlocksForChunks(ChunksForBlocks(n))

ClientsMatch ==
    /\ live \in [DOMAIN live -> Requests]
    /\ \A b \in DOMAIN live : ~free[b] /\ span[b] = SpanFor(live[b])
    /\ blocksAllocated = Cardinality(UNION {Extent(b) : b \in DOMAIN live})

IInv == Sound(State, DOMAIN live) /\ Merged(State) /\ ClientsMatch

-----------------------------------------------------------------------------
(* Groups *)

LEMMA StateFields ==
    ASSUME NEW s \in StateType
    PROVE  /\ s.span \in [Blocks -> 0..MemoryBlocks] /\ s.free \in [Blocks -> BOOLEAN]
           /\ s.constructed \subseteq Blocks /\ s.lists \in [Indices -> Seq(Blocks)]
           /\ s.chunks \in Seq(Blocks)
           /\ s.allocations \in Seq((0..MaxChunks) \X (0..MaxChunks))
           /\ s.blocksAllocated \in Int /\ s.chunksAllocated \in Int
BY DEF StateType

\* Where the blocks of a chunk end, and where the chunk does.
LEMMA ChunkEnds ==
    ASSUME NEW c \in Int
    PROVE  /\ ChunkBegin(c) \in Int /\ ChunkEnd(c) \in Int
           /\ ChunkEnd(c) = ChunkBegin(c) + BlocksPerChunk
           /\ ChunkEnd(c) + Gap = ChunkBegin(c + 1)
           /\ ChunkBegin(c + 1) = ChunkBegin(c) + ChunkBlocks
<1>1. /\ ChunkBegin(c) \in Int /\ ChunkBegin(c + 1) = ChunkBegin(c) + ChunkBlocks
      /\ BlocksPerChunk \in Nat /\ ChunkBlocks \in Nat
  BY ChunkBegins, Sizes
<1>2. ChunkEnd(c) = ChunkBegin(c) + BlocksPerChunk /\ Gap = ChunkBlocks - BlocksPerChunk
  BY DEF ChunkEnd, Gap
<1> QED
  BY <1>1, <1>2

\* A block of a chunk, by its place.
LEMMA BlockOfChunk ==
    ASSUME NEW x \in Int, NEW c \in 0..MaxChunks - 1, ChunkBegin(c) <= x, x < ChunkEnd(c)
    PROVE  x \in Blocks /\ ChunkOf(x) = c
<1>0. c \in Nat /\ c < MaxChunks
  BY Sizes
<1>1. x < ChunkBegin(c) + BlocksPerChunk /\ x < ChunkBegin(c) + ChunkBlocks
  BY <1>0, ChunkEnds, Sizes
<1>2. ChunkOf(x) = c
  BY <1>0, <1>1, ChunkIs
<1>3. x \in Nat
  <2>1. ChunkBegin(c) \in Nat
    BY <1>0, ChunkBegins
  <2> QED
    BY <2>1
<1> QED
  BY <1>0, <1>1, <1>2, <1>3, BlockIs

\* The chunk and the place in it of a block.
LEMMA BlockPlace ==
    ASSUME NEW x \in Blocks
    PROVE  /\ x \in Nat /\ ChunkOf(x) \in 0..MaxChunks - 1
           /\ ChunkBegin(ChunkOf(x)) <= x /\ x < ChunkEnd(ChunkOf(x))
<1>1. x \in Nat /\ ChunkOf(x) < MaxChunks /\ x < ChunkBegin(ChunkOf(x)) + BlocksPerChunk
  BY BlockIs
<1>2. ChunkOf(x) \in Nat /\ ChunkBegin(ChunkOf(x)) <= x
  BY <1>1, ChunkOfFacts
<1> QED
  BY <1>1, <1>2, Sizes, ChunkEnds

LEMMA GroupFacts ==
    ASSUME NEW s \in StateType, NEW b, IsGroup(s, b)
    PROVE  /\ b \in Blocks /\ b \in Nat /\ s.span[b] \in Nat \ {0} /\ EndOf(s, b) \in Nat
           /\ b + s.span[b] <= EndOf(s, b)
           /\ s.span[b] < BlocksPerChunk =>
                EndOf(s, b) = b + s.span[b] /\ EndOf(s, b) <= ChunkEnd(ChunkOf(b))
           /\ BlocksPerChunk <= s.span[b] =>
                /\ b = ChunkBegin(ChunkOf(b)) /\ EndOf(s, b) = b + s.span[b] + Gap
                /\ \E m \in 1..MaxChunks - ChunkOf(b) :
                     /\ s.span[b] = BlocksForChunks(m)
                     /\ EndOf(s, b) = ChunkBegin(ChunkOf(b) + m)
<1>1. b \in Blocks /\ b \in Nat /\ s.span[b] \in 0..MemoryBlocks
  BY BlockPlace, StateFields DEF IsGroup
<1>2. ChunkOf(b) \in 0..MaxChunks - 1 /\ MaxChunks \in Nat /\ MemoryBlocks \in Nat
  BY <1>1, BlockPlace, Sizes, ChunkBegins
<1>3. BlocksPerChunk \in Nat /\ 2 <= BlocksPerChunk /\ Gap \in Nat
  BY Sizes
<1>4. EndOf(s, b) = b + s.span[b] + IF s.span[b] < BlocksPerChunk THEN 0 ELSE Gap
  BY DEF EndOf
<1>5. EndOf(s, b) \in Nat /\ b + s.span[b] <= EndOf(s, b)
  BY <1>1, <1>2, <1>3, <1>4
<1>6. CASE s.span[b] < BlocksPerChunk
  <2>1. ~IsLarge(s, b)
    <3> SUFFICES ASSUME NEW m \in 1..MaxChunks - ChunkOf(b), s.span[b] = BlocksForChunks(m)
                 PROVE  FALSE
      BY DEF IsLarge
    <3>1. BlocksPerChunk <= BlocksForChunks(m) /\ BlocksForChunks(m) \in Nat
      BY <1>2, SpansOfChunks
    <3> QED
      BY <1>1, <1>2, <1>3, <1>6, <3>1
  <2>2. s.span[b] \in 1..BlocksPerChunk - 1 /\ b + s.span[b] <= ChunkEnd(ChunkOf(b))
    BY <2>1 DEF IsGroup, IsSmall
  <2> QED
    BY <1>1, <1>2, <1>3, <1>4, <1>5, <1>6, <2>2
<1>7. CASE BlocksPerChunk <= s.span[b]
  <2>1. IsLarge(s, b)
    <3>1. ~(s.span[b] \in 1..BlocksPerChunk - 1)
      BY <1>1, <1>3, <1>7
    <3> QED
      BY <3>1 DEF IsGroup, IsSmall
  <2>2. PICK m \in 1..MaxChunks - ChunkOf(b) : s.span[b] = BlocksForChunks(m)
    BY <2>1 DEF IsLarge
  <2>3. b = ChunkBegin(ChunkOf(b))
    BY <2>1 DEF IsLarge
  <2>4. ChunkBegin(ChunkOf(b)) + BlocksForChunks(m) + Gap = ChunkBegin(ChunkOf(b) + m)
    BY <1>2, SpansOfChunks
  <2>5. EndOf(s, b) = b + s.span[b] + Gap
    BY <1>1, <1>2, <1>3, <1>4, <1>7
  <2>6. s.span[b] # 0
    BY <1>3, <1>7
  <2> QED
    BY <1>1, <1>2, <1>3, <1>5, <1>7, <2>2, <2>3, <2>4, <2>5, <2>6
<1> QED
  BY <1>1, <1>2, <1>3, <1>6, <1>7

LEMMA SoundFacts ==
    ASSUME NEW s, NEW out, Sound(s, out)
    PROVE  /\ s \in StateType
           /\ \A g \in Heads(s, out) : IsGroup(s, g)
           /\ out \subseteq Heads(s, out) /\ InLists(s) \subseteq Heads(s, out)
           /\ ToSet(s.chunks) \subseteq Heads(s, out)
           /\ \A x \in Indices : ToSet(s.lists[x]) \subseteq InLists(s)
           /\ Heads(s, out) \subseteq Blocks
BY DEF Sound, Heads, InLists, IsGroup

LEMMA Apart ==
    ASSUME NEW s, NEW out, Sound(s, out), NEW g \in Heads(s, out), NEW h \in Heads(s, out)
    PROVE  /\ g \in Nat /\ h \in Nat /\ EndOf(s, g) \in Nat /\ EndOf(s, h) \in Nat
           /\ g < EndOf(s, g) /\ h < EndOf(s, h)
           /\ g < h => EndOf(s, g) <= h
           /\ EndOf(s, g) = EndOf(s, h) => g = h
           /\ h <= g /\ g < EndOf(s, h) => g = h
<1>1. IsGroup(s, g) /\ IsGroup(s, h) /\ s \in StateType
  BY SoundFacts
<1>2. /\ g \in Nat /\ h \in Nat /\ EndOf(s, g) \in Nat /\ EndOf(s, h) \in Nat
      /\ s.span[g] \in Nat \ {0} /\ s.span[h] \in Nat \ {0}
      /\ g + s.span[g] <= EndOf(s, g) /\ h + s.span[h] <= EndOf(s, h)
  BY <1>1, GroupFacts
<1>3. (g < h => EndOf(s, g) <= h) /\ (h < g => EndOf(s, h) <= g)
  BY DEF Sound, GroupsApart
<1> QED
  BY <1>2, <1>3

\* r differs from s in the descriptors of the blocks from lo to hi only, and
\* may have more of them, which are free.
Changed(s, r, lo, hi) ==
    /\ r \in StateType /\ r.lists = s.lists /\ r.chunks = s.chunks
    /\ \A x \in Blocks : x < lo \/ hi <= x => r.span[x] = s.span[x] /\ r.free[x] = s.free[x]
    /\ s.constructed \subseteq r.constructed
    /\ \A d \in r.constructed : r.free[d] \/ (d \in s.constructed /\ r.free[d] = s.free[d])

\* The memory from lo to hi, of groups in no list, is made into other groups.
Regroups(s, r, out, Old, New, lo, hi) ==
    /\ Sound(s, out) /\ MemoryCounted(r) /\ Changed(s, r, lo, hi)
    /\ Old \subseteq out /\ lo \in Int /\ hi \in Int
    /\ \A g \in Heads(s, out) \ Old : EndOf(s, g) <= lo \/ hi <= g
    /\ \A g \in Old : r.free[g]
    /\ \A x \in Blocks : \A g \in Old : g <= x /\ x < EndOf(s, g) => lo <= x /\ x < hi
    /\ \A h \in New : IsGroup(r, h) /\ lo <= h /\ EndOf(r, h) <= hi
    /\ \A g, h \in New : g < h => EndOf(r, g) <= h
    /\ \A x \in Blocks : lo <= x /\ x < hi => \E h \in New : h <= x /\ x < EndOf(r, h)
    /\ \A x \in Blocks :
         ChunkOf(x) \in Owned(r) <=> ChunkOf(x) \in Owned(s) \/ (lo <= x /\ x < hi)

Regrouped(s, r, out, Old, New) ==
    /\ Sound(r, (out \ Old) \cup New)
    /\ \A g \in Heads(s, out) \ Old :
         g \notin New /\ r.span[g] = s.span[g] /\ r.free[g] = s.free[g]

LEMMA Regroup ==
    ASSUME NEW s, NEW r, NEW out, NEW Old, NEW New, NEW lo, NEW hi,
           Regroups(s, r, out, Old, New, lo, hi)
    PROVE  Regrouped(s, r, out, Old, New)
<1> USE DEF Regroups
<1> DEFINE out2 == (out \ Old) \cup New
           Kept == Heads(s, out) \ Old
<1>1. s \in StateType /\ r \in StateType /\ InLists(r) = InLists(s)
  BY SoundFacts DEF Changed, InLists
<1>2. ListsMatch(s, out)
  BY DEF Sound
<1>3. InLists(s) \cap out = {} /\ ToSet(s.chunks) \cap out = {}
  BY <1>2 DEF ListsMatch, InLists
<1>4. Heads(r, out2) = Kept \cup New
  BY <1>1, <1>3 DEF Heads, Changed
<1>5. ASSUME NEW g \in Kept
      PROVE  /\ g \in Nat /\ EndOf(s, g) \in Nat /\ g < EndOf(s, g)
             /\ r.span[g] = s.span[g] /\ r.free[g] = s.free[g] /\ EndOf(r, g) = EndOf(s, g)
             /\ IsGroup(r, g)
  <2>1. g \in Nat /\ g \in Blocks /\ EndOf(s, g) \in Nat /\ g < EndOf(s, g) /\ IsGroup(s, g)
    BY Apart, SoundFacts
  <2>2. g < lo \/ hi <= g
    BY <2>1
  <2>3. r.span[g] = s.span[g] /\ r.free[g] = s.free[g]
    BY <2>1, <2>2 DEF Changed
  <2>4. IsSmall(r, g) <=> IsSmall(s, g)
    BY <2>3 DEF IsSmall
  <2>5. IsLarge(r, g) <=> IsLarge(s, g)
    BY <2>3 DEF IsLarge
  <2>6. EndOf(r, g) = EndOf(s, g)
    BY <2>3 DEF EndOf
  <2>7. ASSUME s.span[g] <= BlocksPerChunk
        PROVE  r.span[g + s.span[g] - 1] = s.span[g + s.span[g] - 1]
    <3> DEFINE last == g + s.span[g] - 1
    <3>1. s.span[g] \in Nat \ {0} /\ g + s.span[g] <= EndOf(s, g)
      BY <1>1, <2>1, GroupFacts
    <3>2. last < lo \/ hi <= last
      BY <2>1, <3>1
    <3>3. last \in Blocks
      <4>0. ChunkOf(g) \in 0..MaxChunks - 1 /\ ChunkBegin(ChunkOf(g)) <= g
        BY <2>1, BlockPlace
      <4>1. ChunkBegin(ChunkOf(g)) \in Int /\ ChunkOf(g) \in Int
            /\ ChunkEnd(ChunkOf(g)) = ChunkBegin(ChunkOf(g)) + BlocksPerChunk
            /\ BlocksPerChunk \in Nat
        BY <4>0, ChunkEnds, Sizes
      <4>2. g + s.span[g] <= ChunkEnd(ChunkOf(g))
        <5>1. CASE s.span[g] < BlocksPerChunk
          BY <1>1, <2>1, <3>1, <5>1, GroupFacts
        <5>2. CASE BlocksPerChunk <= s.span[g]
          <6>1. g = ChunkBegin(ChunkOf(g))
            BY <1>1, <2>1, <5>2, GroupFacts
          <6> QED
            BY <2>1, <2>7, <3>1, <4>1, <6>1
        <5> QED
          BY <3>1, <4>1, <5>1, <5>2
      <4>3. ChunkBegin(ChunkOf(g)) <= last /\ last < ChunkEnd(ChunkOf(g)) /\ last \in Int
        BY <2>1, <3>1, <4>0, <4>1, <4>2
      <4> QED
        BY <4>0, <4>3, BlockOfChunk
    <3> QED
      BY <3>2, <3>3 DEF Changed
  <2>8. IsTagged(s, g)
    BY <2>1 DEF IsGroup
  <2>9. IsTagged(r, g)
    BY <2>3, <2>7, <2>8 DEF IsTagged, Changed
  <2> QED
    BY <2>1, <2>3, <2>4, <2>5, <2>6, <2>9 DEF IsGroup
<1>6. ASSUME NEW h \in New
      PROVE  h \in Nat /\ EndOf(r, h) \in Nat /\ h < EndOf(r, h)
  <2>1. /\ h \in Nat /\ EndOf(r, h) \in Nat /\ r.span[h] \in Nat \ {0}
        /\ h + r.span[h] <= EndOf(r, h)
    BY <1>1, GroupFacts
  <2> QED
    BY <2>1
<1>7. ASSUME NEW g \in Kept PROVE g \notin New
  <2> SUFFICES ASSUME g \in New PROVE FALSE
    OBVIOUS
  <2>1. /\ g \in Nat /\ EndOf(s, g) \in Nat /\ g < EndOf(s, g)
        /\ EndOf(r, g) \in Nat /\ g < EndOf(r, g)
    BY <1>5, <1>6
  <2> QED
    BY <2>1
<1>8. GroupsApart(r, out2)
  <2> SUFFICES ASSUME NEW g \in Kept \cup New, NEW h \in Kept \cup New, g < h
               PROVE  EndOf(r, g) <= h
    BY <1>4 DEF GroupsApart
  <2>1. CASE g \in Kept /\ h \in Kept
    BY <2>1, <1>5, Apart
  <2>2. CASE g \in New /\ h \in New
    BY <2>2
  <2>3. CASE g \in Kept /\ h \in New
    BY <2>3, <1>5, <1>6
  <2>4. CASE g \in New /\ h \in Kept
    BY <2>4, <1>5, <1>6
  <2> QED
    BY <2>1, <2>2, <2>3, <2>4
<1>9. ChunksCovered(r, out2)
  <2> SUFFICES ASSUME NEW x \in Blocks
               PROVE  ChunkOf(x) \in Owned(r) <=>
                        \E g \in Kept \cup New : g <= x /\ x < EndOf(r, g)
    BY <1>4 DEF ChunksCovered
  <2>1. ChunkOf(x) \in Owned(s) <=> \E g \in Heads(s, out) : g <= x /\ x < EndOf(s, g)
    BY DEF Sound, ChunksCovered
  <2>2. ASSUME ChunkOf(x) \in Owned(r), ~(lo <= x /\ x < hi)
        PROVE  \E g \in Kept : g <= x /\ x < EndOf(r, g)
    <3>1. PICK g \in Heads(s, out) : g <= x /\ x < EndOf(s, g)
      BY <2>1, <2>2
    <3>2. g \in Kept
      BY <2>2, <3>1
    <3> QED
      BY <1>5, <3>1, <3>2
  <2>3. ASSUME lo <= x /\ x < hi
        PROVE  \E g \in New : g <= x /\ x < EndOf(r, g)
    BY <2>3
  <2>4. ASSUME NEW g \in Kept, g <= x, x < EndOf(r, g) PROVE ChunkOf(x) \in Owned(r)
    BY <1>5, <2>1, <2>4
  <2>5. ASSUME NEW g \in New, g <= x, x < EndOf(r, g) PROVE ChunkOf(x) \in Owned(r)
    <3>1. lo <= x /\ x < hi
      BY <1>6, <2>5, BlockPlace
    <3> QED
      BY <3>1
  <2> HIDE DEF Kept
  <2> QED
    BY <2>2, <2>3, <2>4, <2>5
<1>10. ListsMatch(r, out2)
  <2>1. ASSUME NEW b, b \in InLists(s) \/ b \in ToSet(s.chunks)
        PROVE  b \notin out2 /\ r.span[b] = s.span[b]
    <3>1. b \in Kept
      BY <1>3, <2>1 DEF Heads
    <3> QED
      BY <1>3, <1>5, <1>7, <2>1, <3>1
  <2>2. ASSUME NEW x \in Indices
        PROVE  /\ IsInjective(r.lists[x])
               /\ \A b \in ToSet(r.lists[x]) :
                    /\ b \notin out2 /\ r.span[b] \in 1..BlocksPerChunk - 1
                    /\ PowerOfTwo[x] <= r.span[b] /\ r.span[b] < PowerOfTwo[x + 1]
    <3>1. /\ r.lists[x] = s.lists[x] /\ IsInjective(s.lists[x])
          /\ ToSet(s.lists[x]) \subseteq InLists(s)
      BY <1>2 DEF Changed, ListsMatch, InLists
    <3> HIDE DEF out2
    <3> QED
      BY <1>2, <2>1, <3>1 DEF ListsMatch
  <2>3. Increasing(r.chunks) /\ \A b \in ToSet(r.chunks) : b \notin out2 /\ r.span[b] >= BlocksPerChunk
    <3>1. r.chunks = s.chunks
      BY DEF Changed
    <3> HIDE DEF out2
    <3> QED
      BY <1>2, <2>1, <3>1 DEF ListsMatch
  <2> HIDE DEF out2
  <2> QED
    BY <2>2, <2>3 DEF ListsMatch
<1>11. FreeMatch(r, out2)
  <2> SUFFICES ASSUME NEW d \in r.constructed, ~r.free[d] PROVE d \in out \ Old
    BY DEF FreeMatch
  <2>1. d \in s.constructed /\ ~s.free[d]
    BY DEF Changed
  <2>2. d \in out
    BY <2>1 DEF Sound, FreeMatch
  <2> QED
    BY <2>2
<1>12. \A g \in Heads(r, out2) : IsGroup(r, g)
  BY <1>4, <1>5
<1> HIDE DEF out2, Kept
<1>13. Sound(r, out2)
  BY <1>1, <1>8, <1>9, <1>10, <1>11, <1>12 DEF Sound
<1> QED
  BY <1>5, <1>7, <1>13 DEF out2, Kept, Regrouped

-----------------------------------------------------------------------------
(* Groups are set up, split and merged *)

LEMMA ChunkFits == BlocksPerChunk \in Nat /\ MemoryBlocks \in Nat /\ BlocksPerChunk <= MemoryBlocks
<1>1. 0 \in Int /\ MaxChunks \in Int /\ 0 < MaxChunks
  BY Sizes
<1>2. ChunkBegin(0) + ChunkBlocks <= ChunkBegin(MaxChunks)
  BY <1>1, ChunkBegins
<1>3. ChunkBegin(0) = 0 /\ ChunkBegin(MaxChunks) = MemoryBlocks /\ MemoryBlocks \in Nat
  BY ChunkBegins
<1>4. ChunkBlocks <= MemoryBlocks
  BY <1>2, <1>3, Sizes
<1> QED
  BY <1>3, <1>4, Sizes

LEMMA SetupFacts ==
    ASSUME NEW s \in StateType, NEW b \in Blocks, NEW n \in 1..MemoryBlocks,
           n <= BlocksPerChunk => b + n - 1 \in Blocks
    PROVE  LET r == SetupGroup(s, b, n) IN
           /\ r \in StateType
           /\ r.free = s.free /\ r.constructed = s.constructed /\ r.lists = s.lists
           /\ r.chunks = s.chunks /\ r.allocations = s.allocations
           /\ r.blocksAllocated = s.blocksAllocated
           /\ r.chunksAllocated = s.chunksAllocated
           /\ r.span[b] = n /\ (n <= BlocksPerChunk => r.span[b + n - 1] = n)
           /\ \A x \in Blocks : x # b /\ (n <= BlocksPerChunk => x # b + n - 1) =>
                                  r.span[x] = s.span[x]
<1> DEFINE last == IF n > 1 /\ n <= BlocksPerChunk THEN b + n - 1 ELSE b
           half == [s EXCEPT !.span[b] = n]
           r == SetupGroup(s, b, n)
<1>1. b \in Nat /\ MemoryBlocks \in Nat /\ BlocksPerChunk \in Nat
  BY BlockPlace, ChunkFits
<1>2. last \in Blocks /\ (n <= BlocksPerChunk => last = b + n - 1) /\ (n > BlocksPerChunk => last = b)
  BY <1>1
<1>3. n \in 0..MemoryBlocks
  BY <1>1
<1>4. r = [s EXCEPT !.span[b] = n, !.span[last] = n]
  BY DEF SetupGroup
<1> HIDE DEF last, r
<1>5. r \in StateType
  BY <1>2, <1>3, <1>4 DEF StateType
<1>6. /\ r.free = s.free /\ r.constructed = s.constructed /\ r.lists = s.lists
      /\ r.chunks = s.chunks /\ r.allocations = s.allocations
      /\ r.blocksAllocated = s.blocksAllocated
      /\ r.chunksAllocated = s.chunksAllocated
  BY <1>4 DEF StateType
<1>7. \A x \in Blocks : r.span[x] = IF x = b \/ x = last THEN n ELSE s.span[x]
  BY <1>2, <1>4 DEF StateType
<1>8. r.span[b] = n /\ (n <= BlocksPerChunk => r.span[b + n - 1] = n)
  BY <1>2, <1>7
<1>9. \A x \in Blocks : x # b /\ (n <= BlocksPerChunk => x # b + n - 1) => r.span[x] = s.span[x]
  BY <1>1, <1>2, <1>7
<1> QED
  BY <1>5, <1>6, <1>8, <1>9 DEF r

\* Only descriptors differ.
OnlySpans(s, r) ==
    /\ r \in StateType
    /\ r.free = s.free /\ r.constructed = s.constructed /\ r.lists = s.lists
    /\ r.chunks = s.chunks /\ r.allocations = s.allocations
    /\ r.blocksAllocated = s.blocksAllocated
    /\ r.chunksAllocated = s.chunksAllocated

\* The descriptors of a group within a chunk.
LEMMA GroupBlocks ==
    ASSUME NEW s \in StateType, NEW b, IsGroup(s, b), s.span[b] <= BlocksPerChunk,
           NEW x \in Int, b <= x, x < b + s.span[b]
    PROVE  /\ x \in Blocks /\ ChunkOf(x) = ChunkOf(b)
           /\ b + s.span[b] <= ChunkEnd(ChunkOf(b))
<1>1. b \in Blocks /\ b \in Nat /\ s.span[b] \in Nat \ {0} /\ b + s.span[b] <= EndOf(s, b)
  BY GroupFacts
<1>2. ChunkOf(b) \in 0..MaxChunks - 1 /\ ChunkBegin(ChunkOf(b)) <= b
  BY <1>1, BlockPlace
<1>3. /\ ChunkBegin(ChunkOf(b)) \in Int /\ ChunkOf(b) \in Int
      /\ ChunkEnd(ChunkOf(b)) = ChunkBegin(ChunkOf(b)) + BlocksPerChunk
      /\ BlocksPerChunk \in Nat
  BY <1>2, ChunkEnds, Sizes
<1>4. b + s.span[b] <= ChunkEnd(ChunkOf(b))
  <2>1. CASE s.span[b] < BlocksPerChunk
    BY <1>1, <2>1, GroupFacts
  <2>2. CASE s.span[b] = BlocksPerChunk
    <3>1. BlocksPerChunk <= s.span[b]
      BY <1>3, <2>2
    <3>2. b = ChunkBegin(ChunkOf(b))
      BY <3>1, GroupFacts
    <3> QED
      BY <1>1, <1>3, <2>2, <3>2
  <2> QED
    BY <1>1, <1>3, <2>1, <2>2
<1>5. ChunkBegin(ChunkOf(b)) <= x /\ x < ChunkEnd(ChunkOf(b))
  BY <1>1, <1>2, <1>3, <1>4
<1> QED
  BY <1>2, <1>4, <1>5, BlockOfChunk

LEMMA SameMemory ==
    ASSUME NEW s, NEW r, NEW out, Sound(s, out), r.allocations = s.allocations,
           r.chunksAllocated = s.chunksAllocated
    PROVE  MemoryCounted(r) /\ Owned(r) = Owned(s)
BY DEF Sound, MemoryCounted, Owned

\* The blocks in the memory of a group within a chunk are those of the group.
LEMMA GroupMemory ==
    ASSUME NEW s \in StateType, NEW b, IsGroup(s, b), s.span[b] <= BlocksPerChunk,
           NEW x \in Blocks, b <= x, x < EndOf(s, b)
    PROVE  x < b + s.span[b]
<1>1. b \in Nat /\ s.span[b] \in Nat \ {0} /\ x \in Nat /\ BlocksPerChunk \in Nat
  BY GroupFacts, BlockPlace, Sizes
<1>2. CASE s.span[b] < BlocksPerChunk
  BY <1>1, <1>2, GroupFacts
<1>3. CASE BlocksPerChunk <= s.span[b]
  <2> DEFINE c == ChunkOf(b)
  <2>1. b = ChunkBegin(c) /\ EndOf(s, b) = b + s.span[b] + Gap /\ b \in Blocks
    BY <1>3, GroupFacts
  <2>2. c \in 0..MaxChunks - 1 /\ c \in Int
    BY <2>1, BlockPlace
  <2> HIDE DEF c
  <2>3. /\ ChunkEnd(c) = b + BlocksPerChunk /\ ChunkEnd(c) + Gap = ChunkBegin(c + 1)
        /\ ChunkBegin(c + 1) = ChunkBegin(c) + ChunkBlocks /\ Gap \in Nat
    BY <2>1, <2>2, ChunkEnds, Sizes
  <2>4. ChunkBegin(c) <= x /\ x < ChunkBegin(c) + ChunkBlocks
    BY <1>1, <1>3, <2>1, <2>3
  <2>5. ChunkOf(x) = c
    BY <1>1, <2>2, <2>4, ChunkIs
  <2>6. x < ChunkEnd(c)
    BY <2>5, BlockPlace
  <2> QED
    BY <1>1, <1>3, <2>3, <2>6
<1> QED
  BY <1>1, <1>2, <1>3

\* Group b becomes one of k blocks and one of the rest.
Splits(s, r, b, k) ==
    /\ s.free[b] /\ s.span[b] <= BlocksPerChunk /\ k \in 1..s.span[b] - 1
    /\ OnlySpans(s, r)
    /\ r.span[b] = k /\ r.span[b + k - 1] = k
    /\ r.span[b + k] = s.span[b] - k /\ r.span[b + s.span[b] - 1] = s.span[b] - k
    /\ \A x \in Blocks : x < b \/ b + s.span[b] <= x => r.span[x] = s.span[x]

IsSplit(s, r, out, b, c) ==
    /\ Sound(r, out \cup {c}) /\ c \in Blocks /\ c \notin Heads(s, out) /\ s.free[c]
    /\ \A g \in Heads(s, out) \ {b} : r.span[g] = s.span[g]

LEMMA SplitGroup ==
    ASSUME NEW s, NEW out, Sound(s, out), NEW b \in out, NEW r, NEW k, Splits(s, r, b, k)
    PROVE  IsSplit(s, r, out, b, b + k)
<1> DEFINE size == s.span[b]
           c == b + k
           hi == EndOf(s, b)
<1>0. /\ s.free[b] /\ s.span[b] <= BlocksPerChunk /\ k \in 1..s.span[b] - 1
      /\ OnlySpans(s, r)
      /\ r.span[b] = k /\ r.span[b + k - 1] = k
      /\ r.span[b + k] = s.span[b] - k /\ r.span[b + s.span[b] - 1] = s.span[b] - k
      /\ \A x \in Blocks : x < b \/ b + s.span[b] <= x => r.span[x] = s.span[x]
  BY DEF Splits
<1>1. s \in StateType /\ r \in StateType /\ b \in Heads(s, out) /\ IsGroup(s, b)
  BY <1>0, SoundFacts DEF OnlySpans
<1>2. /\ b \in Nat /\ b \in Blocks /\ size \in Nat \ {0} /\ hi \in Nat /\ b + size <= hi
      /\ BlocksPerChunk \in Nat /\ k \in Nat \ {0} /\ k < size
  BY <1>0, <1>1, GroupFacts, Sizes
<1>3. \A x \in Int : b <= x /\ x < b + size => x \in Blocks /\ ChunkOf(x) = ChunkOf(b)
  BY <1>0, <1>1, <1>2, GroupBlocks
<1>4. b + size <= ChunkEnd(ChunkOf(b))
  BY <1>0, <1>1, <1>2, GroupBlocks
<1>5. c \in Blocks /\ c \in Int /\ ChunkOf(c) = ChunkOf(b)
  BY <1>0, <1>2, <1>3
<1> HIDE DEF hi
<1>6. Changed(s, r, b, hi)
  <2>1. ASSUME NEW x \in Blocks, x < b \/ hi <= x PROVE r.span[x] = s.span[x]
    <3>1. x < b \/ b + size <= x
      BY <1>2, <2>1, BlockPlace
    <3> QED
      BY <1>0, <3>1
  <2>2. \A d \in s.constructed : d \in Blocks /\ s.free[d] \in BOOLEAN
    BY <1>0, <1>1, StateFields
  <2> QED
    BY <1>0, <2>1, <2>2 DEF Changed, OnlySpans
<1>7. EndOf(r, b) = c
  <2>1. r.span[b] < BlocksPerChunk
    BY <1>0, <1>2
  <2> QED
    BY <1>0, <1>2, <2>1 DEF EndOf
<1>8. EndOf(r, c) = b + size
  <2>1. r.span[c] < BlocksPerChunk /\ r.span[c] = size - k
    BY <1>0, <1>2
  <2> QED
    BY <1>0, <1>2, <2>1 DEF EndOf
<1>9. IsGroup(r, b) /\ IsGroup(r, c)
  <2>1. ChunkEnd(ChunkOf(b)) \in Int
    BY <1>0, <1>2, BlockPlace, ChunkEnds
  <2>2. IsSmall(r, b)
    BY <1>0, <1>2, <1>4, <2>1 DEF IsSmall
  <2>3. IsSmall(r, c)
    BY <1>0, <1>2, <1>4, <1>5, <2>1 DEF IsSmall
  <2>4. DescriptorsOf(ChunkOf(b)) \subseteq r.constructed
    BY <1>0, <1>1 DEF IsGroup, IsTagged, OnlySpans
  <2>5. IsTagged(r, b)
    BY <1>0, <2>4 DEF IsTagged
  <2>6. c + r.span[c] - 1 = b + size - 1
    BY <1>0, <1>2
  <2>7. IsTagged(r, c)
    BY <1>0, <1>5, <2>4, <2>6 DEF IsTagged
  <2> QED
    BY <1>0, <1>2, <1>5, <2>2, <2>3, <2>5, <2>7 DEF IsGroup
<1>10. c \notin Heads(s, out)
  <2> SUFFICES ASSUME c \in Heads(s, out) PROVE FALSE
    OBVIOUS
  <2>1. b <= c /\ c < EndOf(s, b)
    BY <1>0, <1>2 DEF hi
  <2>2. c = b
    BY <1>0, <1>1, <2>1, Apart
  <2> QED
    BY <1>0, <1>2, <2>2
<1>11. \A g \in Heads(s, out) \ {b} : EndOf(s, g) <= b \/ hi <= g
  <2> SUFFICES ASSUME NEW g \in Heads(s, out), g # b PROVE EndOf(s, g) <= b \/ hi <= g
    OBVIOUS
  <2>1. g \in Nat /\ (g < b => EndOf(s, g) <= b) /\ (b < g => EndOf(s, b) <= g)
    BY <1>0, <1>1, Apart
  <2> QED
    BY <1>0, <1>2, <2>1 DEF hi
<1>12. MemoryCounted(r) /\ Owned(r) = Owned(s)
  BY <1>0, SameMemory DEF OnlySpans
<1>13. \A x \in Blocks : b <= x /\ x < hi => x < b + size
  BY <1>0, <1>1, GroupMemory DEF hi
<1>14. \A x \in Blocks : b <= x /\ x < hi => ChunkOf(x) \in Owned(s)
  BY <1>0, <1>1 DEF Sound, ChunksCovered, hi
<1>15. \A x \in Blocks : b <= x /\ x < hi => \E h \in {b, c} : h <= x /\ x < EndOf(r, h)
  BY <1>0, <1>2, <1>5, <1>7, <1>8, <1>13, BlockPlace
<1>16. r.free[b]
  BY <1>0 DEF OnlySpans
<1>17. \A h \in {b, c} : IsGroup(r, h) /\ b <= h /\ EndOf(r, h) <= hi
  BY <1>0, <1>2, <1>5, <1>7, <1>8, <1>9
<1>18. \A g, h \in {b, c} : g < h => EndOf(r, g) <= h
  BY <1>0, <1>2, <1>5, <1>7
<1>19. \A x \in Blocks : \A g \in {b} : g <= x /\ x < EndOf(s, g) => b <= x /\ x < hi
  BY <1>0 DEF hi
<1>20. \A x \in Blocks : ChunkOf(x) \in Owned(r) <=> ChunkOf(x) \in Owned(s) \/ (b <= x /\ x < hi)
  BY <1>0, <1>12, <1>14
<1>21. {b} \in SUBSET out /\ \A g \in {b} : r.free[g]
  BY <1>0, <1>16
<1> HIDE DEF c, size
<1> DEFINE Old == {b}
           New == {b, c}
<1>25. b \in Int /\ hi \in Int
  BY <1>0, <1>2
<1>24. Regroups(s, r, out, Old, New, b, hi)
  BY <1>6, <1>11, <1>12, <1>15, <1>17, <1>18, <1>19, <1>20, <1>21, <1>25 DEF Regroups
<1>22. /\ Sound(r, (out \ {b}) \cup {b, c})
       /\ \A g \in Heads(s, out) \ {b} : r.span[g] = s.span[g]
  <2>1. Regrouped(s, r, out, Old, New)
    BY <1>24, Regroup
  <2> QED
    BY <2>1 DEF Regrouped
<1>23. (out \ {b}) \cup {b, c} = out \cup {c}
  OBVIOUS
<1>26. s.free[c]
  <2>1. c \in DescriptorsOf(ChunkOf(c))
    BY <1>5, BlockPlace, ChunkEnds DEF DescriptorsOf
  <2>2. c \in s.constructed
    BY <1>1, <1>5, <2>1 DEF IsGroup, IsTagged
  <2> QED
    BY <1>10, <2>2 DEF Sound, FreeMatch, Heads
<1> QED
  BY <1>0, <1>5, <1>10, <1>22, <1>23, <1>26 DEF c, IsSplit

\* A group and the one after it in the chunk become one.
Joins(s, r, b, c) ==
    /\ s.free[b] /\ s.free[c] /\ c = b + s.span[b] /\ c < ChunkEnd(ChunkOf(b))
    /\ s.span[b] < BlocksPerChunk /\ s.span[c] < BlocksPerChunk
    /\ r = SetupGroup(s, b, s.span[b] + s.span[c])

Joined(s, r, out, b, c) ==
    /\ Sound(r, out \ {c}) /\ OnlySpans(s, r) /\ r.span[b] = s.span[b] + s.span[c]
    /\ s.span[b] + s.span[c] <= BlocksPerChunk /\ b # c
    /\ \A g \in Heads(s, out) \ {b, c} : r.span[g] = s.span[g]

LEMMA JoinGroups ==
    ASSUME NEW s, NEW out, Sound(s, out), NEW b \in out, NEW c \in out, NEW r,
           Joins(s, r, b, c)
    PROVE  Joined(s, r, out, b, c)
<1> DEFINE size == s.span[b] + s.span[c]
           hi == EndOf(r, b)
<1>0. /\ s.free[b] /\ s.free[c] /\ c = b + s.span[b] /\ c < ChunkEnd(ChunkOf(b))
      /\ s.span[b] < BlocksPerChunk /\ s.span[c] < BlocksPerChunk
      /\ r = SetupGroup(s, b, s.span[b] + s.span[c])
  BY DEF Joins
<1>1. /\ s \in StateType /\ b \in Heads(s, out) /\ c \in Heads(s, out)
      /\ IsGroup(s, b) /\ IsGroup(s, c)
  BY <1>0, SoundFacts
<1>2. /\ b \in Nat /\ b \in Blocks /\ c \in Nat /\ c \in Blocks
      /\ s.span[b] \in Nat \ {0} /\ s.span[c] \in Nat \ {0}
      /\ EndOf(s, b) = c /\ EndOf(s, c) = c + s.span[c] /\ EndOf(s, c) <= ChunkEnd(ChunkOf(c))
      /\ BlocksPerChunk \in Nat
  BY <1>0, <1>1, GroupFacts, Sizes
<1>3. /\ ChunkOf(b) \in 0..MaxChunks - 1 /\ ChunkBegin(ChunkOf(b)) <= b
  BY <1>0, <1>2, BlockPlace
<1>4. /\ ChunkBegin(ChunkOf(b)) \in Int /\ ChunkEnd(ChunkOf(b)) \in Int
      /\ ChunkEnd(ChunkOf(b)) = ChunkBegin(ChunkOf(b)) + BlocksPerChunk
      /\ ChunkEnd(ChunkOf(b)) + Gap = ChunkBegin(ChunkOf(b) + 1) /\ Gap \in Nat
  BY <1>0, <1>3, ChunkEnds, Sizes
<1>5. ChunkOf(c) = ChunkOf(b)
  BY <1>0, <1>2, <1>3, <1>4, BlockOfChunk
<1>6. b + size <= ChunkEnd(ChunkOf(b)) /\ size <= BlocksPerChunk /\ size \in Nat \ {0}
  BY <1>0, <1>2, <1>3, <1>4, <1>5
<1>7. \A x \in Int : b <= x /\ x < b + size => x \in Blocks /\ ChunkOf(x) = ChunkOf(b)
  BY <1>0, <1>2, <1>3, <1>4, <1>6, BlockOfChunk
<1>8. size \in 1..MemoryBlocks
  BY <1>0, <1>2, <1>6, ChunkFits
<1>9. b + size - 1 \in Blocks /\ b + size - 1 \in Nat
  BY <1>0, <1>2, <1>6, <1>7
<1> HIDE DEF size
<1>10. r = SetupGroup(s, b, size)
  BY <1>0 DEF size
<1>11. /\ OnlySpans(s, r) /\ r.span[b] = size /\ r.span[b + size - 1] = size
       /\ \A x \in Blocks : x # b /\ x # b + size - 1 => r.span[x] = s.span[x]
  BY <1>0, <1>1, <1>2, <1>6, <1>8, <1>9, <1>10, SetupFacts DEF OnlySpans
<1>12. size < BlocksPerChunk => hi = b + size
  BY <1>0, <1>2, <1>6, <1>11 DEF EndOf
<1>13. size = BlocksPerChunk =>
         /\ hi = b + size + Gap /\ b = ChunkBegin(ChunkOf(b)) /\ IsLarge(r, b)
  <2> SUFFICES ASSUME size = BlocksPerChunk
               PROVE  hi = b + size + Gap /\ b = ChunkBegin(ChunkOf(b)) /\ IsLarge(r, b)
    OBVIOUS
  <2>1. b = ChunkBegin(ChunkOf(b))
    BY <1>0, <1>2, <1>3, <1>4, <1>6
  <2>2. hi = b + size + Gap
    BY <1>0, <1>2, <1>6, <1>11 DEF EndOf
  <2>3. BlocksForChunks(1) = BlocksPerChunk
    <3>1. (1 - 1) * ChunkBlocks = 0
      BY <1>0, Sizes
    <3> QED
      BY <1>0, <1>2, <3>1 DEF BlocksForChunks
  <2>4. 1 \in 1..MaxChunks - ChunkOf(b)
    BY <1>0, <1>3, Sizes
  <2> QED
    BY <1>0, <1>11, <2>1, <2>2, <2>3, <2>4 DEF IsLarge
<1>14. hi \in Nat /\ b + size <= hi
  BY <1>0, <1>2, <1>4, <1>6, <1>12, <1>13
<1> HIDE DEF hi
<1>15. IsGroup(r, b)
  <2>1. IsTagged(r, b)
    BY <1>0, <1>1, <1>11 DEF IsGroup, IsTagged, OnlySpans
  <2>2. size < BlocksPerChunk => IsSmall(r, b)
    BY <1>0, <1>2, <1>6, <1>11 DEF IsSmall
  <2> QED
    BY <1>0, <1>2, <1>6, <1>13, <2>1, <2>2 DEF IsGroup
<1>16. \A g \in Heads(s, out) \ {b, c} : EndOf(s, g) <= b \/ hi <= g
  <2> SUFFICES ASSUME NEW g \in Heads(s, out), g # b, g # c, ~(EndOf(s, g) <= b), ~(hi <= g)
               PROVE  FALSE
    OBVIOUS
  <2>0. g \in Blocks
    BY <1>0, SoundFacts
  <2>9. (g < b => EndOf(s, g) <= b) /\ (b < g => EndOf(s, b) <= g)
    BY <1>0, <1>1, Apart
  <2>10. c < g => EndOf(s, c) <= g
    <3>1. GroupsApart(s, out)
      BY <1>0 DEF Sound
    <3> QED
      BY <1>0, <1>1, <3>1 DEF GroupsApart
  <2>1. /\ g \in Nat /\ EndOf(s, g) \in Nat
        /\ (g < b => EndOf(s, g) <= b) /\ (b < g => EndOf(s, b) <= g)
        /\ (c < g => EndOf(s, c) <= g) /\ g \in Blocks
    BY <1>0, <1>1, <2>0, <2>9, <2>10, Apart
  <2>2. b + size <= g /\ g < hi
    BY <1>0, <1>2, <1>14, <2>1 DEF size
  <2>3. size = BlocksPerChunk
    BY <1>0, <1>2, <1>6, <1>12, <2>1, <2>2
  <2>4. /\ hi = ChunkBegin(ChunkOf(b) + 1) /\ ChunkEnd(ChunkOf(b)) <= g
        /\ ChunkBegin(ChunkOf(b) + 1) = ChunkBegin(ChunkOf(b)) + ChunkBlocks
        /\ ChunkBegin(ChunkOf(b)) <= g
    BY <1>0, <1>2, <1>3, <1>4, <1>13, <2>1, <2>2, <2>3, ChunkEnds
  <2>5. g < ChunkBegin(ChunkOf(b)) + ChunkBlocks
    BY <1>0, <2>2, <2>4
  <2>6. ChunkOf(g) = ChunkOf(b)
    BY <1>0, <1>3, <2>1, <2>4, <2>5, ChunkIs
  <2>7. g < ChunkEnd(ChunkOf(b))
    BY <1>0, <2>1, <2>6, BlockPlace
  <2> QED
    BY <1>0, <1>4, <2>1, <2>4, <2>7
<1>17. Changed(s, r, b, hi)
  <2>1. \A x \in Blocks : x < b \/ hi <= x => r.span[x] = s.span[x]
    BY <1>0, <1>2, <1>6, <1>9, <1>11, <1>14, BlockPlace
  <2>2. \A d \in s.constructed : d \in Blocks /\ s.free[d] \in BOOLEAN
    BY <1>0, <1>1, StateFields
  <2> QED
    BY <1>0, <1>11, <2>1, <2>2 DEF Changed, OnlySpans
<1>18. MemoryCounted(r) /\ Owned(r) = Owned(s)
  BY <1>0, <1>11, SameMemory DEF OnlySpans
<1>19. \A x \in Blocks : \A g \in {b, c} : g <= x /\ x < EndOf(s, g) => b <= x /\ x < hi
  BY <1>0, <1>2, <1>14, BlockPlace DEF size
<1>20. \A x \in Blocks : b <= x /\ x < hi => ChunkOf(x) \in Owned(s)
  <2> SUFFICES ASSUME NEW x \in Blocks, b <= x, x < hi PROVE ChunkOf(x) \in Owned(s)
    OBVIOUS
  <2>1. x < b + size
    <3>1. r \in StateType /\ r.span[b] <= BlocksPerChunk
      BY <1>0, <1>6, <1>11 DEF OnlySpans
    <3> QED
      BY <1>0, <1>11, <1>15, <3>1, GroupMemory DEF hi
  <2>3. x \in Nat /\ b + size = c + s.span[c]
    BY <1>0, <1>2, BlockPlace DEF size
  <2>2. (b <= x /\ x < EndOf(s, b)) \/ (c <= x /\ x < EndOf(s, c))
    BY <1>0, <1>2, <2>1, <2>3
  <2> QED
    BY <1>0, <1>1, <2>2 DEF Sound, ChunksCovered
<1>21. {b, c} \in SUBSET out /\ \A g \in {b, c} : r.free[g]
  BY <1>0, <1>11 DEF OnlySpans
<1>22. \A h \in {b} : IsGroup(r, h) /\ b <= h /\ EndOf(r, h) <= hi
  BY <1>0, <1>2, <1>14, <1>15 DEF hi
<1>23. \A x \in Blocks : b <= x /\ x < hi => \E h \in {b} : h <= x /\ x < EndOf(r, h)
  BY <1>0 DEF hi
<1>24. \A x \in Blocks : ChunkOf(x) \in Owned(r) <=> ChunkOf(x) \in Owned(s) \/ (b <= x /\ x < hi)
  BY <1>0, <1>18, <1>20
<1>25. \A g, h \in {b} : g < h => EndOf(r, g) <= h
  BY <1>0, <1>2
<1>26. b \in Int /\ hi \in Int
  BY <1>0, <1>2, <1>14
<1> DEFINE Old == {b, c}
           New == {b}
<1>29. Regroups(s, r, out, Old, New, b, hi)
  BY <1>16, <1>17, <1>18, <1>19, <1>21, <1>22, <1>23, <1>24, <1>25, <1>26 DEF Regroups
<1>27. /\ Sound(r, (out \ {b, c}) \cup {b})
       /\ \A g \in Heads(s, out) \ {b, c} : r.span[g] = s.span[g]
  <2>1. Regrouped(s, r, out, Old, New)
    BY <1>29, Regroup
  <2> QED
    BY <2>1 DEF Regrouped
<1>28. (out \ {b, c}) \cup {b} = out \ {c} /\ b # c
  BY <1>0, <1>2
<1> QED
  BY <1>0, <1>6, <1>11, <1>27, <1>28 DEF size, Joined

LEMMA ChunkOrder ==
    ASSUME NEW x \in Nat, NEW c \in Int
    PROVE  /\ ChunkBegin(c) <= x <=> c <= ChunkOf(x)
           /\ x < ChunkBegin(c) <=> ChunkOf(x) < c
<1> DEFINE d == ChunkOf(x)
<1>1. d \in Int /\ ChunkBegin(d) <= x /\ x < ChunkBegin(d) + ChunkBlocks
  BY ChunkOfFacts
<1> HIDE DEF d
<1>2. ChunkBegin(c) \in Int /\ ChunkBegin(d) \in Int /\ ChunkBlocks \in Nat
  BY <1>1, ChunkBegins, Sizes
<1>3. d < c => ChunkBegin(d) + ChunkBlocks <= ChunkBegin(c)
  BY <1>1, ChunkBegins
<1>4. c < d => ChunkBegin(c) + ChunkBlocks <= ChunkBegin(d)
  BY <1>1, ChunkBegins
<1>5. c = d => ChunkBegin(c) = ChunkBegin(d)
  OBVIOUS
<1>6. ChunkBegin(c) <= x <=> c <= d
  BY <1>1, <1>2, <1>3, <1>4, <1>5
<1>7. x < ChunkBegin(c) <=> d < c
  BY <1>1, <1>2, <1>3, <1>4, <1>5
<1> QED
  BY <1>6, <1>7 DEF d

\* A span of m whole chunks that begin with c.
LEMMA ChunkSpan ==
    ASSUME NEW c \in 0..MaxChunks - 1, NEW m \in 1..MaxChunks - c
    PROVE  /\ ChunkBegin(c) \in Blocks /\ ChunkOf(ChunkBegin(c)) = c /\ ChunkBegin(c) \in Nat
           /\ BlocksForChunks(m) \in 1..MemoryBlocks /\ BlocksPerChunk <= BlocksForChunks(m)
           /\ BlocksForChunks(m) <= BlocksPerChunk => ChunkBegin(c) + BlocksForChunks(m) - 1 \in Blocks
           /\ ChunkBegin(c) + BlocksForChunks(m) + Gap = ChunkBegin(c + m)
           /\ ChunkBegin(c + m) \in Nat
<1>1. /\ c \in Nat /\ c \in Int /\ m \in Nat /\ 1 <= m /\ c + m <= MaxChunks /\ MaxChunks \in Nat
      /\ c + m \in Nat
  BY Sizes
<1>2. /\ BlocksForChunks(m) \in Nat /\ BlocksPerChunk <= BlocksForChunks(m)
      /\ ChunkBegin(c) + BlocksForChunks(m) + Gap = ChunkBegin(c + m)
  BY <1>1, SpansOfChunks
<1>3. /\ ChunkBegin(c) \in Nat /\ ChunkBegin(c + m) \in Nat /\ MemoryBlocks \in Nat
      /\ ChunkBegin(MaxChunks) = MemoryBlocks
  BY <1>1, ChunkBegins
<1>4. ChunkBegin(c + m) <= MemoryBlocks
  <2>1. CASE c + m = MaxChunks
    BY <1>3, <2>1
  <2>2. CASE c + m < MaxChunks
    <3>1. ChunkBegin(c + m) + ChunkBlocks <= ChunkBegin(MaxChunks)
      BY <1>1, <2>2, ChunkBegins
    <3> QED
      BY <1>3, <3>1, Sizes
  <2> QED
    BY <1>1, <2>1, <2>2
<1>5. /\ BlocksPerChunk \in Nat /\ 2 <= BlocksPerChunk /\ Gap \in Nat
      /\ ChunkEnd(c) = ChunkBegin(c) + BlocksPerChunk
  BY <1>1, Sizes, ChunkEnds
<1>6. BlocksForChunks(m) \in 1..MemoryBlocks
  BY <1>2, <1>3, <1>4, <1>5
<1>7. ChunkBegin(c) <= ChunkBegin(c) /\ ChunkBegin(c) < ChunkEnd(c)
  BY <1>3, <1>5
<1>8. ChunkBegin(c) \in Blocks /\ ChunkOf(ChunkBegin(c)) = c
  BY <1>3, <1>7, BlockOfChunk
<1>9. ASSUME BlocksForChunks(m) <= BlocksPerChunk
      PROVE  ChunkBegin(c) + BlocksForChunks(m) - 1 \in Blocks
  <2> DEFINE x == ChunkBegin(c) + BlocksForChunks(m) - 1
  <2>1. ChunkBegin(c) <= x /\ x < ChunkEnd(c) /\ x \in Int
    BY <1>2, <1>3, <1>5, <1>9
  <2> HIDE DEF x
  <2>2. x \in Blocks
    BY <2>1, BlockOfChunk
  <2> QED
    BY <2>2 DEF x
<1> QED
  BY <1>2, <1>3, <1>6, <1>8, <1>9

\* The descriptors of chunk c are as new.
Inits(s, t, c) ==
    /\ t \in StateType
    /\ t.span = [x \in Blocks |-> IF ChunkOf(x) = c THEN 0 ELSE s.span[x]]
    /\ t.free = [x \in Blocks |-> s.free[x] \/ ChunkOf(x) = c]
    /\ t.constructed = s.constructed \cup DescriptorsOf(c)
    /\ t.lists = s.lists /\ t.chunks = s.chunks /\ t.allocations = s.allocations
    /\ t.blocksAllocated = s.blocksAllocated /\ t.chunksAllocated = s.chunksAllocated
    /\ \A x \in Blocks : /\ ChunkOf(x) # c => t.span[x] = s.span[x] /\ t.free[x] = s.free[x]
                         /\ ChunkOf(x) = c => t.free[x]
    /\ DescriptorsOf(c) \subseteq {x \in Blocks : ChunkOf(x) = c}

LEMMA InitFacts ==
    ASSUME NEW s \in StateType, NEW c \in 0..MaxChunks - 1, NEW t, t = InitChunkBlocks(s, c)
    PROVE  Inits(s, t, c)
<1>2. /\ s.span \in [Blocks -> 0..MemoryBlocks] /\ s.free \in [Blocks -> BOOLEAN]
      /\ s.constructed \subseteq Blocks
  BY StateFields
<1>3. DescriptorsOf(c) \subseteq {x \in Blocks : ChunkOf(x) = c}
  <2> SUFFICES ASSUME NEW x \in DescriptorsOf(c) PROVE x \in Blocks /\ ChunkOf(x) = c
    OBVIOUS
  <2>1. ChunkBegin(c) \in Int /\ ChunkEnd(c) \in Int
    BY ChunkEnds
  <2>2. x \in Int /\ ChunkBegin(c) <= x /\ x < ChunkEnd(c)
    BY <2>1 DEF DescriptorsOf
  <2> QED
    BY <2>2, BlockOfChunk
<1>5. t = [s EXCEPT !.span = [x \in Blocks |-> IF ChunkOf(x) = c THEN 0 ELSE @[x]],
                    !.free = [x \in Blocks |-> @[x] \/ ChunkOf(x) = c],
                    !.constructed = @ \cup DescriptorsOf(c)]
  BY DEF InitChunkBlocks
<1> DEFINE sp == [x \in Blocks |-> IF ChunkOf(x) = c THEN 0 ELSE s.span[x]]
           fr == [x \in Blocks |-> s.free[x] \/ ChunkOf(x) = c]
<1>6. sp \in [Blocks -> 0..MemoryBlocks] /\ fr \in [Blocks -> BOOLEAN]
  <2>1. 0 \in 0..MemoryBlocks
    BY ChunkFits
  <2> QED
    BY <1>2, <2>1
<1>7. /\ t = [span |-> sp, free |-> fr, constructed |-> s.constructed \cup DescriptorsOf(c),
              lists |-> s.lists, chunks |-> s.chunks, allocations |-> s.allocations,
              blocksAllocated |-> s.blocksAllocated, chunksAllocated |-> s.chunksAllocated]
  BY <1>5 DEF StateType
<1>8. /\ \A x \in Blocks : /\ ChunkOf(x) # c => sp[x] = s.span[x] /\ fr[x] = s.free[x]
                           /\ ChunkOf(x) = c => fr[x]
  <2> SUFFICES ASSUME NEW x \in Blocks
               PROVE  /\ ChunkOf(x) # c => sp[x] = s.span[x] /\ fr[x] = s.free[x]
                      /\ ChunkOf(x) = c => fr[x]
    OBVIOUS
  <2>1. s.free[x] \in BOOLEAN
    BY <1>2
  <2>2. sp[x] = IF ChunkOf(x) = c THEN 0 ELSE s.span[x]
    OBVIOUS
  <2>3. fr[x] = (s.free[x] \/ ChunkOf(x) = c)
    OBVIOUS
  <2> HIDE DEF sp, fr
  <2> QED
    BY <2>1, <2>2, <2>3
<1> HIDE DEF sp, fr
<1>9. t \in StateType
  <2>1. s.constructed \cup DescriptorsOf(c) \subseteq Blocks
    BY <1>2, <1>3
  <2> QED
    BY <1>6, <1>7, <2>1, StateFields DEF StateType
<1>10. /\ t.span = sp /\ t.free = fr /\ t.constructed = s.constructed \cup DescriptorsOf(c)
       /\ t.lists = s.lists /\ t.chunks = s.chunks /\ t.allocations = s.allocations
       /\ t.blocksAllocated = s.blocksAllocated /\ t.chunksAllocated = s.chunksAllocated
  BY <1>7
<1>11. \A x \in Blocks : /\ ChunkOf(x) # c => t.span[x] = s.span[x] /\ t.free[x] = s.free[x]
                         /\ ChunkOf(x) = c => t.free[x]
  BY <1>8, <1>10
<1> QED
  BY <1>3, <1>9, <1>10, <1>11 DEF sp, fr, Inits

LEMMA NewGroupFacts ==
    ASSUME NEW s \in StateType, NEW c \in 0..MaxChunks - 1, NEW m \in 1..MaxChunks - c,
           NEW r, r = NewGroup(s, c, m).state
    PROVE  /\ r \in StateType /\ r.lists = s.lists /\ r.chunks = s.chunks
           /\ r.allocations = s.allocations
           /\ r.blocksAllocated = s.blocksAllocated /\ r.chunksAllocated = s.chunksAllocated
           /\ r.constructed = s.constructed \cup DescriptorsOf(c)
           /\ \A x \in Blocks : /\ ChunkOf(x) # c => r.span[x] = s.span[x] /\ r.free[x] = s.free[x]
                                /\ ChunkOf(x) = c => r.free[x]
           /\ DescriptorsOf(c) \subseteq {x \in Blocks : ChunkOf(x) = c}
           /\ IsGroup(r, ChunkBegin(c)) /\ r.span[ChunkBegin(c)] = BlocksForChunks(m)
           /\ EndOf(r, ChunkBegin(c)) = ChunkBegin(c + m)
<1> DEFINE b == ChunkBegin(c)
           n == BlocksForChunks(m)
           t == InitChunkBlocks(s, c)
<1>1. /\ b \in Blocks /\ ChunkOf(b) = c /\ b \in Nat /\ n \in 1..MemoryBlocks
      /\ BlocksPerChunk <= n /\ (n <= BlocksPerChunk => b + n - 1 \in Blocks)
      /\ b + n + Gap = ChunkBegin(c + m) /\ ChunkBegin(c + m) \in Nat
  BY ChunkSpan
<1>2. /\ t \in StateType /\ t.constructed = s.constructed \cup DescriptorsOf(c)
      /\ t.lists = s.lists /\ t.chunks = s.chunks /\ t.allocations = s.allocations
      /\ t.blocksAllocated = s.blocksAllocated /\ t.chunksAllocated = s.chunksAllocated
      /\ \A x \in Blocks : /\ ChunkOf(x) # c => t.span[x] = s.span[x] /\ t.free[x] = s.free[x]
                           /\ ChunkOf(x) = c => t.free[x]
      /\ DescriptorsOf(c) \subseteq {x \in Blocks : ChunkOf(x) = c}
  <2>1. t = InitChunkBlocks(s, c)
    OBVIOUS
  <2> HIDE DEF b, n, t
  <2>2. Inits(s, t, c)
    BY <2>1, InitFacts
  <2> QED
    BY <2>2 DEF Inits
<1>4. r = SetupGroup(t, b, n)
  BY DEF NewGroup
<1> HIDE DEF b, n, t
<1>11. /\ OnlySpans(t, r) /\ r.span[b] = n /\ (n <= BlocksPerChunk => r.span[b + n - 1] = n)
       /\ \A x \in Blocks : x # b /\ (n <= BlocksPerChunk => x # b + n - 1) =>
                              r.span[x] = t.span[x]
  BY <1>1, <1>4, <1>2, SetupFacts DEF OnlySpans
<1>12. \A x \in Blocks : ChunkOf(x) # c => r.span[x] = s.span[x]
  <2> SUFFICES ASSUME NEW x \in Blocks, ChunkOf(x) # c PROVE r.span[x] = s.span[x]
    OBVIOUS
  <2>1. x # b
    BY <1>1
  <2>2. n <= BlocksPerChunk => x # b + n - 1
    <3> SUFFICES ASSUME n <= BlocksPerChunk PROVE ChunkOf(b + n - 1) = c
      OBVIOUS
    <3>1. b \in Int /\ b <= b + n - 1 /\ b + n - 1 < b + BlocksPerChunk /\ b + n - 1 \in Int
      BY <1>1, Sizes
    <3>2. ChunkEnd(c) = b + BlocksPerChunk
      BY ChunkEnds DEF b
    <3> DEFINE y == b + n - 1
    <3>3. ChunkBegin(c) <= y /\ y < ChunkEnd(c) /\ y \in Int
      BY <3>1, <3>2 DEF b
    <3> HIDE DEF y
    <3>4. ChunkOf(y) = c
      BY <3>3, BlockOfChunk
    <3> QED
      BY <3>4 DEF y
  <2> QED
    BY <1>2, <1>11, <2>1, <2>2
<1>13. IsLarge(r, b)
  BY <1>1, <1>11 DEF IsLarge, b, n
<1>14. IsTagged(r, b)
  BY <1>1, <1>2, <1>11 DEF IsTagged, OnlySpans
<1>15. EndOf(r, b) = ChunkBegin(c + m)
  <2>1. ~(r.span[b] < BlocksPerChunk)
    BY <1>1, <1>11, Sizes
  <2> QED
    BY <1>1, <1>11, <2>1 DEF EndOf
<1>16. IsGroup(r, b)
  BY <1>1, <1>13, <1>14 DEF IsGroup
<1>17. /\ r \in StateType /\ r.lists = s.lists /\ r.chunks = s.chunks
       /\ r.allocations = s.allocations
       /\ r.blocksAllocated = s.blocksAllocated /\ r.chunksAllocated = s.chunksAllocated
       /\ r.constructed = s.constructed \cup DescriptorsOf(c) /\ r.free = t.free
  BY <1>2, <1>11 DEF OnlySpans
<1> QED
  BY <1>2, <1>11, <1>12, <1>15, <1>16, <1>17 DEF b, n

\* A group of m chunks that begin with base is made of new memory.
AddsMemory(s, r, base, m) ==
    /\ m \in Nat \ {0} /\ base \in 0..MaxChunks - m
    /\ \A a \in ToSet(s.allocations) : base + m <= a[1] \/ a[1] + a[2] <= base
    /\ r = NewGroup([s EXCEPT !.allocations = <<<<base, m>>>> \o @,
                              !.chunksAllocated = @ + m], base, m).state

LEMMA NewMemory ==
    ASSUME NEW s, NEW out, Sound(s, out), NEW r, NEW base, NEW m, AddsMemory(s, r, base, m)
    PROVE  /\ Regrouped(s, r, out, {}, {ChunkBegin(base)})
           /\ ChunkBegin(base) \in Blocks /\ ChunkBegin(base) \notin Heads(s, out)
           /\ r.span[ChunkBegin(base)] = BlocksForChunks(m) /\ r.free[ChunkBegin(base)]
           /\ r.lists = s.lists /\ r.chunks = s.chunks /\ r.blocksAllocated = s.blocksAllocated
<1> DEFINE t == [s EXCEPT !.allocations = <<<<base, m>>>> \o @, !.chunksAllocated = @ + m]
           b == ChunkBegin(base)
           hi == ChunkBegin(base + m)
           New == {b}
<1>1. /\ m \in Nat \ {0} /\ base \in 0..MaxChunks - m
      /\ \A a \in ToSet(s.allocations) : base + m <= a[1] \/ a[1] + a[2] <= base
      /\ r = NewGroup(t, base, m).state
  BY DEF AddsMemory
<1>2. /\ base \in 0..MaxChunks - 1 /\ m \in 1..MaxChunks - base /\ base \in Nat /\ m \in Nat
      /\ base \in 0..MaxChunks /\ m \in 0..MaxChunks /\ base + m <= MaxChunks
  BY <1>1, Sizes
<1>3. s \in StateType /\ MemoryCounted(s)
  BY SoundFacts DEF Sound
<1>4. /\ t.span = s.span /\ t.free = s.free /\ t.constructed = s.constructed
      /\ t.lists = s.lists /\ t.chunks = s.chunks /\ t.blocksAllocated = s.blocksAllocated
      /\ t.allocations = <<<<base, m>>>> \o s.allocations
      /\ t.chunksAllocated = s.chunksAllocated + m
  BY <1>3 DEF StateType
<1>5. /\ t.allocations \in Seq((0..MaxChunks) \X (0..MaxChunks))
      /\ ToSet(t.allocations) = ToSet(s.allocations) \cup {<<base, m>>}
  <2>1. <<base, m>> \in (0..MaxChunks) \X (0..MaxChunks)
    BY <1>2
  <2>2. s.allocations \in Seq((0..MaxChunks) \X (0..MaxChunks))
    BY <1>3, StateFields
  <2> QED
    BY <1>4, <2>1, <2>2, PushFrontFacts
<1>6. t \in StateType
  <2>1. t.chunksAllocated \in Int
    BY <1>2, <1>3, <1>4, StateFields
  <2>2. t = [span |-> s.span, free |-> s.free, constructed |-> s.constructed,
             lists |-> s.lists, chunks |-> s.chunks, allocations |-> t.allocations,
             blocksAllocated |-> s.blocksAllocated, chunksAllocated |-> t.chunksAllocated]
    <3> DEFINE al == <<<<base, m>>>> \o s.allocations
               ch == s.chunksAllocated + m
    <3>1. t = [s EXCEPT !.allocations = al, !.chunksAllocated = ch]
      OBVIOUS
    <3>2. t.allocations = al /\ t.chunksAllocated = ch
      BY <1>4
    <3> HIDE DEF t, al, ch
    <3>3. t = [span |-> s.span, free |-> s.free, constructed |-> s.constructed,
               lists |-> s.lists, chunks |-> s.chunks, allocations |-> al,
               blocksAllocated |-> s.blocksAllocated, chunksAllocated |-> ch]
      BY <1>3, <3>1 DEF StateType
    <3> QED
      BY <3>2, <3>3
  <2> HIDE DEF t
  <2> QED
    BY <1>3, <1>5, <2>1, <2>2, StateFields DEF StateType
<1> HIDE DEF t
<1>7. /\ r \in StateType /\ r.lists = s.lists /\ r.chunks = s.chunks
      /\ r.allocations = t.allocations /\ r.blocksAllocated = s.blocksAllocated
      /\ r.chunksAllocated = s.chunksAllocated + m
      /\ r.constructed = s.constructed \cup DescriptorsOf(base)
      /\ \A x \in Blocks : /\ ChunkOf(x) # base => r.span[x] = s.span[x] /\ r.free[x] = s.free[x]
                           /\ ChunkOf(x) = base => r.free[x]
      /\ DescriptorsOf(base) \subseteq {x \in Blocks : ChunkOf(x) = base}
      /\ IsGroup(r, b) /\ r.span[b] = BlocksForChunks(m)
      /\ EndOf(r, b) = hi
  <2>1. /\ r \in StateType /\ r.lists = t.lists /\ r.chunks = t.chunks
        /\ r.allocations = t.allocations
        /\ r.blocksAllocated = t.blocksAllocated /\ r.chunksAllocated = t.chunksAllocated
        /\ r.constructed = t.constructed \cup DescriptorsOf(base)
        /\ \A x \in Blocks : /\ ChunkOf(x) # base => r.span[x] = t.span[x] /\ r.free[x] = t.free[x]
                             /\ ChunkOf(x) = base => r.free[x]
        /\ DescriptorsOf(base) \subseteq {x \in Blocks : ChunkOf(x) = base}
        /\ IsGroup(r, b) /\ r.span[b] = BlocksForChunks(m)
        /\ EndOf(r, b) = hi
    BY <1>1, <1>2, <1>6, NewGroupFacts
  <2> HIDE DEF b, hi
  <2> QED
    BY <1>4, <2>1
<1>8. /\ b \in Blocks /\ ChunkOf(b) = base /\ b \in Nat /\ hi \in Nat
  BY <1>2, ChunkSpan
<1>9. Owned(r) = Owned(s) \cup (base..base + m - 1)
  <2>1. <<base, m>>[1] = base /\ <<base, m>>[2] = m
    OBVIOUS
  <2>2. ToSet(r.allocations) = ToSet(s.allocations) \cup {<<base, m>>}
    BY <1>5, <1>7
  <2>3. Owned(r) = UNION {a[1]..a[1] + a[2] - 1 : a \in ToSet(s.allocations) \cup {<<base, m>>}}
    BY <2>2 DEF Owned
  <2> QED
    BY <2>1, <2>3 DEF Owned
<1>10. Owned(s) \cap (base..base + m - 1) = {}
  <2> SUFFICES ASSUME NEW a \in ToSet(s.allocations), NEW x \in a[1]..a[1] + a[2] - 1,
                      x \in base..base + m - 1
               PROVE  FALSE
    BY DEF Owned
  <2>1. a[1] \in Nat /\ a[2] \in Nat
    <3>1. s.allocations \in Seq((0..MaxChunks) \X (0..MaxChunks))
      BY <1>3, StateFields
    <3>2. a \in (0..MaxChunks) \X (0..MaxChunks)
      BY <3>1 DEF ToSet
    <3> QED
      BY <3>2, Sizes
  <2> QED
    BY <1>1, <1>2, <2>1
<1>11. MemoryCounted(r)
  <2>1. Owned(s) \subseteq 0..MaxChunks - 1 /\ s.chunksAllocated = Cardinality(Owned(s))
    BY <1>3 DEF MemoryCounted
  <2>2. /\ base..base + m - 1 \subseteq 0..MaxChunks - 1
        /\ IsFiniteSet(base..base + m - 1) /\ Cardinality(base..base + m - 1) = m
    <3> DEFINE last == base + m - 1
    <3>1. base \in Int /\ last \in Int /\ ~(base > last) /\ last - base + 1 = m
      BY <1>1, <1>2
    <3> HIDE DEF last
    <3>2. /\ IsFiniteSet(base..last)
          /\ Cardinality(base..last) = IF base > last THEN 0 ELSE last - base + 1
      BY <3>1, FS_Interval
    <3>4. Cardinality(base..last) = m
      BY <3>1, <3>2
    <3>5. base..base + m - 1 \subseteq 0..MaxChunks - 1
      BY <1>1, <1>2, Sizes
    <3> QED
      BY <3>2, <3>4, <3>5 DEF last
  <2>3. IsFiniteSet(Owned(s))
    <3>1. IsFiniteSet(0..MaxChunks - 1)
      BY <1>2, Sizes, FS_Interval
    <3> QED
      BY <2>1, <3>1, FS_Subset
  <2>4. Cardinality(Owned(r)) = Cardinality(Owned(s)) + m - Cardinality({})
    <3> DEFINE A == Owned(s)
               B == base..base + m - 1
    <3>1. IsFiniteSet(A) /\ IsFiniteSet(B) /\ A \cap B = {} /\ Cardinality(B) = m /\ Owned(r) = A \cup B
      BY <1>9, <1>10, <2>2, <2>3
    <3> HIDE DEF A, B
    <3>2. Cardinality(A \cup B) = Cardinality(A) + Cardinality(B) - Cardinality(A \cap B)
      BY <3>1, FS_Union
    <3> QED
      BY <3>1, <3>2 DEF A
  <2>5. Cardinality({}) = 0 /\ Cardinality(Owned(s)) \in Nat
    BY <2>3, FS_EmptySet, FS_CardinalityType
  <2>6. Cardinality(Owned(r)) = r.chunksAllocated
    BY <1>2, <1>7, <2>1, <2>4, <2>5
  <2> QED
    BY <1>9, <2>1, <2>2, <2>6 DEF MemoryCounted
<1>12. \A x \in Blocks : b <= x /\ x < hi <=> ChunkOf(x) \in base..base + m - 1
  <2> SUFFICES ASSUME NEW x \in Blocks
               PROVE  b <= x /\ x < hi <=> ChunkOf(x) \in base..base + m - 1
    OBVIOUS
  <2>1. x \in Nat /\ ChunkOf(x) \in Int /\ base + m \in Int /\ base \in Int
    BY <1>2, BlockPlace
  <2>2. /\ ChunkBegin(base) <= x <=> base <= ChunkOf(x)
        /\ x < ChunkBegin(base + m) <=> ChunkOf(x) < base + m
    BY <2>1, ChunkOrder
  <2> QED
    BY <1>2, <2>1, <2>2
<1>13. \A g \in Heads(s, out) : ChunkOf(g) \in Owned(s)
  <2> SUFFICES ASSUME NEW g \in Heads(s, out) PROVE ChunkOf(g) \in Owned(s)
    OBVIOUS
  <2>1. g \in Blocks /\ g <= g /\ g < EndOf(s, g)
    BY Apart, SoundFacts
  <2> QED
    BY <2>1 DEF Sound, ChunksCovered
<1> HIDE DEF b, hi
<1>14. \A g \in Heads(s, out) : EndOf(s, g) <= b \/ hi <= g
  <2> SUFFICES ASSUME NEW g \in Heads(s, out), ~(EndOf(s, g) <= b), ~(hi <= g)
               PROVE  FALSE
    OBVIOUS
  <2>1. g \in Nat /\ EndOf(s, g) \in Nat /\ g \in Blocks
    BY Apart, SoundFacts
  <2>2. CASE b <= g
    <3>1. ChunkOf(g) \in base..base + m - 1
      BY <1>8, <1>12, <2>1, <2>2
    <3> QED
      BY <1>10, <1>13, <3>1
  <2>3. CASE g < b
    <3>1. g <= b /\ b < EndOf(s, g)
      BY <1>8, <2>1, <2>3
    <3>2. ChunkOf(b) \in Owned(s)
      BY <1>8, <3>1 DEF Sound, ChunksCovered
    <3>3. base \in base..base + m - 1
      BY <1>1, <1>2
    <3> QED
      BY <1>8, <1>10, <3>2, <3>3
  <2> QED
    BY <1>8, <2>1, <2>2, <2>3
<1>15. b \notin Heads(s, out)
  <2>1. b <= b /\ b < hi
    <3>1. base \in base..base + m - 1
      BY <1>1, <1>2
    <3> QED
      BY <1>8, <1>12, <3>1
  <2>2. b \in Heads(s, out) => b < EndOf(s, b) /\ EndOf(s, b) \in Nat
    BY Apart
  <2> QED
    BY <1>8, <1>14, <2>1, <2>2
<1>16. Changed(s, r, b, hi)
  <2>1. ASSUME NEW x \in Blocks, x < b \/ hi <= x
        PROVE  r.span[x] = s.span[x] /\ r.free[x] = s.free[x]
    <3>1. ~(b <= x /\ x < hi)
      BY <1>8, <2>1, BlockPlace
    <3>2. ChunkOf(x) # base
      BY <1>1, <1>2, <1>12, <3>1
    <3> QED
      BY <1>7, <3>2
  <2>2. ASSUME NEW d \in r.constructed
        PROVE  r.free[d] \/ (d \in s.constructed /\ r.free[d] = s.free[d])
    <3>1. s.constructed \subseteq Blocks
      BY <1>3, StateFields
    <3> QED
      BY <1>7, <2>2, <3>1
  <2> QED
    BY <1>7, <2>1, <2>2 DEF Changed
<1>17. \A h \in New : IsGroup(r, h) /\ b <= h /\ EndOf(r, h) <= hi
  BY <1>7, <1>8
<1>18. \A g, h \in New : g < h => EndOf(r, g) <= h
  BY <1>8
<1>19. \A x \in Blocks : b <= x /\ x < hi => \E h \in New : h <= x /\ x < EndOf(r, h)
  BY <1>7
<1>20. \A x \in Blocks :
         ChunkOf(x) \in Owned(r) <=> ChunkOf(x) \in Owned(s) \/ (b <= x /\ x < hi)
  BY <1>9, <1>12
<1>21. b \in Int /\ hi \in Int
  BY <1>8
<1> DEFINE Old == {}
<1>22. Regroups(s, r, out, Old, New, b, hi)
  BY <1>11, <1>14, <1>16, <1>17, <1>18, <1>19, <1>20, <1>21 DEF Regroups
<1>23. Regrouped(s, r, out, Old, New)
  <2> HIDE DEF Old, New
  <2> QED
    BY <1>22, Regroup
<1>24. r.free[b]
  BY <1>7, <1>8
<1> QED
  BY <1>7, <1>8, <1>15, <1>23, <1>24 DEF b

\* Group b of whole chunks keeps its first chunks, and the others become a group.
CutsChunks(s, r, b, left, m) ==
    /\ s.free[b] /\ BlocksPerChunk <= s.span[b]
    /\ left \in Nat \ {0} /\ m \in Nat \ {0} /\ left + m = ChunksForBlocks(s.span[b])
    /\ r = NewGroup(SetupGroup(s, b, BlocksForChunks(left)), ChunkOf(b) + left, m).state

ChunksCut(s, r, out, b, c, left, m) ==
    /\ Regrouped(s, r, out, {b}, {b, c})
    /\ c \in Blocks /\ c \notin Heads(s, out) /\ EndOf(r, b) = c
    /\ r.span[b] = BlocksForChunks(left) /\ r.free[b]
    /\ r.span[c] = BlocksForChunks(m) /\ r.free[c]
    /\ r.lists = s.lists /\ r.chunks = s.chunks /\ r.blocksAllocated = s.blocksAllocated

LEMMA CutChunks ==
    ASSUME NEW s, NEW out, Sound(s, out), NEW b \in out, NEW r, NEW left, NEW m,
           CutsChunks(s, r, b, left, m), NEW c, c = ChunkBegin(ChunkOf(b) + left)
    PROVE  ChunksCut(s, r, out, b, c, left, m)
<1> DEFINE d == ChunkOf(b)
           e == ChunkOf(b) + left
           n == BlocksForChunks(left)
           t == SetupGroup(s, b, n)
           hi == EndOf(s, b)
           New == {b, c}
<1>1. /\ s.free[b] /\ BlocksPerChunk <= s.span[b]
      /\ left \in Nat \ {0} /\ m \in Nat \ {0} /\ left + m = ChunksForBlocks(s.span[b])
      /\ r = NewGroup(t, e, m).state
  BY DEF CutsChunks
<1>2. s \in StateType /\ b \in Heads(s, out) /\ IsGroup(s, b) /\ b \in Blocks
  BY SoundFacts
<1>3. d \in 0..MaxChunks - 1 /\ d \in Nat /\ MaxChunks \in Nat
  BY <1>2, BlockPlace, Sizes
<1>4. PICK k \in 1..MaxChunks - d : /\ s.span[b] = BlocksForChunks(k)
                                    /\ EndOf(s, b) = ChunkBegin(d + k)
  BY <1>1, <1>2, GroupFacts
<1>5. k = left + m
  BY <1>1, <1>3, <1>4, SpansOfChunks
<1>6. /\ left \in 1..MaxChunks - d /\ e \in 0..MaxChunks - 1 /\ m \in 1..MaxChunks - e
      /\ e \in Nat /\ e # d /\ d < e /\ e + m = d + k /\ k \in Nat
  BY <1>1, <1>3, <1>4, <1>5
<1>7. b = ChunkBegin(d) /\ b \in Nat
  BY <1>1, <1>2, GroupFacts
<1>8. /\ n \in 1..MemoryBlocks /\ BlocksPerChunk <= n
      /\ n <= BlocksPerChunk => b + n - 1 \in Blocks
      /\ b + n + Gap = ChunkBegin(e) /\ ChunkBegin(e) \in Nat
  BY <1>3, <1>6, <1>7, ChunkSpan
<1>9. c = ChunkBegin(e) /\ c \in Blocks /\ ChunkOf(c) = e /\ hi = ChunkBegin(e + m) /\ hi \in Nat
  BY <1>4, <1>6, ChunkSpan
<1>10. c < hi /\ b < c
  <2>1. ChunkBegin(e) + ChunkBlocks <= ChunkBegin(e + m)
    BY <1>1, <1>6, ChunkBegins
  <2> QED
    BY <1>7, <1>8, <1>9, <2>1, Sizes
<1> HIDE DEF d, e, n, t, hi
<1>11. /\ OnlySpans(s, t) /\ t.span[b] = n /\ (n <= BlocksPerChunk => t.span[b + n - 1] = n)
       /\ \A x \in Blocks : x # b /\ (n <= BlocksPerChunk => x # b + n - 1) =>
                              t.span[x] = s.span[x]
  BY <1>2, <1>8, SetupFacts DEF OnlySpans, t
<1>12. /\ r \in StateType /\ r.lists = s.lists /\ r.chunks = s.chunks
       /\ r.allocations = s.allocations
       /\ r.blocksAllocated = s.blocksAllocated /\ r.chunksAllocated = s.chunksAllocated
       /\ r.constructed = s.constructed \cup DescriptorsOf(e)
       /\ \A x \in Blocks : /\ ChunkOf(x) # e => r.span[x] = t.span[x] /\ r.free[x] = s.free[x]
                            /\ ChunkOf(x) = e => r.free[x]
       /\ DescriptorsOf(e) \subseteq {x \in Blocks : ChunkOf(x) = e}
       /\ IsGroup(r, c) /\ r.span[c] = BlocksForChunks(m) /\ EndOf(r, c) = hi
  <2>1. /\ r \in StateType /\ r.lists = t.lists /\ r.chunks = t.chunks
        /\ r.allocations = t.allocations
        /\ r.blocksAllocated = t.blocksAllocated /\ r.chunksAllocated = t.chunksAllocated
        /\ r.constructed = t.constructed \cup DescriptorsOf(e)
        /\ \A x \in Blocks : /\ ChunkOf(x) # e => r.span[x] = t.span[x] /\ r.free[x] = t.free[x]
                             /\ ChunkOf(x) = e => r.free[x]
        /\ DescriptorsOf(e) \subseteq {x \in Blocks : ChunkOf(x) = e}
        /\ IsGroup(r, ChunkBegin(e)) /\ r.span[ChunkBegin(e)] = BlocksForChunks(m)
        /\ EndOf(r, ChunkBegin(e)) = ChunkBegin(e + m)
    <3>1. t \in StateType
      BY <1>11 DEF OnlySpans
    <3> QED
      BY <1>1, <1>6, <3>1, NewGroupFacts
  <2> QED
    BY <1>9, <1>11, <2>1 DEF OnlySpans
<1>13. r.span[b] = n /\ r.free[b] /\ (n <= BlocksPerChunk => r.span[b + n - 1] = n)
  <2>1. ChunkOf(b) # e
    BY <1>6 DEF d
  <2>2. ASSUME n <= BlocksPerChunk PROVE ChunkOf(b + n - 1) # e
    <3> DEFINE y == b + n - 1
    <3>1. y \in Nat /\ y < ChunkBegin(e)
      BY <1>7, <1>8, Sizes
    <3> HIDE DEF y
    <3>2. ChunkOf(y) < e
      BY <1>6, <3>1, ChunkOrder
    <3>3. ChunkOf(y) \in Int
      BY <3>1, ChunkOfFacts
    <3> QED
      BY <1>6, <3>2, <3>3 DEF y
  <2>3. r.span[b] = n /\ r.free[b]
    BY <1>1, <1>2, <1>11, <1>12, <2>1
  <2>4. n <= BlocksPerChunk => r.span[b + n - 1] = n
    BY <1>8, <1>11, <1>12, <2>2
  <2> QED
    BY <2>3, <2>4
<1>14. IsGroup(r, b) /\ EndOf(r, b) = c
  <2>1. IsLarge(r, b)
    BY <1>6, <1>7, <1>13 DEF IsLarge, d, n
  <2>2. IsTagged(r, b)
    BY <1>2, <1>12, <1>13 DEF IsTagged, IsGroup
  <2>3. ~(r.span[b] < BlocksPerChunk)
    BY <1>8, <1>13, Sizes
  <2>4. EndOf(r, b) = c
    BY <1>8, <1>9, <1>13, <2>3 DEF EndOf
  <2> QED
    BY <1>2, <2>1, <2>2, <2>4 DEF IsGroup
<1>15. c \notin Heads(s, out)
  <2> SUFFICES ASSUME c \in Heads(s, out) PROVE FALSE
    OBVIOUS
  <2>1. b <= c /\ c < EndOf(s, b)
    BY <1>7, <1>9, <1>10 DEF hi
  <2>2. c = b
    BY <1>2, <2>1, Apart
  <2> QED
    BY <1>7, <1>10, <2>2
<1>16. \A g \in Heads(s, out) \ {b} : EndOf(s, g) <= b \/ hi <= g
  <2> SUFFICES ASSUME NEW g \in Heads(s, out), g # b PROVE EndOf(s, g) <= b \/ hi <= g
    OBVIOUS
  <2>1. g \in Nat /\ (g < b => EndOf(s, g) <= b) /\ (b < g => EndOf(s, b) <= g)
    BY <1>2, Apart
  <2> QED
    BY <1>7, <2>1 DEF hi
<1>17. Changed(s, r, b, hi)
  <2>1. ASSUME NEW x \in Blocks, x < b \/ hi <= x
        PROVE  r.span[x] = s.span[x] /\ r.free[x] = s.free[x]
    <3>1. x \in Nat
      BY BlockPlace
    <3>2. ChunkOf(x) # e
      <4>1. /\ ChunkBegin(e) <= x <=> e <= ChunkOf(x)
            /\ x < ChunkBegin(e + m) <=> ChunkOf(x) < e + m
        BY <1>1, <1>6, <3>1, ChunkOrder
      <4>2. x < c \/ ~(x < hi)
        BY <1>7, <1>9, <1>10, <2>1, <3>1
      <4> QED
        BY <1>1, <1>6, <1>9, <4>1, <4>2
    <3>3. x # b /\ (n <= BlocksPerChunk => x # b + n - 1)
      BY <1>7, <1>8, <1>9, <1>10, <2>1, <3>1, Sizes
    <3> QED
      BY <1>11, <1>12, <3>2, <3>3
  <2>2. ASSUME NEW x \in r.constructed
        PROVE  r.free[x] \/ (x \in s.constructed /\ r.free[x] = s.free[x])
    <3>1. s.constructed \subseteq Blocks
      BY <1>2, StateFields
    <3> QED
      BY <1>12, <2>2, <3>1
  <2> QED
    BY <1>12, <2>1, <2>2 DEF Changed
<1>18. MemoryCounted(r) /\ Owned(r) = Owned(s)
  BY <1>12, SameMemory
<1>19. \A x \in Blocks : b <= x /\ x < hi => ChunkOf(x) \in Owned(s)
  BY <1>2 DEF Sound, ChunksCovered, hi
<1>20. \A h \in New : IsGroup(r, h) /\ b <= h /\ EndOf(r, h) <= hi
  BY <1>7, <1>9, <1>10, <1>12, <1>14
<1>21. \A g, h \in New : g < h => EndOf(r, g) <= h
  BY <1>7, <1>9, <1>10, <1>14
<1>22. \A x \in Blocks : b <= x /\ x < hi => \E h \in New : h <= x /\ x < EndOf(r, h)
  BY <1>7, <1>9, <1>12, <1>14, BlockPlace
<1>23. \A x \in Blocks :
         ChunkOf(x) \in Owned(r) <=> ChunkOf(x) \in Owned(s) \/ (b <= x /\ x < hi)
  BY <1>18, <1>19
<1>24. b \in Int /\ hi \in Int
  BY <1>7, <1>9
<1> DEFINE Old == {b}
<1>25. Old \subseteq out /\ \A g \in Old : r.free[g]
  BY <1>13
<1>26. \A x \in Blocks : \A g \in Old : g <= x /\ x < EndOf(s, g) => b <= x /\ x < hi
  BY DEF hi
<1>27. Regroups(s, r, out, Old, New, b, hi)
  BY <1>16, <1>17, <1>18, <1>20, <1>21, <1>22, <1>23, <1>24, <1>25, <1>26 DEF Regroups
<1>28. Regrouped(s, r, out, Old, New)
  <2> HIDE DEF Old, New
  <2> QED
    BY <1>27, Regroup
<1>29. r.free[c]
  BY <1>9, <1>12
<1> QED
  BY <1>9, <1>12, <1>13, <1>14, <1>15, <1>28, <1>29 DEF n, ChunksCut

\* Groups b and c of whole chunks become one.
JoinsChunks(s, r, b, c) ==
    /\ s.free[b] /\ s.free[c] /\ EndOf(s, b) = c
    /\ BlocksPerChunk <= s.span[b] /\ BlocksPerChunk <= s.span[c]
    /\ r = MergeChunkGroups(s, b, c)

ChunksJoined(s, r, out, b, c) ==
    /\ Regrouped(s, r, out, {b, c}, {b}) /\ OnlySpans(s, r) /\ b # c
    /\ BlocksPerChunk <= r.span[b] /\ EndOf(r, b) = EndOf(s, c)

LEMMA JoinChunks ==
    ASSUME NEW s, NEW out, Sound(s, out), NEW b \in out, NEW c \in out, NEW r,
           JoinsChunks(s, r, b, c)
    PROVE  ChunksJoined(s, r, out, b, c)
<1> DEFINE d == ChunkOf(b)
           hi == EndOf(s, c)
           New == {b}
<1>1. /\ s.free[b] /\ s.free[c] /\ EndOf(s, b) = c
      /\ BlocksPerChunk <= s.span[b] /\ BlocksPerChunk <= s.span[c]
      /\ r = MergeChunkGroups(s, b, c)
  BY DEF JoinsChunks
<1>2. /\ s \in StateType /\ b \in Heads(s, out) /\ IsGroup(s, b) /\ b \in Blocks
      /\ c \in Heads(s, out) /\ IsGroup(s, c) /\ c \in Blocks
  BY SoundFacts
<1>3. d \in 0..MaxChunks - 1 /\ d \in Nat /\ MaxChunks \in Nat
  BY <1>2, BlockPlace, Sizes
<1>4. PICK k \in 1..MaxChunks - d : /\ s.span[b] = BlocksForChunks(k)
                                    /\ EndOf(s, b) = ChunkBegin(d + k)
  BY <1>1, <1>2, GroupFacts
<1>5. PICK m \in 1..MaxChunks - ChunkOf(c) : /\ s.span[c] = BlocksForChunks(m)
                                             /\ EndOf(s, c) = ChunkBegin(ChunkOf(c) + m)
  BY <1>1, <1>2, GroupFacts
<1>6. ChunkOf(c) = d + k
  <2>1. ChunkBegin(d + k) <= c /\ c < ChunkBegin(d + k) + ChunkBlocks /\ c \in Int /\ d + k \in Int
    BY <1>1, <1>2, <1>3, <1>4, BlockPlace, Sizes
  <2> HIDE DEF d
  <2> QED
    BY <2>1, ChunkIs
<1>7. /\ k + m \in 1..MaxChunks - d /\ k \in Nat /\ m \in Nat /\ 1 <= k /\ 1 <= m
      /\ (d + k) + m = d + (k + m) /\ k + m \in Nat
  <2>1. ChunkOf(c) \in 0..MaxChunks - 1
    BY <1>2, BlockPlace
  <2> HIDE DEF d
  <2> QED
    BY <1>3, <1>6, <2>1
<1>8. b = ChunkBegin(d) /\ b \in Nat /\ c \in Nat
  BY <1>1, <1>2, GroupFacts
<1> DEFINE n == BlocksForChunks(k + m)
<1>9. /\ n \in 1..MemoryBlocks /\ BlocksPerChunk <= n
      /\ n <= BlocksPerChunk => b + n - 1 \in Blocks
      /\ b + n + Gap = ChunkBegin(d + (k + m)) /\ ChunkBegin(d + (k + m)) \in Nat
  BY <1>3, <1>7, <1>8, ChunkSpan
<1>10. hi = ChunkBegin(d + (k + m)) /\ hi \in Nat
  BY <1>5, <1>6, <1>7, <1>9
<1>11. c < hi /\ b < c
  BY <1>1, <1>2, Apart
<1>12. ChunksForBlocks(s.span[b]) = k /\ ChunksForBlocks(s.span[c]) = m
  BY <1>4, <1>5, <1>7, SpansOfChunks
<1>13. r = SetupGroup(s, b, n)
  BY <1>1, <1>12 DEF MergeChunkGroups
<1> HIDE DEF d, n, hi
<1>14. /\ OnlySpans(s, r) /\ r.span[b] = n /\ (n <= BlocksPerChunk => r.span[b + n - 1] = n)
       /\ \A x \in Blocks : x # b /\ (n <= BlocksPerChunk => x # b + n - 1) =>
                              r.span[x] = s.span[x]
  BY <1>2, <1>9, <1>13, SetupFacts DEF OnlySpans
<1>15. IsGroup(r, b) /\ EndOf(r, b) = hi
  <2>1. IsLarge(r, b)
    BY <1>7, <1>8, <1>14 DEF IsLarge, d, n
  <2>2. IsTagged(r, b)
    BY <1>2, <1>14 DEF IsTagged, IsGroup, OnlySpans
  <2>3. ~(r.span[b] < BlocksPerChunk)
    BY <1>9, <1>14, Sizes
  <2>4. EndOf(r, b) = hi
    BY <1>9, <1>10, <1>14, <2>3 DEF EndOf
  <2> QED
    BY <1>2, <2>1, <2>2, <2>4 DEF IsGroup
<1>16. \A g \in Heads(s, out) \ {b, c} : EndOf(s, g) <= b \/ hi <= g
  <2> SUFFICES ASSUME NEW g \in Heads(s, out), g # b, g # c PROVE EndOf(s, g) <= b \/ hi <= g
    OBVIOUS
  <2>1. g \in Nat /\ (g < b => EndOf(s, g) <= b) /\ (b < g => EndOf(s, b) <= g)
    BY <1>2, Apart
  <2>2. c < g => EndOf(s, c) <= g
    BY <1>2, Apart
  <2> QED
    BY <1>1, <1>8, <2>1, <2>2 DEF hi
<1>17. Changed(s, r, b, hi)
  <2>1. ASSUME NEW x \in Blocks, x < b \/ hi <= x
        PROVE  r.span[x] = s.span[x]
    <3>1. x # b /\ (n <= BlocksPerChunk => x # b + n - 1)
      BY <1>8, <1>9, <1>10, <1>11, <2>1, BlockPlace, Sizes
    <3> QED
      BY <1>14, <3>1
  <2>2. \A x \in s.constructed : x \in Blocks /\ s.free[x] \in BOOLEAN
    BY <1>2, StateFields
  <2> QED
    BY <1>14, <2>1, <2>2 DEF Changed, OnlySpans
<1>18. MemoryCounted(r) /\ Owned(r) = Owned(s)
  BY <1>14, SameMemory DEF OnlySpans
<1>19. \A x \in Blocks : b <= x /\ x < hi => ChunkOf(x) \in Owned(s)
  <2> SUFFICES ASSUME NEW x \in Blocks, b <= x, x < hi PROVE ChunkOf(x) \in Owned(s)
    OBVIOUS
  <2>1. x < c \/ c <= x
    BY <1>8, BlockPlace
  <2> QED
    BY <1>1, <1>2, <2>1 DEF Sound, ChunksCovered, hi
<1>20. \A h \in New : IsGroup(r, h) /\ b <= h /\ EndOf(r, h) <= hi
  BY <1>8, <1>10, <1>15
<1>21. \A g, h \in New : g < h => EndOf(r, g) <= h
  BY <1>8
<1>22. \A x \in Blocks : b <= x /\ x < hi => \E h \in New : h <= x /\ x < EndOf(r, h)
  BY <1>15
<1>23. \A x \in Blocks :
         ChunkOf(x) \in Owned(r) <=> ChunkOf(x) \in Owned(s) \/ (b <= x /\ x < hi)
  BY <1>18, <1>19
<1>24. b \in Int /\ hi \in Int
  BY <1>8, <1>10
<1> DEFINE Old == {b, c}
<1>25. Old \subseteq out /\ \A g \in Old : r.free[g]
  BY <1>1, <1>14 DEF OnlySpans
<1>26. \A x \in Blocks : \A g \in Old : g <= x /\ x < EndOf(s, g) => b <= x /\ x < hi
  BY <1>1, <1>8, <1>10, <1>11, BlockPlace DEF hi
<1>27. Regroups(s, r, out, Old, New, b, hi)
  BY <1>16, <1>17, <1>18, <1>20, <1>21, <1>22, <1>23, <1>24, <1>25, <1>26 DEF Regroups
<1>28. Regrouped(s, r, out, Old, New)
  <2> HIDE DEF Old, New
  <2> QED
    BY <1>27, Regroup
<1>29. b # c
  BY <1>8, <1>11
<1> QED
  BY <1>9, <1>14, <1>15, <1>28, <1>29 DEF hi, ChunksJoined

-----------------------------------------------------------------------------
(* Groups go in and out of lists *)

\* The list a span belongs in.
LEMMA LogUnique ==
    ASSUME NEW x \in Nat, NEW y \in Nat, NEW n \in Nat,
           PowerOfTwo[x] <= n, n < PowerOfTwo[x + 1], PowerOfTwo[y] <= n, n < PowerOfTwo[y + 1]
    PROVE  x = y
<1>1. /\ PowerOfTwo[x] \in Nat /\ PowerOfTwo[y] \in Nat
      /\ PowerOfTwo[x + 1] \in Nat /\ PowerOfTwo[y + 1] \in Nat /\ x + 1 \in Nat /\ y + 1 \in Nat
  BY PowerOfTwoFacts
<1>2. ASSUME NEW u \in Nat, NEW v \in Nat, u < v PROVE PowerOfTwo[u + 1] <= PowerOfTwo[v]
  <2>1. PowerOfTwo[u + 1] \in Nat /\ PowerOfTwo[v] \in Nat /\ u + 1 \in Nat
    BY PowerOfTwoFacts
  <2>2. CASE u + 1 = v
    BY <2>1, <2>2
  <2>3. CASE u + 1 < v
    BY <2>1, <2>3, PowersGrow
  <2> QED
    BY <1>2, <2>2, <2>3
<1>3. ~(x < y)
  BY <1>1, <1>2
<1>4. ~(y < x)
  BY <1>1, <1>2
<1> QED
  BY <1>3, <1>4

LEMMA FreeListIndexIs ==
    ASSUME NEW n \in 1..BlocksPerChunk - 1
    PROVE  /\ FreeListIndex(n) \in Indices
           /\ PowerOfTwo[FreeListIndex(n)] <= n /\ n < PowerOfTwo[FreeListIndex(n) + 1]
           /\ \A x \in Indices : PowerOfTwo[x] <= n /\ n < PowerOfTwo[x + 1] => FreeListIndex(n) = x
<1>1. n \in Nat /\ 1 <= n /\ FreeListCount \in Nat /\ n < PowerOfTwo[FreeListCount]
  BY Sizes
<1>2. \E x \in Indices : PowerOfTwo[x] <= n /\ n < PowerOfTwo[x + 1]
  BY <1>1, LogExists DEF Indices
<1>3. /\ FreeListIndex(n) \in Indices
      /\ PowerOfTwo[FreeListIndex(n)] <= n /\ n < PowerOfTwo[FreeListIndex(n) + 1]
  BY <1>2 DEF FreeListIndex
<1>4. Indices \subseteq Nat
  BY <1>1 DEF Indices
<1>5. ASSUME NEW x \in Indices, PowerOfTwo[x] <= n, n < PowerOfTwo[x + 1]
      PROVE  FreeListIndex(n) = x
  BY <1>1, <1>3, <1>4, <1>5, LogUnique
<1> QED
  BY <1>3, <1>5

\* Only lists differ.
OnlyLists(s, r) ==
    /\ r \in StateType
    /\ r.span = s.span /\ r.free = s.free /\ r.constructed = s.constructed
    /\ r.allocations = s.allocations
    /\ r.blocksAllocated = s.blocksAllocated /\ r.chunksAllocated = s.chunksAllocated

LEMMA Relist ==
    ASSUME NEW s, NEW r, NEW out, NEW out2, Sound(s, out), OnlyLists(s, r),
           Heads(r, out2) = Heads(s, out), ListsMatch(r, out2), FreeMatch(r, out2)
    PROVE  Sound(r, out2)
<1>1. /\ r \in StateType
      /\ r.span = s.span /\ r.free = s.free /\ r.constructed = s.constructed
      /\ r.allocations = s.allocations /\ r.chunksAllocated = s.chunksAllocated
  BY DEF OnlyLists
<1>2. \A g : (IsGroup(r, g) <=> IsGroup(s, g)) /\ EndOf(r, g) = EndOf(s, g)
  BY <1>1 DEF IsGroup, IsSmall, IsLarge, IsTagged, EndOf
<1>3. \A g \in Heads(r, out2) : IsGroup(r, g)
  BY <1>2 DEF Sound
<1>4. GroupsApart(r, out2)
  BY <1>2 DEF Sound, GroupsApart
<1>5. MemoryCounted(r) /\ Owned(r) = Owned(s)
  BY <1>1, SameMemory
<1>6. ChunksCovered(r, out2)
  BY <1>2, <1>5 DEF Sound, ChunksCovered
<1> QED
  BY <1>1, <1>3, <1>4, <1>5, <1>6 DEF Sound

\* Setting up groups reads no lists.
LEMMA SetupAlike ==
    ASSUME NEW s \in StateType, NEW t, OnlyLists(s, t), NEW b \in Blocks, NEW n \in 1..MemoryBlocks,
           n <= BlocksPerChunk => b + n - 1 \in Blocks
    PROVE  /\ OnlyLists(SetupGroup(s, b, n), SetupGroup(t, b, n))
           /\ SetupGroup(s, b, n).lists = s.lists /\ SetupGroup(s, b, n).chunks = s.chunks
           /\ SetupGroup(s, b, n) \in StateType
<1> DEFINE last == IF n > 1 /\ n <= BlocksPerChunk THEN b + n - 1 ELSE b
           u == SetupGroup(s, b, n)
           v == SetupGroup(t, b, n)
<1>1. /\ t \in StateType /\ t.span = s.span /\ t.free = s.free /\ t.constructed = s.constructed
      /\ t.allocations = s.allocations
      /\ t.blocksAllocated = s.blocksAllocated /\ t.chunksAllocated = s.chunksAllocated
  BY DEF OnlyLists
<1>2. u = [s EXCEPT !.span[b] = n, !.span[last] = n] /\ v = [t EXCEPT !.span[b] = n, !.span[last] = n]
  BY DEF SetupGroup
<1>3. /\ u \in StateType /\ u.free = s.free /\ u.constructed = s.constructed /\ u.lists = s.lists
      /\ u.chunks = s.chunks /\ u.allocations = s.allocations
      /\ u.blocksAllocated = s.blocksAllocated /\ u.chunksAllocated = s.chunksAllocated
  BY SetupFacts
<1>4. /\ v \in StateType /\ v.free = t.free /\ v.constructed = t.constructed /\ v.lists = t.lists
      /\ v.chunks = t.chunks /\ v.allocations = t.allocations
      /\ v.blocksAllocated = t.blocksAllocated /\ v.chunksAllocated = t.chunksAllocated
  BY <1>1, SetupFacts
<1> HIDE DEF u, v, last
<1>5. u.span = [s.span EXCEPT ![b] = n, ![last] = n]
  BY <1>2 DEF StateType
<1>6. v.span = [t.span EXCEPT ![b] = n, ![last] = n]
  BY <1>1, <1>2 DEF StateType
<1>7. u.span = v.span
  BY <1>1, <1>5, <1>6
<1> QED
  BY <1>1, <1>3, <1>4, <1>7 DEF OnlyLists, u, v

LEMMA NewGroupAlike ==
    ASSUME NEW s \in StateType, NEW t, OnlyLists(s, t),
           NEW c \in 0..MaxChunks - 1, NEW m \in 1..MaxChunks - c
    PROVE  /\ OnlyLists(NewGroup(s, c, m).state, NewGroup(t, c, m).state)
           /\ NewGroup(s, c, m).state.lists = s.lists
           /\ NewGroup(s, c, m).state.chunks = s.chunks
           /\ NewGroup(s, c, m).block = ChunkBegin(c)
<1> DEFINE u == InitChunkBlocks(s, c)
           v == InitChunkBlocks(t, c)
           b == ChunkBegin(c)
           n == BlocksForChunks(m)
<1>1. /\ t \in StateType /\ t.span = s.span /\ t.free = s.free /\ t.constructed = s.constructed
      /\ t.allocations = s.allocations
      /\ t.blocksAllocated = s.blocksAllocated /\ t.chunksAllocated = s.chunksAllocated
  BY DEF OnlyLists
<1>2. b \in Blocks /\ n \in 1..MemoryBlocks /\ (n <= BlocksPerChunk => b + n - 1 \in Blocks)
  BY ChunkSpan
<1>3. /\ NewGroup(s, c, m).state = SetupGroup(u, b, n) /\ NewGroup(t, c, m).state = SetupGroup(v, b, n)
      /\ NewGroup(s, c, m).block = b
  BY DEF NewGroup
<1> HIDE DEF b, n
<1>4. u = InitChunkBlocks(s, c) /\ v = InitChunkBlocks(t, c)
  OBVIOUS
<1> HIDE DEF u, v
<1>5. Inits(s, u, c)
  BY <1>4, InitFacts
<1>6. Inits(t, v, c)
  BY <1>1, <1>4, InitFacts
<1>7. u.span = [x \in Blocks |-> IF ChunkOf(x) = c THEN 0 ELSE s.span[x]]
      /\ u.free = [x \in Blocks |-> s.free[x] \/ ChunkOf(x) = c]
  BY <1>5 DEF Inits
<1>8. v.span = [x \in Blocks |-> IF ChunkOf(x) = c THEN 0 ELSE t.span[x]]
      /\ v.free = [x \in Blocks |-> t.free[x] \/ ChunkOf(x) = c]
  BY <1>6 DEF Inits
<1>9. v.span = u.span /\ v.free = u.free
  BY <1>1, <1>7, <1>8, Zenon
<1>10. OnlyLists(u, v)
  BY <1>1, <1>5, <1>6, <1>9 DEF OnlyLists, Inits
<1>11. /\ OnlyLists(SetupGroup(u, b, n), SetupGroup(v, b, n))
       /\ SetupGroup(u, b, n).lists = u.lists /\ SetupGroup(u, b, n).chunks = u.chunks
  <2>1. u \in StateType
    BY <1>5 DEF Inits
  <2> QED
    BY <1>2, <1>10, <2>1, SetupAlike
<1> QED
  BY <1>3, <1>5, <1>11 DEF b, Inits

LEMMA FreeInLists ==
    ASSUME NEW s, NEW out, Sound(s, out), NEW b \in Heads(s, out), b \notin out
    PROVE  s.free[b]
<1>1. b \in Blocks /\ DescriptorsOf(ChunkOf(b)) \subseteq s.constructed
  BY SoundFacts DEF IsGroup, IsTagged
<1>2. b \in DescriptorsOf(ChunkOf(b))
  <2>1. /\ ChunkOf(b) \in Int /\ b \in Int
        /\ ChunkBegin(ChunkOf(b)) <= b /\ b < ChunkEnd(ChunkOf(b))
    BY <1>1, BlockPlace
  <2>2. ChunkBegin(ChunkOf(b)) \in Int /\ ChunkEnd(ChunkOf(b)) \in Int
    BY <2>1, ChunkEnds
  <2> QED
    BY <2>1, <2>2 DEF DescriptorsOf
<1> QED
  BY <1>1, <1>2 DEF Sound, FreeMatch

\* b is unlinked from the list with index x.
Takes(s, r, x, b) ==
    /\ x \in Indices /\ b \in ToSet(s.lists[x])
    /\ \E list \in Seq(Blocks) :
         /\ ToSet(list) = ToSet(s.lists[x]) \ {b} /\ IsInjective(list)
         /\ r = [s EXCEPT !.lists[x] = list]

Taken(s, r, out, b) ==
    /\ Sound(r, out \cup {b}) /\ OnlyLists(s, r) /\ r.chunks = s.chunks
    /\ InLists(r) = InLists(s) \ {b}
    /\ b \in InLists(s) /\ b \notin out /\ s.free[b]
    /\ s.span[b] \in 1..BlocksPerChunk - 1

LEMMA TakeFromList ==
    ASSUME NEW s, NEW r, NEW out, NEW x, NEW b, Sound(s, out), Takes(s, r, x, b)
    PROVE  Taken(s, r, out, b)
<1>1. x \in Indices /\ b \in ToSet(s.lists[x])
  BY DEF Takes
<1>2. PICK list \in Seq(Blocks) :
         /\ ToSet(list) = ToSet(s.lists[x]) \ {b} /\ IsInjective(list)
         /\ r = [s EXCEPT !.lists[x] = list]
  BY DEF Takes
<1>3. s \in StateType /\ s.lists \in [Indices -> Seq(Blocks)]
  BY SoundFacts, StateFields
<1>4. r \in StateType
  BY <1>1, <1>2, <1>3 DEF StateType
<1>5. /\ r.span = s.span /\ r.free = s.free /\ r.constructed = s.constructed
      /\ r.allocations = s.allocations /\ r.chunks = s.chunks
      /\ r.blocksAllocated = s.blocksAllocated /\ r.chunksAllocated = s.chunksAllocated
      /\ \A y \in Indices : r.lists[y] = IF y = x THEN list ELSE s.lists[y]
  BY <1>1, <1>2, <1>3 DEF StateType
<1>6. OnlyLists(s, r)
  BY <1>4, <1>5 DEF OnlyLists
<1>7. ListsMatch(s, out)
  BY DEF Sound
<1>8. /\ b \in InLists(s) /\ b \notin out /\ s.span[b] \in 1..BlocksPerChunk - 1
      /\ PowerOfTwo[x] <= s.span[b] /\ s.span[b] < PowerOfTwo[x + 1]
  BY <1>1, <1>7 DEF ListsMatch, InLists
<1>9. s.free[b]
  BY <1>8, SoundFacts, FreeInLists
<1>10. \A y \in Indices : b \in ToSet(s.lists[y]) => y = x
  <2> SUFFICES ASSUME NEW y \in Indices, b \in ToSet(s.lists[y]) PROVE y = x
    OBVIOUS
  <2>1. PowerOfTwo[y] <= s.span[b] /\ s.span[b] < PowerOfTwo[y + 1]
    BY <1>7 DEF ListsMatch
  <2>2. x \in Nat /\ y \in Nat /\ s.span[b] \in Nat
    BY <1>1, <1>8, Sizes DEF Indices
  <2> QED
    BY <1>8, <2>1, <2>2, LogUnique
<1>11. \A y \in Indices : ToSet(r.lists[y]) = ToSet(s.lists[y]) \ {b}
  BY <1>2, <1>5, <1>10
<1>12. InLists(r) = InLists(s) \ {b}
  <2>1. \A c : c \in InLists(r) <=> \E y \in Indices : c \in ToSet(r.lists[y])
    BY DEF InLists
  <2>2. \A c : c \in InLists(s) <=> \E y \in Indices : c \in ToSet(s.lists[y])
    BY DEF InLists
  <2>3. \A c : c \in InLists(r) <=> c \in InLists(s) /\ c # b
    BY <1>11, <2>1, <2>2
  <2> QED
    BY <2>3
<1>13. Heads(r, out \cup {b}) = Heads(s, out)
  BY <1>5, <1>8, <1>12 DEF Heads
<1>14. \A c \in ToSet(s.chunks) : c # b
  BY <1>7, <1>8, Sizes DEF ListsMatch
<1>15. ListsMatch(r, out \cup {b})
  <2>1. ASSUME NEW y \in Indices
        PROVE  /\ IsInjective(r.lists[y])
               /\ \A c \in ToSet(r.lists[y]) :
                    /\ c \notin out \cup {b} /\ r.span[c] \in 1..BlocksPerChunk - 1
                    /\ PowerOfTwo[y] <= r.span[c] /\ r.span[c] < PowerOfTwo[y + 1]
    <3>1. IsInjective(r.lists[y])
      BY <1>2, <1>5, <1>7 DEF ListsMatch
    <3>2. \A c \in ToSet(r.lists[y]) : c \in ToSet(s.lists[y]) /\ c # b
      BY <1>11
    <3> QED
      BY <1>5, <1>7, <3>1, <3>2 DEF ListsMatch
  <2>2. Increasing(r.chunks) /\ \A c \in ToSet(r.chunks) : c \notin out \cup {b} /\ r.span[c] >= BlocksPerChunk
    BY <1>5, <1>7, <1>14 DEF ListsMatch
  <2> QED
    BY <2>1, <2>2 DEF ListsMatch
<1>16. FreeMatch(r, out \cup {b})
  BY <1>5 DEF Sound, FreeMatch
<1>17. Sound(r, out \cup {b})
  BY <1>6, <1>13, <1>15, <1>16, Relist
<1> QED
  BY <1>5, <1>6, <1>8, <1>9, <1>12, <1>17 DEF Taken

Listed(s, r, out, b) ==
    /\ Sound(r, out \ {b}) /\ OnlyLists(s, r) /\ r.chunks = s.chunks
    /\ InLists(r) = InLists(s) \cup {b}

LEMMA PutInList ==
    ASSUME NEW s, NEW r, NEW out, NEW b \in out, Sound(s, out), s.free[b],
           s.span[b] < BlocksPerChunk, r = AddToFreeList(s, b)
    PROVE  Listed(s, r, out, b)
<1> DEFINE x == FreeListIndex(s.span[b])
           list == <<b>> \o s.lists[x]
<1>1. s \in StateType /\ s.lists \in [Indices -> Seq(Blocks)] /\ b \in Blocks /\ IsGroup(s, b)
  BY SoundFacts, StateFields
<1>2. s.span[b] \in 1..BlocksPerChunk - 1
  BY <1>1, GroupFacts, Sizes
<1>3. /\ x \in Indices /\ PowerOfTwo[x] <= s.span[b] /\ s.span[b] < PowerOfTwo[x + 1]
  BY <1>2, FreeListIndexIs
<1>4. ListsMatch(s, out)
  BY DEF Sound
<1>5. b \notin InLists(s) /\ b \notin ToSet(s.chunks)
  BY <1>4 DEF ListsMatch, InLists
<1>6. r = [s EXCEPT !.lists[x] = list]
  BY <1>1, <1>3 DEF AddToFreeList, StateType
<1> HIDE DEF x
<1>7. /\ list \in Seq(Blocks) /\ ToSet(list) = ToSet(s.lists[x]) \cup {b} /\ IsInjective(list)
  <2>1. s.lists[x] \in Seq(Blocks) /\ IsInjective(s.lists[x]) /\ b \notin ToSet(s.lists[x])
    BY <1>1, <1>3, <1>4, <1>5 DEF ListsMatch, InLists
  <2> QED
    BY <1>1, <2>1, PushFrontFacts
<1> HIDE DEF list
<1>8. r \in StateType
  <2>1. list \in Seq(Blocks) /\ s \in StateType /\ x \in Indices
    BY <1>1, <1>3, <1>7
  <2> QED
    BY <1>6, <2>1 DEF StateType
<1>9. /\ r.span = s.span /\ r.free = s.free /\ r.constructed = s.constructed
      /\ r.allocations = s.allocations /\ r.chunks = s.chunks
      /\ r.blocksAllocated = s.blocksAllocated /\ r.chunksAllocated = s.chunksAllocated
      /\ \A y \in Indices : r.lists[y] = IF y = x THEN list ELSE s.lists[y]
  BY <1>1, <1>3, <1>6 DEF StateType
<1>10. OnlyLists(s, r)
  BY <1>8, <1>9 DEF OnlyLists
<1>11. InLists(r) = InLists(s) \cup {b}
  <2>1. \A y \in Indices : ToSet(r.lists[y]) = ToSet(s.lists[y]) \cup (IF y = x THEN {b} ELSE {})
    BY <1>7, <1>9
  <2> QED
    BY <1>3, <2>1 DEF InLists
<1>12. Heads(r, out \ {b}) = Heads(s, out)
  BY <1>9, <1>11 DEF Heads
<1>13. ListsMatch(r, out \ {b})
  <2>1. ASSUME NEW y \in Indices
        PROVE  /\ IsInjective(r.lists[y])
               /\ \A c \in ToSet(r.lists[y]) :
                    /\ c \notin out \ {b} /\ r.span[c] \in 1..BlocksPerChunk - 1
                    /\ PowerOfTwo[y] <= r.span[c] /\ r.span[c] < PowerOfTwo[y + 1]
    <3>1. IsInjective(r.lists[y])
      BY <1>4, <1>7, <1>9 DEF ListsMatch
    <3>2. \A c \in ToSet(r.lists[y]) : c \in ToSet(s.lists[y]) \/ (c = b /\ y = x)
      BY <1>7, <1>9
    <3> QED
      BY <1>2, <1>3, <1>4, <1>9, <3>1, <3>2 DEF ListsMatch
  <2>2. Increasing(r.chunks) /\ \A c \in ToSet(r.chunks) : c \notin out \ {b} /\ r.span[c] >= BlocksPerChunk
    BY <1>4, <1>9 DEF ListsMatch
  <2> QED
    BY <2>1, <2>2 DEF ListsMatch
<1>14. FreeMatch(r, out \ {b})
  BY <1>9 DEF Sound, FreeMatch
<1>15. Sound(r, out \ {b})
  BY <1>10, <1>12, <1>13, <1>14, Relist
<1> QED
  BY <1>9, <1>10, <1>11, <1>15 DEF Listed

\* The list of chunks may be any, but sorted, with or without b.
LEMMA TakeFromChunks ==
    ASSUME NEW s, NEW r, NEW out, NEW b \in ToSet(s.chunks), Sound(s, out), OnlyLists(s, r),
           r.lists = s.lists, Increasing(r.chunks), ToSet(r.chunks) = ToSet(s.chunks) \ {b}
    PROVE  /\ Sound(r, out \cup {b}) /\ s.free[b] /\ b \notin out
           /\ BlocksPerChunk <= s.span[b] /\ s.span[b] \in Nat
<1>1. ListsMatch(s, out)
  BY DEF Sound
<1>2. b \notin out /\ s.span[b] >= BlocksPerChunk
  BY <1>1 DEF ListsMatch
<1>3. s.span[b] \in Nat /\ BlocksPerChunk \in Nat
  BY SoundFacts, GroupFacts, Sizes
<1>4. s.free[b]
  BY <1>2, SoundFacts, FreeInLists
<1>5. r.span = s.span /\ r.free = s.free /\ r.constructed = s.constructed
  BY DEF OnlyLists
<1>6. Heads(r, out \cup {b}) = Heads(s, out)
  BY DEF Heads, InLists
<1>7. ListsMatch(r, out \cup {b})
  <2>1. ASSUME NEW y \in Indices
        PROVE  /\ IsInjective(r.lists[y])
               /\ \A c \in ToSet(r.lists[y]) :
                    /\ c \notin out \cup {b} /\ r.span[c] \in 1..BlocksPerChunk - 1
                    /\ PowerOfTwo[y] <= r.span[c] /\ r.span[c] < PowerOfTwo[y + 1]
    <3>1. \A c \in ToSet(s.lists[y]) : s.span[c] \in 1..BlocksPerChunk - 1
      BY <1>1 DEF ListsMatch
    <3>2. b \notin ToSet(s.lists[y])
      BY <1>2, <1>3, <3>1
    <3> QED
      BY <1>1, <1>5, <3>2 DEF ListsMatch
  <2>2. \A c \in ToSet(r.chunks) : c \notin out \cup {b} /\ r.span[c] >= BlocksPerChunk
    BY <1>1, <1>5 DEF ListsMatch
  <2> QED
    BY <2>1, <2>2 DEF ListsMatch
<1>8. FreeMatch(r, out \cup {b})
  BY <1>5 DEF Sound, FreeMatch
<1>9. Sound(r, out \cup {b})
  BY <1>6, <1>7, <1>8, Relist
<1> QED
  BY <1>2, <1>3, <1>4, <1>9

LEMMA PutInChunks ==
    ASSUME NEW s, NEW r, NEW out, NEW b \in out, Sound(s, out), OnlyLists(s, r), s.free[b],
           BlocksPerChunk <= s.span[b],
           r.lists = s.lists, Increasing(r.chunks), ToSet(r.chunks) = ToSet(s.chunks) \cup {b}
    PROVE  Sound(r, out \ {b})
<1>1. ListsMatch(s, out)
  BY DEF Sound
<1>3. s.span[b] \in Nat /\ BlocksPerChunk \in Nat /\ s.span[b] >= BlocksPerChunk
  BY SoundFacts, GroupFacts, Sizes
<1>5. r.span = s.span /\ r.free = s.free /\ r.constructed = s.constructed
  BY DEF OnlyLists
<1>6. Heads(r, out \ {b}) = Heads(s, out)
  BY DEF Heads, InLists
<1>7. ListsMatch(r, out \ {b})
  <2>1. ASSUME NEW y \in Indices
        PROVE  /\ IsInjective(r.lists[y])
               /\ \A c \in ToSet(r.lists[y]) :
                    /\ c \notin out \ {b} /\ r.span[c] \in 1..BlocksPerChunk - 1
                    /\ PowerOfTwo[y] <= r.span[c] /\ r.span[c] < PowerOfTwo[y + 1]
    BY <1>1, <1>5 DEF ListsMatch
  <2>2. \A c \in ToSet(r.chunks) : c \notin out \ {b} /\ r.span[c] >= BlocksPerChunk
    BY <1>1, <1>3, <1>5 DEF ListsMatch
  <2> QED
    BY <2>1, <2>2 DEF ListsMatch
<1>8. FreeMatch(r, out \ {b})
  BY <1>5 DEF Sound, FreeMatch
<1> QED
  BY <1>6, <1>7, <1>8, Relist

-----------------------------------------------------------------------------
(* Groups go to clients and come back *)

Released(s, r, out, b) ==
    /\ Sound(r, out) /\ r.span = s.span /\ r.lists = s.lists /\ r.chunks = s.chunks
    /\ ~r.free[b] /\ \A g \in Blocks \ {b} : r.free[g] = s.free[g]
    /\ r.blocksAllocated = s.blocksAllocated + s.span[b]

LEMMA ReleaseFacts ==
    ASSUME NEW s, NEW out, NEW b \in out, Sound(s, out), NEW r, r = Release(s, b)
    PROVE  Released(s, r, out, b)
<1> DEFINE gone == {d \in Blocks : ChunkOf(b) < ChunkOf(d) /\ d < b + s.span[b]}
           fr == [s.free EXCEPT ![b] = FALSE]
           con == s.constructed \ gone
           ba == s.blocksAllocated + s.span[b]
<1>1. s \in StateType /\ b \in Heads(s, out) /\ b \in Blocks /\ IsGroup(s, b)
  BY SoundFacts
<1>2. /\ s.span \in [Blocks -> 0..MemoryBlocks] /\ s.free \in [Blocks -> BOOLEAN]
      /\ s.constructed \subseteq Blocks /\ s.blocksAllocated \in Int
  BY <1>1, StateFields
<1>3. r = [s EXCEPT !.free[b] = FALSE, !.blocksAllocated = ba, !.constructed = con]
  BY <1>1 DEF Release, StateType
<1>4. fr \in [Blocks -> BOOLEAN] /\ con \subseteq Blocks /\ ba \in Int
      /\ ~fr[b] /\ \A g \in Blocks \ {b} : fr[g] = s.free[g]
  BY <1>1, <1>2, ChunkFits
<1> HIDE DEF con, ba
<1>5. r = [span |-> s.span, free |-> fr, constructed |-> con,
           lists |-> s.lists, chunks |-> s.chunks, allocations |-> s.allocations,
           blocksAllocated |-> ba, chunksAllocated |-> s.chunksAllocated]
  BY <1>1, <1>3 DEF StateType
<1> HIDE DEF fr
<1>6. /\ r.span = s.span /\ r.free = fr /\ r.constructed = con /\ r.lists = s.lists
      /\ r.chunks = s.chunks /\ r.allocations = s.allocations
      /\ r.blocksAllocated = ba /\ r.chunksAllocated = s.chunksAllocated
  BY <1>5
<1>7. r \in StateType
  BY <1>1, <1>4, <1>5, StateFields DEF StateType
<1>8. ASSUME NEW g \in Heads(s, out), NEW d \in gone PROVE ChunkOf(d) # ChunkOf(g)
  <2> SUFFICES ASSUME ChunkOf(d) = ChunkOf(g) PROVE FALSE
    OBVIOUS
  <2>1. d \in Blocks /\ ChunkOf(b) < ChunkOf(d) /\ d < b + s.span[b] /\ g \in Blocks
    BY SoundFacts
  <2>2. /\ d \in Nat /\ b \in Nat /\ g \in Nat /\ ChunkOf(b) \in Nat /\ ChunkOf(d) \in Nat
        /\ ChunkBegin(ChunkOf(d)) <= d
    BY <1>1, <2>1, BlockPlace
  <2>3. CASE s.span[b] < BlocksPerChunk
    <3>1. d < ChunkEnd(ChunkOf(b)) /\ ChunkEnd(ChunkOf(b)) \in Int
          /\ ChunkEnd(ChunkOf(b)) + Gap = ChunkBegin(ChunkOf(b) + 1)
          /\ ChunkBegin(ChunkOf(b) + 1) \in Int
      <4>1. EndOf(s, b) = b + s.span[b] /\ EndOf(s, b) <= ChunkEnd(ChunkOf(b))
        BY <1>1, <2>3, GroupFacts
      <4>2. s.span[b] \in Nat /\ ChunkOf(b) \in Int /\ ChunkOf(b) + 1 \in Int
        BY <1>1, <1>2, <2>2, ChunkFits
      <4>3. /\ ChunkEnd(ChunkOf(b)) \in Int
            /\ ChunkEnd(ChunkOf(b)) + Gap = ChunkBegin(ChunkOf(b) + 1)
        BY <4>2, ChunkEnds
      <4>4. ChunkBegin(ChunkOf(b) + 1) \in Int
        BY <4>2, ChunkBegins
      <4> QED
        BY <2>1, <2>2, <4>1, <4>2, <4>3, <4>4
    <3>2. d < ChunkBegin(ChunkOf(b) + 1)
      BY <2>2, <3>1, Sizes
    <3>3. ChunkOf(d) < ChunkOf(b) + 1
      BY <2>2, <3>2, ChunkOrder
    <3> QED
      BY <2>1, <2>2, <3>3
  <2>4. CASE BlocksPerChunk <= s.span[b]
    <3>1. PICK m \in 1..MaxChunks - ChunkOf(b) : EndOf(s, b) = ChunkBegin(ChunkOf(b) + m)
      BY <1>1, <2>4, GroupFacts
    <3>2. d < EndOf(s, b) /\ m \in Int
      BY <1>1, <2>1, <2>2, GroupFacts
    <3>3. ChunkOf(d) < ChunkOf(b) + m
      BY <2>2, <3>1, <3>2, ChunkOrder
    <3>4. g < ChunkBegin(ChunkOf(b) + m)
      BY <2>2, <3>2, <3>3, ChunkOrder
    <3>5. ChunkBegin(ChunkOf(b) + 1) <= g
      BY <2>1, <2>2, ChunkOrder
    <3>6. b < ChunkBegin(ChunkOf(b) + 1) /\ ChunkBegin(ChunkOf(b) + 1) \in Int
      <4>1. ChunkOf(b) + 1 \in Int /\ ChunkOf(b) < ChunkOf(b) + 1
        BY <2>2
      <4>2. ChunkBegin(ChunkOf(b) + 1) \in Int
        BY <4>1, ChunkBegins
      <4> QED
        BY <2>2, <4>1, <4>2, ChunkOrder
    <3>7. b <= g /\ g < EndOf(s, b)
      BY <2>2, <3>1, <3>4, <3>5, <3>6
    <3>8. g = b
      BY <1>1, <3>7, Apart
    <3> QED
      BY <2>1, <2>2, <3>8
  <2> QED
    BY <1>1, <1>2, <2>3, <2>4, ChunkFits
<1>9. ASSUME NEW g \in Heads(s, out) PROVE IsGroup(r, g)
  <2>1. IsGroup(s, g) /\ g \in Blocks
    BY SoundFacts
  <2>2. \A d \in DescriptorsOf(ChunkOf(g)) : ChunkOf(d) = ChunkOf(g)
    <3> SUFFICES ASSUME NEW d \in DescriptorsOf(ChunkOf(g)) PROVE ChunkOf(d) = ChunkOf(g)
      OBVIOUS
    <3>1. ChunkOf(g) \in 0..MaxChunks - 1
      BY <2>1, BlockPlace
    <3>2. /\ d \in Int /\ ChunkBegin(ChunkOf(g)) <= d /\ d < ChunkEnd(ChunkOf(g))
      BY <3>1, ChunkEnds DEF DescriptorsOf
    <3> QED
      BY <3>1, <3>2, BlockOfChunk
  <2>3. DescriptorsOf(ChunkOf(g)) \subseteq r.constructed
    BY <1>6, <1>8, <2>1, <2>2 DEF con, IsGroup, IsTagged
  <2> QED
    BY <1>6, <2>1, <2>3 DEF IsGroup, IsTagged, IsSmall, IsLarge
<1>10. Heads(r, out) = Heads(s, out)
  BY <1>6 DEF Heads, InLists
<1>11. MemoryCounted(r) /\ Owned(r) = Owned(s)
  BY <1>6, SameMemory
<1>12. \A g : EndOf(r, g) = EndOf(s, g)
  BY <1>6 DEF EndOf
<1>13. GroupsApart(r, out) /\ ChunksCovered(r, out)
  BY <1>10, <1>11, <1>12 DEF Sound, GroupsApart, ChunksCovered
<1>14. ListsMatch(r, out)
  BY <1>6 DEF Sound, ListsMatch
<1>15. FreeMatch(r, out)
  <2> SUFFICES ASSUME NEW d \in r.constructed PROVE r.free[d] \/ d \in out
    BY DEF FreeMatch
  <2>1. d \in s.constructed
    BY <1>6 DEF con
  <2>2. s.free[d] \/ d \in out
    BY <2>1 DEF Sound, FreeMatch
  <2> QED
    BY <1>2, <1>4, <1>6, <2>1, <2>2
<1>16. Sound(r, out)
  BY <1>7, <1>9, <1>10, <1>11, <1>13, <1>14, <1>15 DEF Sound
<1> QED
  BY <1>4, <1>6, <1>16 DEF ba, Released

Reclaimed(s, r, out, b) ==
    /\ Sound(r, out) /\ r.span = s.span /\ r.lists = s.lists /\ r.chunks = s.chunks
    /\ r.free[b] /\ \A g \in Blocks \ {b} : r.free[g] = s.free[g]
    /\ r.blocksAllocated = s.blocksAllocated - s.span[b]

LEMMA ReclaimFacts ==
    ASSUME NEW s, NEW out, NEW b \in out, Sound(s, out), NEW r, r = Reclaim(s, b)
    PROVE  Reclaimed(s, r, out, b)
<1> DEFINE fr == [s.free EXCEPT ![b] = TRUE]
           ba == s.blocksAllocated - s.span[b]
<1>1. s \in StateType /\ b \in Heads(s, out) /\ b \in Blocks
  BY SoundFacts
<1>2. /\ s.span \in [Blocks -> 0..MemoryBlocks] /\ s.free \in [Blocks -> BOOLEAN]
      /\ s.constructed \subseteq Blocks /\ s.blocksAllocated \in Int
  BY <1>1, StateFields
<1>3. r = [s EXCEPT !.free[b] = TRUE, !.blocksAllocated = ba]
  BY <1>1 DEF Reclaim, StateType
<1>4. fr \in [Blocks -> BOOLEAN] /\ ba \in Int
      /\ fr[b] /\ \A g \in Blocks \ {b} : fr[g] = s.free[g]
  BY <1>1, <1>2, ChunkFits
<1> HIDE DEF ba
<1>5. r = [span |-> s.span, free |-> fr, constructed |-> s.constructed,
           lists |-> s.lists, chunks |-> s.chunks, allocations |-> s.allocations,
           blocksAllocated |-> ba, chunksAllocated |-> s.chunksAllocated]
  BY <1>1, <1>3 DEF StateType
<1> HIDE DEF fr
<1>6. /\ r.span = s.span /\ r.free = fr /\ r.constructed = s.constructed /\ r.lists = s.lists
      /\ r.chunks = s.chunks /\ r.allocations = s.allocations
      /\ r.blocksAllocated = ba /\ r.chunksAllocated = s.chunksAllocated
  BY <1>5
<1>7. r \in StateType
  BY <1>1, <1>4, <1>5, StateFields DEF StateType
<1>9. ASSUME NEW g \in Heads(s, out) PROVE IsGroup(r, g)
  <2>1. IsGroup(s, g)
    BY SoundFacts
  <2> QED
    BY <1>6, <2>1 DEF IsGroup, IsTagged, IsSmall, IsLarge
<1>10. Heads(r, out) = Heads(s, out)
  BY <1>6 DEF Heads, InLists
<1>11. MemoryCounted(r) /\ Owned(r) = Owned(s)
  BY <1>6, SameMemory
<1>12. \A g : EndOf(r, g) = EndOf(s, g)
  BY <1>6 DEF EndOf
<1>13. GroupsApart(r, out) /\ ChunksCovered(r, out)
  BY <1>10, <1>11, <1>12 DEF Sound, GroupsApart, ChunksCovered
<1>14. ListsMatch(r, out)
  BY <1>6 DEF Sound, ListsMatch
<1>15. FreeMatch(r, out)
  <2> SUFFICES ASSUME NEW d \in r.constructed PROVE r.free[d] \/ d \in out
    BY DEF FreeMatch
  <2>1. d \in s.constructed
    BY <1>6
  <2>2. s.free[d] \/ d \in out
    BY <2>1 DEF Sound, FreeMatch
  <2> QED
    BY <1>2, <1>4, <1>6, <2>1, <2>2
<1>16. Sound(r, out)
  BY <1>7, <1>9, <1>10, <1>11, <1>13, <1>14, <1>15 DEF Sound
<1> QED
  BY <1>4, <1>6, <1>16 DEF ba, Reclaimed

-----------------------------------------------------------------------------
(* Allocation *)

LEMMA FirstFacts ==
    ASSUME NEW indices \in SUBSET Nat, indices # {}
    PROVE  First(indices) \in indices /\ \A y \in indices : First(indices) <= y
<1>1. \E x \in indices : \A y \in indices : x <= y
  BY LeastNatural
<1> QED
  BY <1>1 DEF First

LEMMA BestFitFacts ==
    ASSUME NEW s, NEW out, Sound(s, out), NEW m, Fitting(s, m) # {}
    PROVE  /\ BestFit(s, Fitting(s, m)) \in ToSet(s.chunks)
           /\ s.span[BestFit(s, Fitting(s, m))] >= BlocksForChunks(m)
<1> DEFINE T == Fitting(s, m)
           Size(i) == s.span[s.chunks[i]]
<1>1. s \in StateType /\ s.chunks \in Seq(Blocks) /\ s.span \in [Blocks -> 0..MemoryBlocks]
  BY SoundFacts, StateFields
<1>2. T \subseteq DOMAIN s.chunks /\ T \subseteq Nat
  BY <1>1 DEF Fitting
<1>3. \A i \in T : Size(i) \in Nat
  BY <1>1, <1>2, ChunkFits
<1> HIDE DEF T, Size
<1> DEFINE sizes == {Size(i) : i \in T}
<1>4. PICK least \in sizes : \A y \in sizes : least <= y
  <2>1. sizes \subseteq Nat
    BY <1>3
  <2>2. sizes # {}
    BY DEF T
  <2> HIDE DEF sizes
  <2> QED
    BY <2>1, <2>2, LeastNatural
<1> DEFINE smallest == {i \in T : Size(i) = least}
<1>5. PICK i \in smallest : \A j \in smallest : i <= j
  <2>1. smallest \subseteq Nat /\ smallest # {}
    BY <1>2, <1>4
  <2> HIDE DEF smallest
  <2> QED
    BY <2>1, LeastNatural
<1>6. i \in T /\ \A j \in T : Size(i) < Size(j) \/ (Size(i) = Size(j) /\ i <= j)
  <2>1. i \in T /\ Size(i) = least
    BY <1>5
  <2>2. ASSUME NEW j \in T PROVE Size(i) < Size(j) \/ (Size(i) = Size(j) /\ i <= j)
    <3>1. least <= Size(j) /\ Size(j) \in Nat /\ Size(i) \in Nat
      BY <1>3, <1>4, <2>1
    <3>2. Size(j) = least => i <= j
      BY <1>5
    <3> QED
      BY <2>1, <3>1, <3>2
  <2> QED
    BY <2>1, <2>2
<1> DEFINE Q(u) == \A j \in T : \/ s.span[s.chunks[u]] < s.span[s.chunks[j]]
                                \/ s.span[s.chunks[u]] = s.span[s.chunks[j]] /\ u <= j
           best == CHOOSE u \in T : Q(u)
<1>7. best \in T
  <2>1. \E u \in T : Q(u)
    BY <1>6 DEF Size
  <2> HIDE DEF Q
  <2> QED
    BY <2>1
<1>8. BestFit(s, T) = s.chunks[best]
  BY DEF BestFit
<1> HIDE DEF best
<1>9. best \in DOMAIN s.chunks /\ s.span[s.chunks[best]] >= BlocksForChunks(m)
  BY <1>7 DEF T, Fitting
<1> QED
  BY <1>8, <1>9 DEF ToSet, T

IsSetup(s, r, b, n) ==
    /\ OnlySpans(s, r) /\ r.span[b] = n /\ r.span[b + n - 1] = n
    /\ \A x \in Blocks : x # b /\ x # b + n - 1 => r.span[x] = s.span[x]

LEMMA SetupSmall ==
    ASSUME NEW s \in StateType, NEW b \in Blocks, NEW n \in 1..MemoryBlocks,
           n <= BlocksPerChunk, b + n - 1 \in Blocks
    PROVE  IsSetup(s, SetupGroup(s, b, n), b, n)
BY SetupFacts DEF IsSetup, OnlySpans

\* The steps of allocateFromFreeBlock and allocateFromNewChunk that split a group.
LEMMA SetupBoth ==
    ASSUME NEW s \in StateType, NEW b, IsGroup(s, b), s.free[b],
           s.span[b] <= BlocksPerChunk, NEW k \in 1..s.span[b] - 1, NEW r,
           \/ r = SetupGroup(SetupGroup(s, b + k, s.span[b] - k), b, k)
           \/ r = SetupGroup(SetupGroup(s, b, k), b + k, s.span[b] - k)
    PROVE  Splits(s, r, b, k)
<1> DEFINE c == b + k
           n == s.span[b] - k
<1>1. /\ b \in Nat /\ b \in Blocks /\ s.span[b] \in Nat /\ k \in Nat /\ 1 <= k /\ 1 <= n /\ n \in Nat
      /\ k <= BlocksPerChunk /\ n <= BlocksPerChunk /\ BlocksPerChunk \in Nat
      /\ BlocksPerChunk <= MemoryBlocks /\ MemoryBlocks \in Nat
      /\ s.span[b] = k + n /\ c \in Nat
  BY GroupFacts, ChunkFits
<1>2. \A x \in Int : b <= x /\ x < b + s.span[b] => x \in Blocks
  BY GroupBlocks
<1>3. /\ c \in Blocks /\ b + k - 1 \in Blocks /\ c + n - 1 \in Blocks
      /\ c + n - 1 = b + s.span[b] - 1
  BY <1>1, <1>2
<1>4. k \in 1..MemoryBlocks /\ n \in 1..MemoryBlocks
  BY <1>1
<1> HIDE DEF c, n
<1>5. c = b + k
  BY DEF c
<1>6. /\ OnlySpans(s, r) /\ r.span[b] = k /\ r.span[b + k - 1] = k /\ r.span[c] = n
      /\ r.span[c + n - 1] = n
      /\ \A x \in Blocks : x # b /\ x # b + k - 1 /\ x # c /\ x # c + n - 1 => r.span[x] = s.span[x]
  <2>1. CASE r = SetupGroup(SetupGroup(s, c, n), b, k)
    <3> DEFINE t == SetupGroup(s, c, n)
    <3>1. /\ OnlySpans(s, t) /\ t.span[c] = n /\ t.span[c + n - 1] = n
          /\ \A x \in Blocks : x # c /\ x # c + n - 1 => t.span[x] = s.span[x]
      <4>1. IsSetup(s, t, c, n)
        BY <1>1, <1>3, <1>4, SetupSmall
      <4> QED
        BY <4>1 DEF IsSetup
    <3> HIDE DEF t
    <3>2. r = SetupGroup(t, b, k)
      BY <2>1 DEF t
    <3>3. t \in StateType
      BY <3>1 DEF OnlySpans
    <3>4. /\ OnlySpans(t, r) /\ r.span[b] = k /\ r.span[b + k - 1] = k
          /\ \A x \in Blocks : x # b /\ x # b + k - 1 => r.span[x] = t.span[x]
      <4>1. IsSetup(t, SetupGroup(t, b, k), b, k)
        BY <1>1, <1>3, <1>4, <3>3, SetupSmall
      <4> QED
        BY <3>2, <4>1 DEF IsSetup
    <3>5. c # b /\ c # b + k - 1 /\ c + n - 1 # b /\ c + n - 1 # b + k - 1
      BY <1>1, <1>5
    <3>6. OnlySpans(s, r)
      BY <3>1, <3>4 DEF OnlySpans
    <3> QED
      BY <1>3, <3>1, <3>4, <3>5, <3>6
  <2>2. CASE r = SetupGroup(SetupGroup(s, b, k), c, n)
    <3> DEFINE t == SetupGroup(s, b, k)
    <3>1. /\ OnlySpans(s, t) /\ t.span[b] = k /\ t.span[b + k - 1] = k
          /\ \A x \in Blocks : x # b /\ x # b + k - 1 => t.span[x] = s.span[x]
      <4>1. IsSetup(s, t, b, k)
        BY <1>1, <1>3, <1>4, SetupSmall
      <4> QED
        BY <4>1 DEF IsSetup
    <3> HIDE DEF t
    <3>2. r = SetupGroup(t, c, n)
      BY <2>2 DEF t
    <3>3. t \in StateType
      BY <3>1 DEF OnlySpans
    <3>4. /\ OnlySpans(t, r) /\ r.span[c] = n /\ r.span[c + n - 1] = n
          /\ \A x \in Blocks : x # c /\ x # c + n - 1 => r.span[x] = t.span[x]
      <4>1. IsSetup(t, SetupGroup(t, c, n), c, n)
        BY <1>1, <1>3, <1>4, <3>3, SetupSmall
      <4> QED
        BY <3>2, <4>1 DEF IsSetup
    <3>5. c # b /\ c # b + k - 1 /\ c + n - 1 # b /\ c + n - 1 # b + k - 1
      BY <1>1, <1>5
    <3>6. OnlySpans(s, r)
      BY <3>1, <3>4 DEF OnlySpans
    <3> QED
      BY <1>1, <1>3, <3>1, <3>4, <3>5, <3>6
  <2> QED
    BY <2>1, <2>2 DEF c, n
<1>7. ASSUME NEW x \in Blocks, x < b \/ b + s.span[b] <= x PROVE r.span[x] = s.span[x]
  <2>1. x # b /\ x # b + k - 1 /\ x # c /\ x # c + n - 1
    BY <1>1, <1>5, <1>7, BlockPlace
  <2> QED
    BY <1>6, <2>1
<1> QED
  BY <1>1, <1>3, <1>6, <1>7 DEF Splits, c, n

\* Groups in lists that keep their spans stay apart.
LEMMA MergedKept ==
    ASSUME NEW s, NEW r, Merged(s),
           InLists(r) \subseteq InLists(s), ToSet(r.chunks) \subseteq ToSet(s.chunks),
           \A g \in InLists(r) \cup ToSet(r.chunks) : r.span[g] = s.span[g]
    PROVE  Merged(r)
<1>1. \A g \in InLists(r) \cup ToSet(r.chunks) : EndOf(r, g) = EndOf(s, g)
  BY DEF EndOf
<1> QED
  BY <1>1 DEF Merged

SameOut(s, r, G) == \A g \in G : r.span[g] = s.span[g] /\ r.free[g] = s.free[g]

\* b is a free group of n blocks in no list, which was not there in s.
Obtained(s, out, r, b, n) ==
    /\ Sound(r, out \cup {b}) /\ Merged(r) /\ b \in Blocks /\ b \notin out
    /\ r.span[b] = n /\ r.free[b] /\ SameOut(s, r, out)
    /\ r.blocksAllocated = s.blocksAllocated

\* What a client gets.
Allocated(s, out, r, b, n) ==
    /\ Sound(r, out \cup {b}) /\ Merged(r) /\ b \in Blocks /\ b \notin out
    /\ r.span[b] = n /\ ~r.free[b] /\ SameOut(s, r, out)
    /\ r.blocksAllocated = s.blocksAllocated + n

LEMMA ReleaseObtained ==
    ASSUME NEW s, NEW out, NEW t, NEW b, NEW n, out \subseteq Blocks, Obtained(s, out, t, b, n)
    PROVE  Allocated(s, out, Release(t, b), b, n)
<1> DEFINE r == Release(t, b)
           out2 == out \cup {b}
<1>1. /\ Sound(t, out2) /\ Merged(t) /\ b \in Blocks /\ b \notin out
      /\ t.span[b] = n /\ t.free[b] /\ SameOut(s, t, out)
      /\ t.blocksAllocated = s.blocksAllocated /\ b \in out2
  BY DEF Obtained
<1> HIDE DEF r, out2
<1>2. /\ Sound(r, out2) /\ r.span = t.span /\ r.lists = t.lists /\ r.chunks = t.chunks
      /\ ~r.free[b] /\ \A g \in Blocks \ {b} : r.free[g] = t.free[g]
      /\ r.blocksAllocated = t.blocksAllocated + t.span[b]
  <2>1. Released(t, r, out2, b)
    BY <1>1, ReleaseFacts DEF r
  <2> QED
    BY <2>1 DEF Released
<1>3. Merged(r)
  BY <1>1, <1>2, MergedKept DEF InLists
<1>4. SameOut(s, r, out)
  BY <1>1, <1>2 DEF SameOut
<1> QED
  BY <1>1, <1>2, <1>3, <1>4 DEF Allocated, r, out2

\* Where new memory for m chunks may be.
IsNewMemory(s, base, m) ==
    /\ base \in 0..MaxChunks - m
    /\ \A a \in ToSet(s.allocations) : base + m <= a[1] \/ a[1] + a[2] <= base

LEMMA FreeChunksFacts ==
    ASSUME NEW s, NEW out, Sound(s, out), NEW b \in ToSet(s.chunks)
    PROVE  /\ Without(s.chunks, b) \in Seq(Blocks)
           /\ ToSet(Without(s.chunks, b)) = ToSet(s.chunks) \ {b}
           /\ Increasing(Without(s.chunks, b)) /\ Increasing(s.chunks)
           /\ OnlyLists(s, [s EXCEPT !.chunks = Without(s.chunks, b)])
           /\ [s EXCEPT !.chunks = Without(s.chunks, b)].lists = s.lists
           /\ [s EXCEPT !.chunks = Without(s.chunks, b)].chunks = Without(s.chunks, b)
<1> DEFINE rest == Without(s.chunks, b)
           r == [s EXCEPT !.chunks = rest]
<1>1. s \in StateType /\ s.chunks \in Seq(Blocks) /\ Increasing(s.chunks) /\ Blocks \subseteq Int
  BY SoundFacts, StateFields, BlockPlace DEF Sound, ListsMatch
<1>2. IsInjective(s.chunks)
  <2> SUFFICES ASSUME NEW i \in DOMAIN s.chunks, NEW j \in DOMAIN s.chunks,
                      s.chunks[i] = s.chunks[j]
               PROVE  i = j
    BY DEF IsInjective
  <2>1. i \in Int /\ j \in Int /\ s.chunks[i] \in Int /\ s.chunks[j] \in Int
    <3> DEFINE list == s.chunks
    <3>1. list \in Seq(Blocks) /\ i \in DOMAIN list /\ j \in DOMAIN list
      BY <1>1
    <3> HIDE DEF list
    <3>2. i \in Int /\ j \in Int /\ list[i] \in Blocks /\ list[j] \in Blocks
      BY <3>1
    <3> QED
      BY <1>1, <3>2 DEF list
  <2>2. ~(i < j) /\ ~(j < i)
    BY <1>1, <2>1 DEF Increasing
  <2> QED
    BY <2>1, <2>2
<1>3. /\ rest \in Seq(Blocks) /\ ToSet(rest) = ToSet(s.chunks) \ {b} /\ Increasing(rest)
  BY <1>1, <1>2, WithoutFacts
<1> HIDE DEF rest
<1>4. r \in StateType
  BY <1>1, <1>3 DEF StateType
<1>5. r.chunks = rest /\ r.lists = s.lists /\ OnlyLists(s, r)
  BY <1>1, <1>4 DEF StateType, OnlyLists
<1> QED
  BY <1>1, <1>3, <1>5 DEF rest

LEMMA BlocksForChunksGrow ==
    ASSUME NEW k \in Nat \ {0}, NEW m \in Nat \ {0}, BlocksForChunks(m) <= BlocksForChunks(k)
    PROVE  m <= k
<1>1. /\ BlocksForChunks(m) \in Nat /\ BlocksForChunks(k) \in Nat
      /\ ChunkBegin(0) + BlocksForChunks(m) + Gap = ChunkBegin(0 + m)
      /\ ChunkBegin(0) + BlocksForChunks(k) + Gap = ChunkBegin(0 + k)
  BY SpansOfChunks
<1>2. ChunkBegin(0) = 0 /\ 0 + m = m /\ 0 + k = k /\ Gap \in Nat
  BY ChunkBegins, Sizes
<1>3. ChunkBegin(m) <= ChunkBegin(k) /\ ChunkBegin(m) \in Nat /\ ChunkBegin(k) \in Nat
  BY <1>1, <1>2
<1>4. k < m => ChunkBegin(k) + ChunkBlocks <= ChunkBegin(m)
  BY ChunkBegins
<1>5. ~(k < m)
  BY <1>3, <1>4, Sizes
<1> QED
  BY <1>5

LEMMA AllocateChunkGroupFacts ==
    ASSUME NEW s, NEW out, Sound(s, out), Merged(s), NEW m \in Nat \ {0}, NEW base,
           Fitting(s, m) = {} => IsNewMemory(s, base, m),
           NEW new, new = AllocateChunkGroup(s, m, base)
    PROVE  Obtained(s, out, new.state, new.block, BlocksForChunks(m))
<1> DEFINE fitting == Fitting(s, m)
           best == BestFit(s, fitting)
           left == ChunksForBlocks(s.span[best]) - m
           r == new.state
<1>1. s \in StateType /\ out \subseteq Heads(s, out)
  BY SoundFacts
<1>2. CASE fitting = {}
  <2> DEFINE fromNew == [s EXCEPT !.allocations = <<<<base, m>>>> \o @, !.chunksAllocated = @ + m]
             b == ChunkBegin(base)
  <2>1. new = NewGroup(fromNew, base, m)
    BY <1>2 DEF AllocateChunkGroup
  <2>2. AddsMemory(s, r, base, m)
    BY <1>2, <2>1 DEF AddsMemory, IsNewMemory
  <2>3. new.block = b
    BY <2>1 DEF NewGroup
  <2> HIDE DEF b, r, fromNew
  <2>4. /\ Regrouped(s, r, out, {}, {b}) /\ b \in Blocks /\ b \notin Heads(s, out)
        /\ r.span[b] = BlocksForChunks(m) /\ r.free[b]
        /\ r.lists = s.lists /\ r.chunks = s.chunks /\ r.blocksAllocated = s.blocksAllocated
    BY <2>2, NewMemory DEF b
  <2>5. Sound(r, out \cup {b}) /\ \A g \in Heads(s, out) : r.span[g] = s.span[g] /\ r.free[g] = s.free[g]
    <3>1. (out \ {}) \cup {b} = out \cup {b} /\ Heads(s, out) \ {} = Heads(s, out)
      OBVIOUS
    <3> QED
      BY <2>4, <3>1 DEF Regrouped
  <2>6. Merged(r)
    <3>1. InLists(r) = InLists(s) /\ ToSet(r.chunks) = ToSet(s.chunks)
      BY <2>4 DEF InLists
    <3> QED
      BY <2>5, <3>1, SoundFacts, MergedKept
  <2>7. SameOut(s, r, out) /\ b \notin out
    BY <1>1, <2>4, <2>5 DEF SameOut
  <2> QED
    BY <2>3, <2>4, <2>5, <2>6, <2>7 DEF Obtained, r
<1>3. ASSUME fitting # {} PROVE Obtained(s, out, new.state, new.block, BlocksForChunks(m))
  <2> DEFINE rest == Without(s.chunks, best)
             s2 == [s EXCEPT !.chunks = rest]
             out2 == out \cup {best}
  <2>1. best \in ToSet(s.chunks) /\ s.span[best] >= BlocksForChunks(m)
    BY <1>3, BestFitFacts
  <2> HIDE DEF best
  <2>2. /\ OnlyLists(s, s2) /\ s2.lists = s.lists /\ s2.chunks = rest
        /\ Increasing(s2.chunks) /\ ToSet(s2.chunks) = ToSet(s.chunks) \ {best}
        /\ Increasing(s.chunks)
    BY <2>1, FreeChunksFacts
  <2> HIDE DEF s2, rest
  <2>3. /\ Sound(s2, out2) /\ s.free[best] /\ best \notin out
        /\ BlocksPerChunk <= s.span[best] /\ s.span[best] \in Nat
    BY <2>1, <2>2, TakeFromChunks
  <2>4. IsGroup(s, best) /\ best \in Blocks /\ best \in Heads(s, out)
    BY <2>1, SoundFacts
  <2>5. PICK k \in 1..MaxChunks - ChunkOf(best) : s.span[best] = BlocksForChunks(k)
    BY <1>1, <2>3, <2>4, GroupFacts
  <2>6. k \in Nat \ {0} /\ ChunksForBlocks(s.span[best]) = k
    <3>1. k \in Nat /\ 1 <= k
      BY <2>4, <2>5, BlockPlace, Sizes
    <3> QED
      BY <2>5, <3>1, SpansOfChunks
  <2>7. m <= k
    <3>1. BlocksForChunks(m) <= BlocksForChunks(k)
      BY <2>1, <2>5
    <3> QED
      BY <2>6, <3>1, BlocksForChunksGrow
  <2>8. left = k - m /\ left \in Nat
    BY <2>6, <2>7
  <2>9. /\ s2.span = s.span /\ s2.free = s.free /\ s2.blocksAllocated = s.blocksAllocated
        /\ InLists(s2) = InLists(s)
    BY <2>2 DEF OnlyLists, InLists
  <2>10. CASE left = 0
    <3>1. new.state = s2 /\ new.block = best
      BY <1>3, <2>10 DEF AllocateChunkGroup, s2, rest, best
    <3>2. Merged(s2)
      BY <2>2, <2>9, MergedKept
    <3>3. SameOut(s, s2, out)
      BY <2>9 DEF SameOut
    <3>4. s2.span[best] = BlocksForChunks(m)
      BY <2>5, <2>8, <2>9, <2>10
    <3> QED
      BY <2>3, <2>4, <2>9, <3>1, <3>2, <3>3, <3>4 DEF Obtained
  <2>11. CASE left # 0
    <3> DEFINE e == ChunkOf(best) + left
               n == BlocksForChunks(left)
               c == ChunkBegin(e)
               fromRest == SetupGroup(s, best, n)
               r2 == NewGroup(SetupGroup(s2, best, n), e, m).state
    <3>1. new = NewGroup(fromRest, e, m)
      BY <1>3, <2>11 DEF AllocateChunkGroup, best
    <3>2. CutsChunks(s2, r2, best, left, m)
      BY <2>3, <2>6, <2>8, <2>9, <2>11 DEF CutsChunks
    <3> HIDE DEF r2, left
    <3>3. best \in out2 /\ c = ChunkBegin(ChunkOf(best) + left)
      OBVIOUS
    <3> HIDE DEF c
    <3>4. /\ Regrouped(s2, r2, out2, {best}, {best, c})
          /\ c \in Blocks /\ c \notin Heads(s2, out2) /\ EndOf(r2, best) = c
          /\ r2.span[best] = n /\ r2.free[best] /\ r2.span[c] = BlocksForChunks(m) /\ r2.free[c]
          /\ r2.lists = s2.lists /\ r2.chunks = s2.chunks
          /\ r2.blocksAllocated = s2.blocksAllocated
      <4>1. ChunksCut(s2, r2, out2, best, c, left, m)
        BY <2>3, <3>2, <3>3, CutChunks
      <4> QED
        BY <4>1 DEF ChunksCut, n
    <3>5. /\ e \in 0..MaxChunks - 1 /\ m \in 1..MaxChunks - e
          /\ left \in 1..MaxChunks - ChunkOf(best) /\ ChunkOf(best) \in 0..MaxChunks - 1
      <4>1. ChunkOf(best) \in 0..MaxChunks - 1 /\ MaxChunks \in Nat /\ k <= MaxChunks - ChunkOf(best)
            /\ k \in Nat
        BY <2>4, <2>5, <2>6, BlockPlace, Sizes
      <4> QED
        BY <2>8, <2>11, <4>1
    <3>6. /\ n \in 1..MemoryBlocks /\ (n <= BlocksPerChunk => best + n - 1 \in Blocks)
      <4>1. best = ChunkBegin(ChunkOf(best))
        BY <1>1, <2>3, <2>4, GroupFacts
      <4> QED
        BY <3>5, <4>1, ChunkSpan
    <3> HIDE DEF n, e
    <3>7. /\ OnlyLists(fromRest, SetupGroup(s2, best, n)) /\ fromRest.lists = s.lists
          /\ fromRest.chunks = s.chunks /\ fromRest \in StateType
          /\ OnlyLists(SetupGroup(s2, best, n), fromRest)
      <4>1. OnlyLists(s2, s)
        BY <1>1, <2>2 DEF OnlyLists
      <4>2. s2 \in StateType
        BY <2>2 DEF OnlyLists
      <4>3. OnlyLists(fromRest, SetupGroup(s2, best, n)) /\ fromRest.lists = s.lists
            /\ fromRest.chunks = s.chunks /\ fromRest \in StateType
        BY <1>1, <2>2, <2>4, <3>6, SetupAlike
      <4>4. OnlyLists(SetupGroup(s2, best, n), fromRest)
        BY <2>4, <3>6, <4>1, <4>2, SetupAlike
      <4> QED
        BY <4>3, <4>4
    <3> HIDE DEF fromRest
    <3>8. /\ OnlyLists(r2, new.state) /\ new.state.lists = s.lists /\ new.state.chunks = s.chunks
          /\ new.block = c
      <4>1. SetupGroup(s2, best, n) \in StateType
        BY <3>7 DEF OnlyLists
      <4>2. OnlyLists(r2, NewGroup(fromRest, e, m).state)
        BY <3>5, <3>7, <4>1, NewGroupAlike DEF r2
      <4>3. /\ NewGroup(fromRest, e, m).state.lists = fromRest.lists
            /\ NewGroup(fromRest, e, m).state.chunks = fromRest.chunks
            /\ NewGroup(fromRest, e, m).block = ChunkBegin(e)
        BY <3>5, <3>7, NewGroupAlike
      <4> QED
        BY <3>1, <3>7, <4>2, <4>3 DEF c
    <3>9. Sound(r2, out2 \cup {c}) /\ \A g \in Heads(s2, out2) \ {best} :
                                       r2.span[g] = s.span[g] /\ r2.free[g] = s.free[g]
      <4>1. (out2 \ {best}) \cup {best, c} = out2 \cup {c}
        OBVIOUS
      <4> QED
        BY <2>9, <3>4, <4>1 DEF Regrouped
    <3>10. c # best /\ c \notin out
      BY <2>3, <3>3, <3>4, SoundFacts
    <3> HIDE DEF r
    <3>11. Sound(r, out \cup {c})
      <4> DEFINE out3 == out2 \cup {c}
      <4>1. best \in out3 /\ out3 \ {best} = out \cup {c}
        BY <2>3, <3>10
      <4>2. ToSet(r.chunks) = ToSet(r2.chunks) \cup {best} /\ Increasing(r.chunks) /\ r.lists = r2.lists
        BY <2>1, <2>2, <3>4, <3>8 DEF r
      <4>3. BlocksPerChunk <= r2.span[best]
        <5>1. left \in Nat /\ 1 <= left
          BY <2>8, <2>11
        <5> QED
          BY <3>4, <5>1, SpansOfChunks DEF n
      <4>4. Sound(r2, out3) /\ r2.free[best] /\ OnlyLists(r2, r)
        BY <3>4, <3>8, <3>9 DEF r
      <4> HIDE DEF out3
      <4>5. Sound(r, out3 \ {best})
        BY <4>1, <4>2, <4>3, <4>4, PutInChunks
      <4> QED
        BY <4>1, <4>5
    <3>12. /\ r.span = r2.span /\ r.free = r2.free /\ r.blocksAllocated = s.blocksAllocated
           /\ InLists(r) = InLists(s) /\ r.chunks = s.chunks
      BY <2>9, <3>4, <3>8 DEF OnlyLists, r, InLists
    <3>13. SameOut(s, r, out)
      <4>1. out \subseteq Heads(s2, out2) \ {best}
        BY <2>3, SoundFacts
      <4> QED
        BY <3>9, <3>12, <4>1 DEF SameOut
    <3>14. InLists(s) \cup (ToSet(s.chunks) \ {best}) \subseteq Heads(s2, out2) \ {best}
      <4>1. best \notin InLists(s2)
        BY <2>3 DEF Sound, ListsMatch, InLists
      <4> QED
        BY <2>2, <2>9, <4>1 DEF Heads
    <3>15. Merged(r)
      <4>1. \A g \in InLists(s) : r.span[g] = s.span[g]
        BY <3>9, <3>12, <3>14
      <4>2. \A g \in ToSet(s.chunks) \ {best} : EndOf(r, g) = EndOf(s, g)
        BY <3>9, <3>12, <3>14 DEF EndOf
      <4>3. EndOf(r, best) = c
        BY <3>4, <3>12 DEF EndOf
      <4>4. c \notin ToSet(s.chunks)
        BY <2>2, <3>4, <3>10 DEF Heads
      <4>5. \A u, v \in InLists(r) : u + r.span[u] = v => ChunkOf(u) # ChunkOf(v)
        BY <3>12, <4>1 DEF Merged
      <4>6. ASSUME NEW u \in ToSet(r.chunks), NEW v \in ToSet(r.chunks) PROVE EndOf(r, u) # v
        <5>1. CASE u = best
          BY <3>12, <4>3, <4>4, <5>1
        <5>2. CASE u # best
          BY <3>12, <4>2, <5>2 DEF Merged
        <5> QED
          BY <5>1, <5>2
      <4> QED
        BY <4>5, <4>6 DEF Merged
    <3>16. r.span[c] = BlocksForChunks(m) /\ r.free[c]
      BY <3>4, <3>12
    <3> QED
      BY <3>4, <3>8, <3>10, <3>11, <3>12, <3>13, <3>15, <3>16 DEF Obtained, r
  <2> QED
    BY <2>10, <2>11
<1> QED
  BY <1>2, <1>3

LEMMA UsableFacts ==
    ASSUME NEW s, NEW out, Sound(s, out), NEW n \in 1..BlocksPerChunk - 1, UsableLists(s, n) # {},
           NEW x, x = First(UsableLists(s, n))
    PROVE  /\ x \in Indices /\ Head(s.lists[x]) \in ToSet(s.lists[x])
           /\ Takes(s, [s EXCEPT !.lists[x] = Tail(@)], x, Head(s.lists[x]))
           /\ n <= s.span[Head(s.lists[x])]
<1> DEFINE y == FreeListIndexForAllocation(n)
           enough == {z \in Indices : n <= PowerOfTwo[z]} \cup {FreeListCount}
           list == s.lists[x]
<1>1. Indices \subseteq Nat /\ FreeListCount \in Nat /\ FreeListCount \notin Indices
      /\ \A z \in Indices : z < FreeListCount
  BY Sizes DEF Indices
<1>2. x \in Indices /\ x >= y /\ list # <<>>
  <2>1. UsableLists(s, n) \subseteq Nat
    BY <1>1 DEF UsableLists
  <2>2. x \in UsableLists(s, n)
    BY <2>1, FirstFacts
  <2> QED
    BY <2>2 DEF UsableLists
<1>3. y \in enough
  <2>1. enough \subseteq Nat /\ enough # {}
    BY <1>1
  <2>2. y = First(enough)
    BY DEF FreeListIndexForAllocation
  <2> HIDE DEF y, enough
  <2> QED
    BY <2>1, <2>2, FirstFacts
<1>4. y \in Nat /\ x \in Nat /\ x < FreeListCount
  BY <1>1, <1>2, <1>3
<1>5. n <= PowerOfTwo[y]
  BY <1>1, <1>2, <1>3, <1>4
<1> HIDE DEF y
<1>6. n <= PowerOfTwo[x]
  <2>1. PowerOfTwo[x] \in Nat /\ PowerOfTwo[y] \in Nat /\ n \in Nat
    BY <1>4, PowerOfTwoFacts
  <2>2. CASE x = y
    BY <1>5, <2>2
  <2>3. CASE y < x
    BY <1>4, <1>5, <2>1, <2>3, PowersGrow
  <2> QED
    BY <1>2, <1>4, <2>2, <2>3
<1>7. s \in StateType /\ s.lists \in [Indices -> Seq(Blocks)] /\ ListsMatch(s, out)
  BY SoundFacts, StateFields DEF Sound
<1>8. list \in Seq(Blocks) /\ IsInjective(list)
  BY <1>2, <1>7 DEF ListsMatch
<1> DEFINE r == [s EXCEPT !.lists[x] = Tail(@)]
<1>9. r = [s EXCEPT !.lists[x] = Tail(list)]
  BY <1>2, <1>7 DEF StateType
<1> HIDE DEF list, r
<1>10. /\ Head(list) \in ToSet(list) /\ Tail(list) \in Seq(Blocks)
       /\ ToSet(Tail(list)) = ToSet(list) \ {Head(list)} /\ IsInjective(Tail(list))
  BY <1>2, <1>8, PopFrontFacts
<1>11. Takes(s, r, x, Head(list))
  BY <1>2, <1>9, <1>10 DEF Takes, list
<1>12. n <= s.span[Head(list)]
  <2>1. /\ PowerOfTwo[x] <= s.span[Head(list)] /\ s.span[Head(list)] \in 1..BlocksPerChunk - 1
    BY <1>2, <1>7, <1>10 DEF ListsMatch, list
  <2>2. PowerOfTwo[x] \in Nat
    BY <1>4, PowerOfTwoFacts
  <2> QED
    BY <1>6, <2>1, <2>2, Sizes
<1> QED
  BY <1>2, <1>10, <1>11, <1>12 DEF list, r

LEMMA FromFreeListFacts ==
    ASSUME NEW s, NEW out, Sound(s, out), Merged(s), NEW n \in 1..BlocksPerChunk - 1,
           UsableLists(s, n) # {}, NEW new, new = AllocateFromFreeList(s, n)
    PROVE  Allocated(s, out, new.state, new.block, n)
<1> DEFINE x == First(UsableLists(s, n))
           b == Head(s.lists[x])
           size == s.span[b]
           popped == [s EXCEPT !.lists[x] = Tail(@)]
           cut == b + size - n
           out2 == out \cup {b}
<1>1. x \in Indices /\ b \in ToSet(s.lists[x]) /\ Takes(s, popped, x, b) /\ n <= size
  BY UsableFacts
<1>2. IF size = n
        THEN new.state = Release(popped, b) /\ new.block = b
        ELSE /\ new.state = Release(AddToFreeList(SetupGroup(SetupGroup(popped, cut, n),
                                                             b, size - n), b), cut)
             /\ new.block = cut
  BY DEF AllocateFromFreeList
<1> HIDE DEF x, popped
<1>3. /\ Sound(popped, out2) /\ OnlyLists(s, popped) /\ popped.chunks = s.chunks
      /\ InLists(popped) = InLists(s) \ {b} /\ b \in InLists(s) /\ b \notin out /\ s.free[b]
      /\ size \in 1..BlocksPerChunk - 1
  <2>1. Taken(s, popped, out, b)
    BY <1>1, TakeFromList
  <2> QED
    BY <2>1 DEF Taken
<1>4. /\ popped \in StateType /\ popped.span = s.span /\ popped.free = s.free
      /\ popped.blocksAllocated = s.blocksAllocated
  BY <1>3 DEF OnlyLists
<1>5. IsGroup(popped, b) /\ b \in Blocks /\ b \in Nat /\ BlocksPerChunk \in Nat
      /\ out \subseteq Heads(popped, out2) /\ b \in Heads(popped, out2) /\ out \subseteq Blocks
  BY <1>3, SoundFacts, BlockPlace, Sizes
<1> HIDE DEF b
<1>6. CASE size = n
  <2>1. Merged(popped)
    BY <1>3, <1>4, MergedKept
  <2>2. SameOut(s, popped, out)
    BY <1>4 DEF SameOut
  <2>3. Obtained(s, out, popped, b, n)
    BY <1>3, <1>4, <1>5, <1>6, <2>1, <2>2 DEF Obtained
  <2> QED
    BY <1>2, <1>5, <1>6, <2>3, ReleaseObtained
<1>7. CASE size # n
  <2> DEFINE k == size - n
             t == SetupGroup(SetupGroup(popped, cut, n), b, k)
             u == AddToFreeList(t, b)
  <2>1. k \in 1..size - 1 /\ cut = b + k /\ n = size - k /\ k \in Nat /\ k < BlocksPerChunk
        /\ cut \in Nat /\ b < cut
    BY <1>1, <1>3, <1>5, <1>7
  <2>2. new.state = Release(u, cut) /\ new.block = cut
    BY <1>2, <1>7
  <2>3. t = SetupGroup(SetupGroup(popped, b + k, popped.span[b] - k), b, k)
    BY <1>4, <2>1
  <2> HIDE DEF k, t, cut
  <2>4. Splits(popped, t, b, k)
    <3>1. popped.free[b] /\ popped.span[b] <= BlocksPerChunk /\ k \in 1..popped.span[b] - 1
      BY <1>3, <1>4, <1>5, <2>1
    <3> HIDE DEF size
    <3> QED
      BY <1>4, <1>5, <2>3, <3>1, SetupBoth
  <2>5. /\ Sound(t, out2 \cup {b + k}) /\ b + k \in Blocks /\ b + k \notin Heads(popped, out2)
        /\ popped.free[b + k]
        /\ \A g \in Heads(popped, out2) \ {b} : t.span[g] = popped.span[g]
    <3>1. b \in out2
      OBVIOUS
    <3> HIDE DEF out2
    <3>2. IsSplit(popped, t, out2, b, b + k)
      BY <1>3, <2>4, <3>1, SplitGroup
    <3> QED
      BY <3>2 DEF IsSplit
  <2>6. /\ OnlySpans(popped, t) /\ t.span[b] = k /\ t.span[cut] = n
    BY <1>4, <2>1, <2>4 DEF Splits
  <2>7. /\ t.free = s.free /\ t.lists = popped.lists /\ t.chunks = s.chunks
        /\ t.blocksAllocated = s.blocksAllocated
    BY <1>3, <1>4, <2>6 DEF OnlySpans
  <2> DEFINE out3 == out2 \cup {cut}
  <2>8. /\ Sound(u, out3 \ {b}) /\ OnlyLists(t, u) /\ u.chunks = t.chunks
        /\ InLists(u) = InLists(t) \cup {b}
    <3>1. b \in out3 /\ Sound(t, out3) /\ t.free[b] /\ t.span[b] < BlocksPerChunk
      BY <1>3, <2>1, <2>5, <2>6, <2>7
    <3> HIDE DEF out3
    <3>2. Listed(t, u, out3, b)
      BY <3>1, PutInList DEF u
    <3> QED
      BY <3>2 DEF Listed
  <2>9. out3 \ {b} = out \cup {cut} /\ cut \notin out /\ cut \in Blocks /\ cut \notin InLists(s)
        /\ cut # b
    <3>1. cut # b
      BY <2>1, <1>5
    <3>2. cut \notin Heads(popped, out2) /\ cut \in Blocks
      BY <2>1, <2>5
    <3> QED
      BY <1>3, <1>5, <3>1, <3>2 DEF Heads
  <2> HIDE DEF u
  <2>10. /\ u.span = t.span /\ u.free = s.free /\ u.blocksAllocated = s.blocksAllocated
         /\ InLists(u) = InLists(s) /\ u.chunks = s.chunks
    <3>1. InLists(t) = InLists(popped)
      BY <2>7 DEF InLists
    <3> QED
      BY <1>3, <2>7, <2>8, <3>1 DEF OnlyLists
  <2>11. \A g \in (InLists(s) \cup ToSet(s.chunks) \cup out) \ {b} : u.span[g] = s.span[g]
    <3>1. (InLists(s) \cup ToSet(s.chunks) \cup out) \ {b} \subseteq Heads(popped, out2) \ {b}
      BY <1>3 DEF Heads
    <3> QED
      BY <1>4, <2>5, <2>10, <3>1
  <2>12. Merged(u)
    <3>1. ASSUME NEW v \in InLists(u), NEW w \in InLists(u), v + u.span[v] = w
          PROVE  ChunkOf(v) # ChunkOf(w)
      <4>1. CASE v = b
        BY <2>1, <2>6, <2>9, <2>10, <3>1, <4>1
      <4>2. CASE v # b
        <5>1. u.span[v] = s.span[v]
          BY <2>10, <2>11, <4>2
        <5> QED
          BY <2>10, <3>1, <5>1 DEF Merged
      <4> QED
        BY <4>1, <4>2
    <3>2. b \notin ToSet(s.chunks)
      BY <1>3 DEF Sound, ListsMatch
    <3>3. \A v \in ToSet(s.chunks) : EndOf(u, v) = EndOf(s, v)
      BY <2>11, <3>2 DEF EndOf
    <3> QED
      BY <2>10, <3>1, <3>3 DEF Merged
  <2>13. SameOut(s, u, out)
    BY <1>3, <2>10, <2>11 DEF SameOut
  <2>14. u.free[cut]
    BY <1>4, <2>1, <2>5, <2>10
  <2>15. Obtained(s, out, u, cut, n)
    <3>1. Sound(u, out \cup {cut})
      BY <2>8, <2>9
    <3> HIDE DEF out3, out2
    <3> QED
      BY <2>6, <2>9, <2>10, <2>12, <2>13, <2>14, <3>1 DEF Obtained
  <2> QED
    BY <1>5, <2>2, <2>15, ReleaseObtained
<1> QED
  BY <1>6, <1>7

LEMMA FromNewChunkFacts ==
    ASSUME NEW s, NEW out, Sound(s, out), Merged(s), NEW n \in 1..BlocksPerChunk - 1, NEW base,
           Fitting(s, 1) = {} => IsNewMemory(s, base, 1),
           NEW new, new = AllocateFromNewChunk(s, n, base)
    PROVE  Allocated(s, out, new.state, new.block, n)
<1> DEFINE got == AllocateChunkGroup(s, 1, base)
           t == got.state
           b == got.block
           rest == b + n
           left == BlocksPerChunk - n
           u == SetupGroup(SetupGroup(t, b, n), rest, left)
           r == AddToFreeList(u, rest)
           out2 == out \cup {b}
           out3 == out2 \cup {rest}
<1>1. new.state = Release(r, b) /\ new.block = b
  BY DEF AllocateFromNewChunk
<1>2. Obtained(s, out, t, b, BlocksPerChunk)
  <2>1. BlocksForChunks(1) = BlocksPerChunk
    BY Sizes DEF BlocksForChunks
  <2>2. Obtained(s, out, t, b, BlocksForChunks(1))
    BY AllocateChunkGroupFacts
  <2> QED
    BY <2>1, <2>2
<1> HIDE DEF t, b, u, r
<1>3. /\ Sound(t, out2) /\ Merged(t) /\ b \in Blocks /\ b \notin out
      /\ t.span[b] = BlocksPerChunk /\ t.free[b] /\ SameOut(s, t, out)
      /\ t.blocksAllocated = s.blocksAllocated
  BY <1>2 DEF Obtained
<1>4. b \in out2
  OBVIOUS
<1> HIDE DEF out2
<1>5. /\ t \in StateType /\ IsGroup(t, b) /\ b \in Nat /\ b \in Heads(t, out2)
      /\ out \subseteq Heads(t, out2) /\ out \subseteq Blocks
      /\ BlocksPerChunk \in Nat /\ n \in Nat /\ left \in 1..BlocksPerChunk - 1 /\ left \in Nat
      /\ rest \in Nat /\ b < rest
  <2>1. /\ t \in StateType /\ IsGroup(t, b) /\ b \in Heads(t, out2) /\ out2 \subseteq Heads(t, out2)
        /\ Heads(t, out2) \subseteq Blocks
    BY <1>3, <1>4, SoundFacts
  <2>2. b \in Nat
    BY <1>3, BlockPlace
  <2>3. out \subseteq out2
    BY DEF out2
  <2>4. /\ BlocksPerChunk \in Nat /\ n \in Nat /\ left \in 1..BlocksPerChunk - 1 /\ left \in Nat
        /\ rest \in Nat /\ b < rest
    BY <2>2, Sizes
  <2> QED
    BY <2>1, <2>2, <2>3, <2>4
<1>6. Splits(t, u, b, n)
  <2>1. n \in 1..t.span[b] - 1 /\ t.span[b] <= BlocksPerChunk
    BY <1>3, <1>5
  <2>2. u = SetupGroup(SetupGroup(t, b, n), b + n, t.span[b] - n)
    BY <1>3 DEF u
  <2> QED
    BY <1>3, <1>5, <2>1, <2>2, SetupBoth
<1>7. IsSplit(t, u, out2, b, rest)
  BY <1>3, <1>4, <1>6, SplitGroup
<1>8. /\ Sound(u, out3) /\ rest \in Blocks /\ rest \notin Heads(t, out2) /\ t.free[rest]
      /\ \A g \in Heads(t, out2) \ {b} : u.span[g] = t.span[g]
  BY <1>7 DEF IsSplit
<1>9. /\ OnlySpans(t, u) /\ u.span[b] = n /\ u.span[rest] = left
  BY <1>3, <1>6 DEF Splits
<1>10. /\ u.free = t.free /\ u.lists = t.lists /\ u.chunks = t.chunks
       /\ u.blocksAllocated = t.blocksAllocated
  BY <1>9 DEF OnlySpans
<1>11. rest \in out3
  OBVIOUS
<1> HIDE DEF out3
<1>12. Listed(u, r, out3, rest)
  <2>1. u.free[rest] /\ u.span[rest] < BlocksPerChunk
    BY <1>5, <1>8, <1>9, <1>10
  <2> HIDE DEF rest
  <2> QED
    BY <1>8, <1>11, <2>1, PutInList DEF r
<1>13. /\ Sound(r, out3 \ {rest}) /\ OnlyLists(u, r) /\ r.chunks = t.chunks
       /\ InLists(r) = InLists(t) \cup {rest}
  BY <1>10, <1>12 DEF Listed, InLists
<1>14. r.span = u.span /\ r.free = t.free /\ r.blocksAllocated = s.blocksAllocated
  BY <1>3, <1>10, <1>13 DEF OnlyLists
<1>15. out3 \ {rest} = out \cup {b}
  BY <1>3, <1>5, <1>8 DEF out2, out3
<1>16. b \notin InLists(t) /\ b \notin ToSet(t.chunks)
  BY <1>3, <1>4 DEF Sound, ListsMatch, InLists
<1>17. \A g \in InLists(t) \cup ToSet(t.chunks) \cup out : g # b /\ r.span[g] = t.span[g]
  <2>1. InLists(t) \cup ToSet(t.chunks) \subseteq Heads(t, out2)
    BY DEF Heads
  <2> QED
    BY <1>3, <1>5, <1>8, <1>14, <1>16, <2>1
<1>18. b + BlocksPerChunk = ChunkEnd(ChunkOf(b)) /\ ChunkOf(rest) = ChunkOf(b)
       /\ b + BlocksPerChunk <= EndOf(t, b)
  <2>1. b = ChunkBegin(ChunkOf(b)) /\ b + BlocksPerChunk <= EndOf(t, b)
    BY <1>3, <1>5, GroupFacts
  <2>2. ChunkOf(b) \in Int
    BY <1>3, BlockPlace
  <2>3. ChunkEnd(ChunkOf(b)) = ChunkBegin(ChunkOf(b)) + BlocksPerChunk
    BY <2>2, ChunkEnds
  <2>4. b <= rest /\ rest < b + t.span[b] /\ t.span[b] <= BlocksPerChunk /\ rest \in Int
    BY <1>3, <1>5
  <2>5. ChunkOf(rest) = ChunkOf(b)
    BY <1>5, <2>4, GroupBlocks
  <2> QED
    BY <2>1, <2>3, <2>5
<1>19. Merged(r)
  <2>1. ASSUME NEW v \in InLists(r), NEW w \in InLists(r), v + r.span[v] = w,
               ChunkOf(v) = ChunkOf(w)
        PROVE  FALSE
    <3>1. CASE v = rest
      <4>1. w = b + BlocksPerChunk
        BY <1>5, <1>9, <1>14, <2>1, <3>1
      <4>2. w \in Blocks
        BY <1>8, <1>13, <1>3, SoundFacts
      <4>3. w < ChunkEnd(ChunkOf(w)) /\ w \in Nat
        BY <4>2, BlockPlace
      <4> QED
        BY <1>18, <2>1, <3>1, <4>1, <4>3
    <3>2. CASE v # rest /\ w = rest
      <4>1. v \in InLists(t) /\ v \in Heads(t, out2)
        BY <1>3, <1>13, <3>2, SoundFacts
      <4>2. t.span[v] \in 1..BlocksPerChunk - 1
        BY <1>3, <4>1 DEF Sound, ListsMatch, InLists
      <4>3. EndOf(t, v) = rest
        <5>1. v + t.span[v] = rest
          BY <1>17, <2>1, <3>2, <4>1
        <5>2. IsGroup(t, v) /\ t.span[v] < BlocksPerChunk
          <6>1. IsGroup(t, v)
            BY <1>3, <4>1, SoundFacts
          <6> QED
            BY <1>5, <4>2, <6>1
        <5> QED
          BY <1>5, <5>1, <5>2, GroupFacts
      <4>4. /\ v \in Nat /\ v < EndOf(t, v) /\ (v < b => EndOf(t, v) <= b)
            /\ (b <= v /\ v < EndOf(t, b) => v = b) /\ EndOf(t, b) \in Nat
        BY <1>3, <1>5, <4>1, Apart
      <4> QED
        BY <1>5, <1>16, <1>18, <4>1, <4>3, <4>4
    <3>3. CASE v # rest /\ w # rest
      <4>1. v \in InLists(t) /\ w \in InLists(t)
        BY <1>13, <3>3
      <4> QED
        BY <1>3, <1>17, <2>1, <4>1 DEF Merged
    <3> QED
      BY <3>1, <3>2, <3>3
  <2>2. \A v \in ToSet(t.chunks) : EndOf(r, v) = EndOf(t, v)
    BY <1>17 DEF EndOf
  <2> QED
    BY <1>3, <1>13, <2>1, <2>2 DEF Merged
<1>20. SameOut(s, r, out)
  BY <1>3, <1>14, <1>17 DEF SameOut
<1>21. Obtained(s, out, r, b, n)
  BY <1>3, <1>9, <1>13, <1>14, <1>15, <1>19, <1>20 DEF Obtained
<1> QED
  BY <1>1, <1>5, <1>21, ReleaseObtained

\* What allocate(n) does, on memory the system has if it takes any.
LEMMA AllocateFacts ==
    ASSUME NEW s, NEW out, Sound(s, out), Merged(s), NEW n \in Nat \ {0}, NEW base,
           ChunksNeeded(s, n) # 0 => IsNewMemory(s, base, ChunksNeeded(s, n)),
           NEW new, new = AllocateBlocks(s, n, base)
    PROVE  Allocated(s, out, new.state, new.block, SpanFor(n))
<1>1. BlocksPerChunk \in Nat /\ out \subseteq Blocks
  BY Sizes, SoundFacts
<1>2. CASE n >= BlocksPerChunk
  <2> DEFINE m == ChunksForBlocks(n)
             got == AllocateChunkGroup(s, m, base)
  <2>1. m \in Nat \ {0}
    BY <1>2, ChunksForRequest
  <2>2. Fitting(s, m) = {} => IsNewMemory(s, base, m)
    <3>1. Fitting(s, m) = {} => ChunksNeeded(s, n) = m
      BY <1>1, <1>2 DEF ChunksNeeded
    <3> QED
      BY <2>1, <3>1
  <2>3. new = [got EXCEPT !.state = Release(@, got.block)]
    BY <1>2 DEF AllocateBlocks
  <2>4. new.state = Release(got.state, got.block) /\ new.block = got.block
    BY <2>3 DEF AllocateChunkGroup, NewGroup
  <2>5. SpanFor(n) = BlocksForChunks(m)
    BY <1>1, <1>2 DEF SpanFor
  <2> HIDE DEF m, got
  <2>6. Obtained(s, out, got.state, got.block, BlocksForChunks(m))
    BY <2>1, <2>2, AllocateChunkGroupFacts DEF got
  <2> QED
    BY <1>1, <2>4, <2>5, <2>6, ReleaseObtained
<1>3. CASE n < BlocksPerChunk
  <2>1. n \in 1..BlocksPerChunk - 1 /\ SpanFor(n) = n /\ ~(n >= BlocksPerChunk)
    BY <1>1, <1>3 DEF SpanFor
  <2>2. CASE UsableLists(s, n) # {}
    <3>1. new = AllocateFromFreeList(s, n)
      BY <2>1, <2>2 DEF AllocateBlocks
    <3> QED
      BY <2>1, <2>2, <3>1, FromFreeListFacts
  <2>3. CASE UsableLists(s, n) = {}
    <3>1. new = AllocateFromNewChunk(s, n, base)
      BY <2>1, <2>3 DEF AllocateBlocks
    <3>2. Fitting(s, 1) = {} => ChunksNeeded(s, n) = 1
      BY <2>1, <2>3 DEF ChunksNeeded
    <3>3. Fitting(s, 1) = {} => IsNewMemory(s, base, 1)
      BY <3>2
    <3> QED
      BY <2>1, <3>1, <3>3, FromNewChunkFacts
  <2> QED
    BY <2>2, <2>3
<1> QED
  BY <1>1, <1>2, <1>3

-----------------------------------------------------------------------------
(* Deallocation within a chunk *)

\* Group b is free and in no list, for now; clients have those in kept.
Held(s, kept, b) ==
    /\ Sound(s, kept \cup {b}) /\ Merged(s) /\ b \notin kept /\ s.free[b]
    /\ \A g \in kept : ~s.free[g]

\* What clients have is untouched.
KeepsOut(s, r, kept) == SameOut(s, r, kept) /\ r.blocksAllocated = s.blocksAllocated

LEMMA RemoveFacts ==
    ASSUME NEW s, NEW out, Sound(s, out), NEW b \in InLists(s)
    PROVE  Taken(s, RemoveFromFreeList(s, b), out, b)
<1> DEFINE x == FreeListIndex(s.span[b])
           list == s.lists[x]
           r == RemoveFromFreeList(s, b)
<1>1. PICK y \in Indices : b \in ToSet(s.lists[y])
  BY DEF InLists
<1>2. ListsMatch(s, out) /\ s \in StateType /\ s.lists \in [Indices -> Seq(Blocks)]
  BY SoundFacts, StateFields DEF Sound
<1>3. /\ s.span[b] \in 1..BlocksPerChunk - 1
      /\ PowerOfTwo[y] <= s.span[b] /\ s.span[b] < PowerOfTwo[y + 1]
  BY <1>1, <1>2 DEF ListsMatch
<1>4. x = y
  BY <1>3, FreeListIndexIs
<1>5. x \in Indices /\ b \in ToSet(list) /\ list \in Seq(Blocks) /\ IsInjective(list)
  BY <1>1, <1>2, <1>4 DEF ListsMatch
<1>6. r = [s EXCEPT !.lists[x] = Without(list, b)]
  BY <1>2, <1>5 DEF RemoveFromFreeList, StateType
<1> HIDE DEF x, r
<1>7. /\ Without(list, b) \in Seq(Blocks) /\ ToSet(Without(list, b)) = ToSet(list) \ {b}
      /\ IsInjective(Without(list, b))
  <2> HIDE DEF list
  <2> QED
    BY <1>5, WithoutFacts
<1>8. Takes(s, r, x, b)
  BY <1>5, <1>6, <1>7 DEF Takes
<1> QED
  BY <1>8, TakeFromList DEF r

\* Of two groups that follow each other in a chunk, one is in a list (z).  It
\* is taken out, and they become one.
Merging(s, r, out, b, c, z) ==
    /\ Sound(s, out) /\ c = b + s.span[b] /\ c < ChunkEnd(ChunkOf(b))
    /\ s.free[b] /\ s.free[c] /\ s.span[b] < BlocksPerChunk /\ s.span[c] < BlocksPerChunk
    /\ z \in InLists(s) /\ b \in out \cup {z} /\ c \in out \cup {z}
    /\ r = SetupGroup(RemoveFromFreeList(s, z), b, s.span[b] + s.span[c])

MergedOne(s, r, out, b, c, z) ==
    /\ Sound(r, (out \cup {z}) \ {c})
    /\ b \in Blocks /\ c \in Blocks /\ b # c
    /\ r.span[b] = s.span[b] + s.span[c] /\ r.span[b] <= BlocksPerChunk
    /\ \A g \in Heads(s, out) \ {b, c} : r.span[g] = s.span[g]
    /\ r.free = s.free /\ r.chunks = s.chunks /\ InLists(r) = InLists(s) \ {z}
    /\ r.blocksAllocated = s.blocksAllocated

LEMMA MergeGroups ==
    ASSUME NEW s, NEW r, NEW out, NEW b, NEW c, NEW z, Merging(s, r, out, b, c, z)
    PROVE  MergedOne(s, r, out, b, c, z)
<1> DEFINE t == RemoveFromFreeList(s, z)
           out2 == out \cup {z}
<1>1. /\ Sound(s, out) /\ c = b + s.span[b] /\ c < ChunkEnd(ChunkOf(b))
      /\ s.free[b] /\ s.free[c] /\ s.span[b] < BlocksPerChunk /\ s.span[c] < BlocksPerChunk
      /\ z \in InLists(s) /\ b \in out2 /\ c \in out2
      /\ r = SetupGroup(t, b, s.span[b] + s.span[c])
  BY DEF Merging
<1> HIDE DEF t
<1>2. Taken(s, t, out, z)
  BY <1>1, RemoveFacts DEF t
<1>3. /\ Sound(t, out2) /\ OnlyLists(s, t) /\ t.chunks = s.chunks
      /\ InLists(t) = InLists(s) \ {z}
  BY <1>2 DEF Taken
<1>4. t.span = s.span /\ t.free = s.free /\ t.blocksAllocated = s.blocksAllocated
  BY <1>3 DEF OnlyLists
<1> HIDE DEF out2
<1>5. Joins(t, r, b, c)
  BY <1>1, <1>4 DEF Joins
<1>6. Joined(t, r, out2, b, c)
  BY <1>1, <1>3, <1>5, JoinGroups
<1>7. /\ Sound(r, out2 \ {c}) /\ OnlySpans(t, r) /\ r.span[b] = t.span[b] + t.span[c]
      /\ t.span[b] + t.span[c] <= BlocksPerChunk /\ b # c
      /\ \A g \in Heads(t, out2) \ {b, c} : r.span[g] = t.span[g]
  BY <1>6 DEF Joined
<1>8. Heads(t, out2) = Heads(s, out)
  BY <1>1, <1>3 DEF Heads, out2
<1>9. b \in Blocks /\ c \in Blocks
  BY <1>1, <1>3, SoundFacts
<1>10. r.free = s.free /\ r.chunks = s.chunks /\ InLists(r) = InLists(s) \ {z}
       /\ r.blocksAllocated = s.blocksAllocated
  BY <1>3, <1>4, <1>7 DEF OnlySpans, InLists
<1> QED
  BY <1>4, <1>7, <1>8, <1>9, <1>10 DEF MergedOne, out2

\* A group is not followed, or not preceded, by one in the free lists.
NoNext(s, b) == \A w \in InLists(s) : b + s.span[b] = w => ChunkOf(w) # ChunkOf(b)

NoPrevious(s, b) == \A w \in InLists(s) : w + s.span[w] = b => ChunkOf(w) # ChunkOf(b)

\* The group after a small one in the same chunk.
LEMMA NextGroup ==
    ASSUME NEW s, NEW out, Sound(s, out), NEW b \in Heads(s, out), s.span[b] < BlocksPerChunk,
           NEW c, c = b + s.span[b], c < ChunkEnd(ChunkOf(b))
    PROVE  /\ c \in Heads(s, out) /\ ChunkOf(c) = ChunkOf(b)
           /\ s.span[c] \in 1..BlocksPerChunk - 1
<1>1. IsGroup(s, b) /\ s \in StateType /\ b \in Blocks
  BY SoundFacts
<1>2. b \in Nat /\ s.span[b] \in Nat \ {0} /\ EndOf(s, b) = c
  BY <1>1, GroupFacts
<1>3. ChunkOf(b) \in 0..MaxChunks - 1 /\ ChunkBegin(ChunkOf(b)) <= b
  BY <1>1, BlockPlace
<1>4. c \in Blocks /\ ChunkOf(c) = ChunkOf(b) /\ c \in Nat /\ b < c
  <2>1. c \in Nat /\ b < c
    BY <1>2
  <2>2. ChunkBegin(ChunkOf(b)) \in Int
    BY <1>3, ChunkEnds
  <2>3. ChunkBegin(ChunkOf(b)) <= c
    BY <1>2, <1>3, <2>1, <2>2
  <2>4. c \in Blocks /\ ChunkOf(c) = ChunkOf(b)
    BY <1>3, <2>1, <2>3, BlockOfChunk
  <2> QED
    BY <2>1, <2>4
<1>5. ChunkOf(c) \in Owned(s)
  <2>1. b <= b /\ b < EndOf(s, b)
    BY <1>2, <1>4
  <2>2. ChunkOf(b) \in Owned(s)
    BY <1>1, <2>1 DEF Sound, ChunksCovered
  <2> QED
    BY <1>4, <2>2
<1>6. PICK g \in Heads(s, out) : g <= c /\ c < EndOf(s, g)
  BY <1>4, <1>5 DEF Sound, ChunksCovered
<1>7. g = c
  <2>1. /\ g \in Nat /\ (b < g => EndOf(s, b) <= g) /\ (g < b => EndOf(s, g) <= b)
    BY Apart
  <2>2. EndOf(s, g) \in Nat
    BY Apart
  <2> QED
    BY <1>2, <1>4, <1>6, <2>1, <2>2
<1>8. s.span[c] \in Nat \ {0} /\ IsGroup(s, c)
  BY <1>1, <1>6, <1>7, SoundFacts, GroupFacts
<1>9. ~(BlocksPerChunk <= s.span[c])
  <2> SUFFICES ASSUME BlocksPerChunk <= s.span[c] PROVE FALSE
    OBVIOUS
  <2>1. c = ChunkBegin(ChunkOf(c))
    BY <1>1, <1>8, GroupFacts
  <2> QED
    BY <1>2, <1>3, <1>4, <2>1
<1> QED
  BY <1>4, <1>6, <1>7, <1>8, <1>9, Sizes

\* The group before one that is not the first of its chunk; its last block has
\* its span.
LEMMA PreviousGroup ==
    ASSUME NEW s, NEW out, Sound(s, out), NEW b \in Heads(s, out),
           ChunkBegin(ChunkOf(b)) < b
    PROVE  \E g \in Heads(s, out) :
             /\ g = (IF s.span[b - 1] > 1 THEN b - s.span[b - 1] ELSE b - 1)
             /\ ChunkOf(g) = ChunkOf(b) /\ g + s.span[g] = b /\ EndOf(s, g) = b
             /\ s.span[g] \in 1..BlocksPerChunk - 1 /\ s.span[b] \in 1..BlocksPerChunk - 1
<1> DEFINE k == ChunkOf(b)
           p == b - 1
<1>1. IsGroup(s, b) /\ s \in StateType /\ b \in Blocks
  BY SoundFacts
<1>2. /\ b \in Nat /\ k \in 0..MaxChunks - 1 /\ ChunkBegin(k) <= b /\ b < ChunkEnd(k)
      /\ k \in Int /\ ChunkBegin(k) \in Int /\ ChunkEnd(k) \in Int
  BY <1>1, BlockPlace, ChunkEnds
<1>3. s.span[b] \in 1..BlocksPerChunk - 1
  <2>1. ~(BlocksPerChunk <= s.span[b])
    BY <1>1, <1>2, GroupFacts
  <2>2. s.span[b] \in Nat \ {0}
    BY <1>1, GroupFacts
  <2> QED
    BY <2>1, <2>2, Sizes
<1>4. p \in Blocks /\ ChunkOf(p) = k
  <2>1. p \in Int /\ ChunkBegin(k) <= p /\ p < ChunkEnd(k)
    BY <1>2
  <2> HIDE DEF k, p
  <2> QED
    BY <1>2, <2>1, BlockOfChunk
<1>5. ChunkOf(p) \in Owned(s)
  <2>1. b <= b /\ b < EndOf(s, b)
    BY <1>2, Apart
  <2>2. ChunkOf(b) \in Owned(s)
    BY <1>1, <2>1 DEF Sound, ChunksCovered
  <2> QED
    BY <1>4, <2>2
<1>6. PICK g \in Heads(s, out) : g <= p /\ p < EndOf(s, g)
  BY <1>4, <1>5 DEF Sound, ChunksCovered
<1>7. g \in Nat /\ g < b /\ EndOf(s, g) = b
  <2>1. g \in Nat /\ EndOf(s, g) \in Nat /\ (g < b => EndOf(s, g) <= b)
    BY Apart
  <2> QED
    BY <1>2, <1>6, <2>1
<1>8. IsGroup(s, g) /\ g \in Blocks
  BY SoundFacts
<1>9. s.span[g] \in 1..BlocksPerChunk - 1
  <2>1. ~(BlocksPerChunk <= s.span[g])
    <3> SUFFICES ASSUME BlocksPerChunk <= s.span[g] PROVE FALSE
      OBVIOUS
    <3>1. PICK m \in 1..MaxChunks - ChunkOf(g) : b = ChunkBegin(ChunkOf(g) + m)
      BY <1>1, <1>7, <1>8, GroupFacts
    <3> DEFINE e == ChunkOf(g) + m
    <3>2. ChunkOf(g) \in 0..MaxChunks - 1 /\ e \in Int
      BY <1>8, BlockPlace, Sizes
    <3>3. b = ChunkBegin(e)
      BY <3>1
    <3> HIDE DEF e
    <3>4. ChunkBegin(e) <= b /\ b < ChunkBegin(e) + ChunkBlocks
      BY <1>2, <3>3, Sizes
    <3>5. ChunkOf(b) = e
      BY <1>2, <3>2, <3>4, ChunkIs
    <3> QED
      BY <1>2, <3>3, <3>5
  <2>2. s.span[g] \in Nat \ {0}
    BY <1>1, <1>8, GroupFacts
  <2> QED
    BY <2>1, <2>2, Sizes
<1>10. g + s.span[g] = b
  BY <1>1, <1>7, <1>8, <1>9, Sizes, GroupFacts
<1>11. ChunkOf(g) = k
  <2>1. /\ s.span[g] <= BlocksPerChunk /\ p \in Int /\ g <= p /\ p < g + s.span[g]
    BY <1>2, <1>6, <1>9, <1>10, Sizes
  <2>2. ChunkOf(p) = ChunkOf(g)
    <3> HIDE DEF p
    <3> QED
      BY <1>1, <1>8, <2>1, GroupBlocks
  <2> QED
    BY <1>4, <2>2
<1>12. s.span[p] = s.span[g]
  <2>1. s.span[g] <= BlocksPerChunk
    BY <1>9, Sizes
  <2>2. s.span[g + s.span[g] - 1] = s.span[g]
    BY <1>8, <2>1 DEF IsGroup, IsTagged
  <2>3. g + s.span[g] - 1 = p
    BY <1>7, <1>9, <1>10, Sizes
  <2> HIDE DEF p
  <2> QED
    BY <2>2, <2>3
<1>13. g = (IF s.span[p] > 1 THEN b - s.span[p] ELSE p)
  BY <1>2, <1>7, <1>9, <1>10, <1>12
<1> QED
  BY <1>3, <1>7, <1>9, <1>10, <1>11, <1>13

\* A free group of less than a chunk, other than the one in hand, is in a free list.
LEMMA IsListed ==
    ASSUME NEW s, NEW kept, NEW b, Held(s, kept, b), NEW g \in Heads(s, kept \cup {b}),
           g # b, s.free[g], s.span[g] \in 1..BlocksPerChunk - 1
    PROVE  g \in InLists(s)
<1>1. g \notin kept /\ ListsMatch(s, kept \cup {b})
  BY DEF Held, Sound
<1>2. g \notin ToSet(s.chunks)
  BY <1>1, Sizes DEF ListsMatch
<1> QED
  BY <1>1, <1>2 DEF Heads

LEMMA HeldFacts ==
    ASSUME NEW s, NEW kept, NEW b, Held(s, kept, b)
    PROVE  /\ Sound(s, kept \cup {b}) /\ Merged(s) /\ b \notin kept /\ s.free[b]
           /\ b \in Heads(s, kept \cup {b}) /\ b \in Blocks /\ b \in Nat
           /\ s \in StateType /\ IsGroup(s, b)
           /\ InLists(s) \subseteq Heads(s, kept \cup {b})
           /\ \A w \in InLists(s) :
                /\ w # b /\ w \notin kept /\ w \in Nat /\ s.free[w]
                /\ s.span[w] \in 1..BlocksPerChunk - 1 /\ EndOf(s, w) = w + s.span[w]
<1> DEFINE out == kept \cup {b}
<1>1. Sound(s, out) /\ Merged(s) /\ b \notin kept /\ s.free[b] /\ b \in out /\ kept \subseteq out
  BY DEF Held
<1> HIDE DEF out
<1>2. /\ s \in StateType /\ InLists(s) \subseteq Heads(s, out) /\ out \subseteq Heads(s, out)
      /\ \A g \in Heads(s, out) : IsGroup(s, g)
      /\ Heads(s, out) \subseteq Blocks
  BY <1>1, SoundFacts
<1>3. b \in Blocks /\ b \in Nat
  BY <1>1, <1>2, BlockPlace
<1>4. ASSUME NEW w \in InLists(s)
      PROVE  /\ w \notin out /\ w \in Nat /\ s.free[w]
             /\ s.span[w] \in 1..BlocksPerChunk - 1 /\ EndOf(s, w) = w + s.span[w]
  <2>1. w \notin out /\ s.span[w] \in 1..BlocksPerChunk - 1
    BY <1>1 DEF Sound, ListsMatch, InLists
  <2>2. s.free[w]
    BY <1>1, <1>2, <2>1, FreeInLists
  <2>3. w \in Nat /\ EndOf(s, w) = w + s.span[w]
    BY <1>2, <2>1, GroupFacts, Sizes
  <2> QED
    BY <2>1, <2>2, <2>3
<1> QED
  BY <1>1, <1>2, <1>3, <1>4 DEF out

\* Group h is in hand after a step with s, and has no neighbour behind it.
HeldNext(s, r, kept, h) == Held(r, kept, h) /\ KeepsOut(s, r, kept) /\ NoNext(r, h)

LEMMA MergeNextFacts ==
    ASSUME NEW s, NEW kept, NEW b, Held(s, kept, b), s.span[b] < BlocksPerChunk,
           NEW r, r = MergeWithNext(s, b)
    PROVE  HeldNext(s, r, kept, b)
<1> DEFINE out == kept \cup {b}
           c == b + s.span[b]
<1>1. /\ Sound(s, out) /\ Merged(s) /\ b \notin kept /\ s.free[b]
      /\ b \in Heads(s, out) /\ b \in Blocks /\ b \in Nat
      /\ s \in StateType /\ IsGroup(s, b) /\ InLists(s) \subseteq Heads(s, out)
  BY HeldFacts
<1>2. \A w \in InLists(s) : w # b /\ w \notin kept /\ w \in Nat /\ s.free[w]
  BY HeldFacts
<1>3. /\ ListsMatch(s, out) /\ b \in out /\ s.span[b] \in Nat \ {0} /\ c \in Nat /\ b < c
      /\ BlocksPerChunk \in Nat /\ kept \subseteq Heads(s, out)
  BY <1>1, GroupFacts, Sizes DEF Sound, Heads
<1> HIDE DEF out
<1>4. CASE NextFreeBlock(s, b) = NoBlock
  <2>1. r = s
    BY <1>4 DEF MergeWithNext
  <2>2. NoNext(s, b)
    <3> SUFFICES ASSUME NEW w \in InLists(s), b + s.span[b] = w, ChunkOf(w) = ChunkOf(b) PROVE FALSE
      BY DEF NoNext
    <3>1. w \in Blocks /\ w \in Nat /\ s.free[w]
      BY <1>1, <1>2, SoundFacts
    <3>2. w < ChunkEnd(ChunkOf(b))
      BY <3>1, BlockPlace
    <3>3. NextFreeBlock(s, b) = w
      BY <3>1, <3>2 DEF NextFreeBlock
    <3> QED
      BY <1>4, <3>1, <3>3 DEF NoBlock
  <2> QED
    BY <2>1, <2>2 DEF HeldNext, KeepsOut, SameOut
<1>5. CASE NextFreeBlock(s, b) # NoBlock
  <2>1. c < ChunkEnd(ChunkOf(b)) /\ s.free[c] /\ NextFreeBlock(s, b) = c
    BY <1>5 DEF NextFreeBlock
  <2>2. r = SetupGroup(RemoveFromFreeList(s, c), b, s.span[b] + s.span[c])
    BY <1>5, <2>1 DEF MergeWithNext
  <2>3. c = b + s.span[b]
    OBVIOUS
  <2> HIDE DEF c
  <2>4. c \in Heads(s, out) /\ ChunkOf(c) = ChunkOf(b) /\ s.span[c] \in 1..BlocksPerChunk - 1
    BY <1>1, <2>1, <2>3, NextGroup
  <2>5. c \in InLists(s)
    <3>1. c # b
      BY <1>3
    <3> QED
      BY <2>1, <2>4, <3>1, IsListed DEF out
  <2>6. Merging(s, r, out, b, c, c)
    <3>1. s.span[c] < BlocksPerChunk
      BY <1>3, <2>4
    <3> QED
      BY <1>1, <1>3, <2>1, <2>2, <2>3, <2>5, <3>1 DEF Merging
  <2>7. MergedOne(s, r, out, b, c, c)
    BY <2>6, MergeGroups
  <2>8. /\ Sound(r, (out \cup {c}) \ {c})
        /\ r.span[b] = s.span[b] + s.span[c]
        /\ \A g \in Heads(s, out) \ {b, c} : r.span[g] = s.span[g]
        /\ r.free = s.free /\ r.chunks = s.chunks /\ InLists(r) = InLists(s) \ {c}
        /\ r.blocksAllocated = s.blocksAllocated
    BY <2>7 DEF MergedOne
  <2>9. (out \cup {c}) \ {c} = kept \cup {b} /\ c \notin kept /\ c # b
    BY <1>2, <2>5 DEF out
  <2>10. ToSet(s.chunks) \subseteq Heads(s, out) \ {b, c}
    <3>1. \A g \in ToSet(s.chunks) : g # b /\ g # c
      BY <1>3, <2>4 DEF ListsMatch
    <3> QED
      BY <3>1 DEF Heads
  <2>11. Merged(r)
    <3>1. \A g \in InLists(r) \cup ToSet(r.chunks) : r.span[g] = s.span[g]
      BY <1>1, <1>2, <2>8, <2>10
    <3>2. InLists(r) \subseteq InLists(s) /\ ToSet(r.chunks) \subseteq ToSet(s.chunks)
      BY <2>8
    <3> QED
      BY <1>1, <3>1, <3>2, MergedKept
  <2>12. KeepsOut(s, r, kept)
    BY <1>1, <1>3, <2>8, <2>9 DEF KeepsOut, SameOut
  <2>13. Held(r, kept, b)
    BY <1>1, <2>8, <2>9, <2>11 DEF Held
  <2>14. NoNext(r, b)
    <3> SUFFICES ASSUME NEW w \in InLists(r), b + r.span[b] = w PROVE ChunkOf(w) # ChunkOf(b)
      BY DEF NoNext
    <3>1. c + s.span[c] = w
      BY <1>1, <1>3, <2>3, <2>4, <2>8
    <3>2. w \in InLists(s)
      BY <2>8
    <3> QED
      BY <1>1, <2>4, <2>5, <3>1, <3>2 DEF Merged
  <2> QED
    BY <2>12, <2>13, <2>14 DEF HeldNext
<1> QED
  BY <1>4, <1>5

HeldAlone(s, r, kept, h) == HeldNext(s, r, kept, h) /\ NoPrevious(r, h)

LEMMA MergePreviousFacts ==
    ASSUME NEW s, NEW kept, NEW b, Held(s, kept, b), NoNext(s, b),
           NEW r, r = MergeWithPrevious(s, b),
           NEW h, h = (IF PreviousFreeBlock(s, b) = NoBlock THEN b ELSE PreviousFreeBlock(s, b))
    PROVE  HeldAlone(s, r, kept, h)
<1> DEFINE out == kept \cup {b}
           prev == IF s.span[b - 1] > 1 THEN b - s.span[b - 1] ELSE b - 1
<1>1. /\ Sound(s, out) /\ Merged(s) /\ b \notin kept /\ s.free[b]
      /\ b \in Heads(s, out) /\ b \in Blocks /\ b \in Nat
      /\ s \in StateType /\ IsGroup(s, b) /\ InLists(s) \subseteq Heads(s, out)
  BY HeldFacts
<1>2. \A w \in InLists(s) : /\ w # b /\ w \notin kept /\ w \in Nat /\ s.free[w]
                            /\ s.span[w] \in 1..BlocksPerChunk - 1 /\ EndOf(s, w) = w + s.span[w]
  BY HeldFacts
<1>3. /\ ListsMatch(s, out) /\ b \in out /\ s.span[b] \in Nat \ {0}
      /\ BlocksPerChunk \in Nat /\ kept \subseteq Heads(s, out)
      /\ ChunkOf(b) \in Int /\ ChunkBegin(ChunkOf(b)) \in Int
  <2>1. ListsMatch(s, out) /\ b \in out /\ kept \subseteq Heads(s, out)
    BY <1>1 DEF Sound, Heads
  <2>2. s.span[b] \in Nat \ {0}
    BY <1>1, GroupFacts
  <2>3. ChunkOf(b) \in Int
    BY <1>1, BlockPlace
  <2> QED
    BY <2>1, <2>2, <2>3, Sizes, ChunkEnds
<1>4. PreviousFreeBlock(s, b) = IF b > ChunkBegin(ChunkOf(b)) /\ s.free[prev] THEN prev ELSE NoBlock
  BY DEF PreviousFreeBlock
<1> HIDE DEF out, prev
<1>5. ASSUME ChunkBegin(ChunkOf(b)) < b
      PROVE  /\ prev \in Heads(s, out) /\ ChunkOf(prev) = ChunkOf(b)
             /\ prev + s.span[prev] = b /\ EndOf(s, prev) = b
             /\ s.span[prev] \in 1..BlocksPerChunk - 1 /\ s.span[b] \in 1..BlocksPerChunk - 1
  <2>1. \E g \in Heads(s, out) :
             /\ g = prev
             /\ ChunkOf(g) = ChunkOf(b) /\ g + s.span[g] = b /\ EndOf(s, g) = b
             /\ s.span[g] \in 1..BlocksPerChunk - 1 /\ s.span[b] \in 1..BlocksPerChunk - 1
    BY <1>1, <1>5, PreviousGroup DEF prev
  <2> QED
    BY <2>1
<1>6. CASE PreviousFreeBlock(s, b) = NoBlock
  <2>1. r = s /\ h = b
    BY <1>6 DEF MergeWithPrevious
  <2>2. NoPrevious(s, b)
    <3> SUFFICES ASSUME NEW w \in InLists(s), w + s.span[w] = b, ChunkOf(w) = ChunkOf(b) PROVE FALSE
      BY DEF NoPrevious
    <3>1. w \in Blocks /\ w \in Nat /\ s.free[w] /\ s.span[w] \in 1..BlocksPerChunk - 1
          /\ EndOf(s, w) = b /\ w \in Heads(s, out)
      BY <1>1, <1>2, SoundFacts
    <3>2. ChunkBegin(ChunkOf(b)) < b
      <4>1. ChunkBegin(ChunkOf(b)) <= w
        BY <3>1, BlockPlace
      <4> QED
        BY <1>1, <1>3, <3>1, <4>1
    <3>3. prev = w
      <4>1. prev \in Heads(s, out) /\ EndOf(s, prev) = EndOf(s, w)
        BY <1>5, <3>1, <3>2
      <4> QED
        BY <1>1, <3>1, <4>1, Apart
    <3>4. PreviousFreeBlock(s, b) = w
      BY <1>1, <1>3, <1>4, <3>1, <3>2, <3>3
    <3> QED
      BY <1>6, <3>1, <3>4 DEF NoBlock
  <2> QED
    BY <2>1, <2>2 DEF HeldAlone, HeldNext, KeepsOut, SameOut
<1>7. CASE PreviousFreeBlock(s, b) # NoBlock
  <2>1. ChunkBegin(ChunkOf(b)) < b /\ s.free[prev] /\ PreviousFreeBlock(s, b) = prev /\ h = prev
    BY <1>1, <1>3, <1>4, <1>7
  <2>2. r = SetupGroup(RemoveFromFreeList(s, prev), prev, s.span[prev] + s.span[b])
    BY <1>7, <2>1 DEF MergeWithPrevious
  <2>3. /\ prev \in Heads(s, out) /\ ChunkOf(prev) = ChunkOf(b)
        /\ prev + s.span[prev] = b /\ EndOf(s, prev) = b
        /\ s.span[prev] \in 1..BlocksPerChunk - 1 /\ s.span[b] \in 1..BlocksPerChunk - 1
    BY <1>5, <2>1
  <2>4. prev \in Nat /\ prev # b
    <3>1. prev \in Nat
      BY <1>1, <2>3, Apart
    <3> QED
      BY <1>1, <2>3, <3>1
  <2>5. prev \in InLists(s)
    BY <2>1, <2>3, <2>4, IsListed DEF out
  <2>6. Merging(s, r, out, prev, b, prev)
    <3>1. s.span[prev] < BlocksPerChunk /\ s.span[b] < BlocksPerChunk
      BY <1>3, <2>3
    <3>2. b < ChunkEnd(ChunkOf(prev))
      BY <1>1, <2>3, BlockPlace
    <3>3. b = prev + s.span[prev] /\ s.free[prev] /\ s.free[b]
      BY <1>1, <2>1, <2>3
    <3>4. prev \in out \cup {prev} /\ b \in out \cup {prev}
      BY <1>3
    <3> QED
      BY <1>1, <2>2, <2>5, <3>1, <3>2, <3>3, <3>4 DEF Merging
  <2>7. MergedOne(s, r, out, prev, b, prev)
    BY <2>6, MergeGroups
  <2>8. /\ Sound(r, (out \cup {prev}) \ {b})
        /\ r.span[prev] = s.span[prev] + s.span[b]
        /\ \A g \in Heads(s, out) \ {prev, b} : r.span[g] = s.span[g]
        /\ r.free = s.free /\ r.chunks = s.chunks /\ InLists(r) = InLists(s) \ {prev}
        /\ r.blocksAllocated = s.blocksAllocated
    BY <2>7 DEF MergedOne
  <2>9. (out \cup {prev}) \ {b} = kept \cup {prev} /\ prev \notin kept
    BY <1>1, <1>2, <2>4, <2>5 DEF out
  <2>10. ToSet(s.chunks) \subseteq Heads(s, out) \ {prev, b}
    <3>1. \A g \in ToSet(s.chunks) : g # b /\ g # prev
      BY <1>3, <2>3 DEF ListsMatch
    <3> QED
      BY <3>1 DEF Heads
  <2>11. \A g \in InLists(r) \cup ToSet(r.chunks) : r.span[g] = s.span[g]
    BY <1>1, <1>2, <2>8, <2>10
  <2>12. InLists(r) \subseteq InLists(s) /\ ToSet(r.chunks) \subseteq ToSet(s.chunks)
    BY <2>8
  <2>13. Merged(r)
    BY <1>1, <2>11, <2>12, MergedKept
  <2>14. KeepsOut(s, r, kept)
    BY <1>1, <1>3, <2>8, <2>9 DEF KeepsOut, SameOut
  <2>15. Held(r, kept, prev)
    <3>1. \A g \in kept : ~s.free[g]
      BY DEF Held
    <3> QED
      BY <2>1, <2>8, <2>9, <2>13, <3>1 DEF Held
  <2>16. NoNext(r, prev)
    <3> SUFFICES ASSUME NEW w \in InLists(r), prev + r.span[prev] = w PROVE ChunkOf(w) # ChunkOf(prev)
      BY DEF NoNext
    <3>1. b + s.span[b] = w
      BY <1>3, <2>3, <2>4, <2>8
    <3> QED
      BY <2>3, <2>12, <3>1 DEF NoNext
  <2>17. NoPrevious(r, prev)
    BY <1>1, <2>5, <2>11, <2>12 DEF NoPrevious, Merged
  <2> QED
    BY <2>1, <2>14, <2>15, <2>16, <2>17 DEF HeldAlone, HeldNext
<1> QED
  BY <1>6, <1>7

Freed(s, r, kept) == Sound(r, kept) /\ Merged(r) /\ KeepsOut(s, r, kept)

LEMMA PutBackFacts ==
    ASSUME NEW s, NEW kept, NEW b, Held(s, kept, b), NoNext(s, b), NoPrevious(s, b),
           s.span[b] < BlocksPerChunk, NEW r, r = AddToFreeList(s, b)
    PROVE  Freed(s, r, kept)
<1> DEFINE out == kept \cup {b}
<1>1. /\ Sound(s, out) /\ Merged(s) /\ b \notin kept /\ s.free[b] /\ b \in Nat /\ IsGroup(s, b)
      /\ s \in StateType
  BY HeldFacts
<1>2. b \in out /\ out \ {b} = kept
  BY <1>1
<1> HIDE DEF out
<1>3. Listed(s, r, out, b)
  BY <1>1, <1>2, PutInList
<1>4. /\ Sound(r, kept) /\ OnlyLists(s, r) /\ r.chunks = s.chunks
      /\ InLists(r) = InLists(s) \cup {b}
  BY <1>2, <1>3 DEF Listed
<1>5. r.span = s.span /\ r.free = s.free /\ r.blocksAllocated = s.blocksAllocated
  BY <1>4 DEF OnlyLists
<1>6. s.span[b] \in Nat \ {0}
  BY <1>1, GroupFacts
<1>7. Merged(r)
  <2>1. \A v, w \in InLists(r) : v + r.span[v] = w => ChunkOf(v) # ChunkOf(w)
    <3> SUFFICES ASSUME NEW v \in InLists(r), NEW w \in InLists(r), v + s.span[v] = w
                 PROVE  ChunkOf(v) # ChunkOf(w)
      BY <1>5
    <3>1. CASE v = b /\ w = b
      BY <1>1, <1>6, <3>1
    <3>2. CASE v = b /\ w # b
      BY <1>4, <3>2 DEF NoNext
    <3>3. CASE v # b /\ w = b
      BY <1>4, <3>3 DEF NoPrevious
    <3>4. CASE v # b /\ w # b
      BY <1>1, <1>4, <3>4 DEF Merged
    <3> QED
      BY <3>1, <3>2, <3>3, <3>4
  <2>2. \A v, w \in ToSet(r.chunks) : EndOf(r, v) # w
    BY <1>1, <1>4, <1>5 DEF Merged, EndOf
  <2> QED
    BY <2>1, <2>2 DEF Merged
<1> QED
  BY <1>4, <1>5, <1>7 DEF Freed, KeepsOut, SameOut

-----------------------------------------------------------------------------
(* Deallocation of whole chunks *)

LEMMA GroupsBeforeFacts ==
    ASSUME NEW s, s.chunks \in Seq(Blocks), NEW b \in Blocks
    PROVE  LET k == GroupsBefore(s, b) IN
           /\ k \in 0..Len(s.chunks) /\ \A j \in 1..k : s.chunks[j] < b
           /\ k < Len(s.chunks) => s.chunks[k + 1] >= b
<1> DEFINE list == s.chunks
           after == {j \in 1..Len(list) : list[j] >= b}
           Q(k) == (\A j \in 1..k : list[j] < b) /\ (k < Len(list) => list[k + 1] >= b)
<1>1. list \in Seq(Blocks) /\ Blocks \subseteq Nat /\ b \in Nat
  BY BlockPlace
<1> HIDE DEF list
<1>2. Len(list) \in Nat /\ \A j \in 1..Len(list) : list[j] \in Nat
  <2>1. Len(list) \in Nat /\ \A j \in 1..Len(list) : list[j] \in Blocks
    BY <1>1
  <2> QED
    BY <1>1, <2>1
<1>3. \E k \in 0..Len(list) : Q(k)
  <2>1. CASE after = {}
    <3>1. Q(Len(list))
      BY <1>1, <1>2, <2>1
    <3> QED
      BY <1>2, <3>1
  <2>2. CASE after # {}
    <3>1. after \subseteq Nat
      OBVIOUS
    <3> HIDE DEF after
    <3>2. PICK m \in after : \A y \in after : m <= y
      BY <2>2, <3>1, LeastNatural
    <3>3. m \in 1..Len(list) /\ list[m] >= b
      BY <3>2 DEF after
    <3>4. ASSUME NEW j \in 1..m - 1 PROVE list[j] < b
      <4>1. j \in 1..Len(list) /\ j < m
        BY <1>2, <3>3
      <4>2. j \notin after
        BY <3>2, <3>3, <4>1
      <4> QED
        BY <1>1, <1>2, <4>1, <4>2 DEF after
    <3>5. m - 1 \in 0..Len(list) /\ (m - 1) + 1 = m
      BY <1>2, <3>3
    <3>6. Q(m - 1)
      BY <3>3, <3>4, <3>5
    <3> QED
      BY <3>5, <3>6
  <2> QED
    BY <2>1, <2>2
<1>4. GroupsBefore(s, b) = CHOOSE k \in 0..Len(list) : Q(k)
  BY DEF GroupsBefore, list
<1> HIDE DEF Q
<1>5. GroupsBefore(s, b) \in 0..Len(list) /\ Q(GroupsBefore(s, b))
  BY <1>3, <1>4
<1> QED
  BY <1>5 DEF Q, list

LEMMA AdjoinsIs ==
    ASSUME NEW s \in StateType, NEW b, NEW c, IsGroup(s, b), IsGroup(s, c),
           BlocksPerChunk <= s.span[b], BlocksPerChunk <= s.span[c]
    PROVE  Adjoins(s, b, c) <=> EndOf(s, b) = c
<1>1. PICK m \in 1..MaxChunks - ChunkOf(b) : /\ s.span[b] = BlocksForChunks(m)
                                             /\ EndOf(s, b) = ChunkBegin(ChunkOf(b) + m)
  BY GroupFacts
<1>2. c = ChunkBegin(ChunkOf(c)) /\ b \in Blocks /\ c \in Blocks
  BY GroupFacts
<1>3. ChunkOf(b) \in Nat /\ ChunkOf(c) \in Nat /\ m \in Nat /\ 1 <= m
  <2>1. ChunkOf(b) \in 0..MaxChunks - 1 /\ ChunkOf(c) \in 0..MaxChunks - 1
    BY <1>2, BlockPlace
  <2> QED
    BY <2>1, Sizes
<1>4. ChunksForBlocks(s.span[b]) = m
  BY <1>1, <1>3, SpansOfChunks
<1> DEFINE d == ChunkOf(b) + m
           e == ChunkOf(c)
<1>5. Adjoins(s, b, c) <=> d = e
  BY <1>4 DEF Adjoins
<1>6. d \in Int /\ e \in Int
  BY <1>3
<1>7. EndOf(s, b) = ChunkBegin(d) /\ c = ChunkBegin(e)
  BY <1>1, <1>2
<1> HIDE DEF d, e
<1>8. ChunkBegin(d) = ChunkBegin(e) => d = e
  <2>1. ChunkBegin(d) \in Int /\ ChunkBegin(e) \in Int /\ ChunkBlocks \in Nat \ {0}
    <3>1. ChunkBegin(d) \in Int /\ ChunkBegin(e) \in Int
      BY <1>6, ChunkBegins
    <3>2. ChunkBlocks \in Nat \ {0}
      BY Sizes
    <3> QED
      BY <3>1, <3>2
  <2>2. /\ d < e => ChunkBegin(d) + ChunkBlocks <= ChunkBegin(e)
        /\ e < d => ChunkBegin(e) + ChunkBlocks <= ChunkBegin(d)
    BY <1>6, ChunkBegins
  <2> QED
    BY <1>6, <2>1, <2>2
<1> QED
  BY <1>5, <1>7, <1>8

\* The list of chunks does not matter to setupGroup.
LEMMA SetupCommutes ==
    ASSUME NEW s \in StateType, NEW list, NEW b, NEW n
    PROVE  /\ SetupGroup([s EXCEPT !.chunks = list], b, n)
                = [SetupGroup(s, b, n) EXCEPT !.chunks = list]
           /\ SetupGroup(s, b, n).chunks = s.chunks
BY DEF SetupGroup, StateType

LEMMA MergeCommutes ==
    ASSUME NEW s \in StateType, NEW list, NEW b, NEW c
    PROVE  /\ MergeChunkGroups([s EXCEPT !.chunks = list], b, c)
                = [MergeChunkGroups(s, b, c) EXCEPT !.chunks = list]
           /\ MergeChunkGroups(s, b, c).chunks = s.chunks
<1> DEFINE t == [s EXCEPT !.chunks = list]
           n == BlocksForChunks(ChunksForBlocks(s.span[b]) + ChunksForBlocks(s.span[c]))
<1>1. t.span = s.span
  BY DEF StateType
<1>2. MergeChunkGroups(s, b, c) = SetupGroup(s, b, n) /\ MergeChunkGroups(t, b, c) = SetupGroup(t, b, n)
  BY <1>1 DEF MergeChunkGroups
<1> HIDE DEF n
<1> QED
  BY <1>2, SetupCommutes

\* The group of chunks p, which stays in the list, and the one after it.
Extends(s, r, out, p, b) ==
    /\ Sound(s, out) /\ p \in ToSet(s.chunks) /\ b \in out /\ s.free[b]
    /\ BlocksPerChunk <= s.span[b] /\ EndOf(s, p) = b
    /\ r = MergeChunkGroups(s, p, b)

Extended(s, r, out, p, b) ==
    /\ Sound(r, out \ {b}) /\ r.chunks = s.chunks /\ r.lists = s.lists /\ r.free = s.free
    /\ r.blocksAllocated = s.blocksAllocated /\ BlocksPerChunk <= r.span[p] /\ p # b
    /\ EndOf(r, p) = EndOf(s, b) /\ \A g \in Heads(s, out) \ {p, b} : r.span[g] = s.span[g]

LEMMA ExtendChunks ==
    ASSUME NEW s, NEW r, NEW out, NEW p, NEW b, Extends(s, r, out, p, b)
    PROVE  Extended(s, r, out, p, b)
<1> DEFINE list == s.chunks
           rest == Without(s.chunks, p)
           s2 == [s EXCEPT !.chunks = rest]
           r2 == MergeChunkGroups(s2, p, b)
           out2 == out \cup {p}
           out3 == out2 \ {b}
<1>1. /\ Sound(s, out) /\ p \in ToSet(s.chunks) /\ b \in out /\ s.free[b]
      /\ BlocksPerChunk <= s.span[b] /\ EndOf(s, p) = b
      /\ r = MergeChunkGroups(s, p, b)
  BY DEF Extends
<1>2. s \in StateType /\ b \in Heads(s, out) /\ p \in Heads(s, out)
  BY <1>1, SoundFacts
<1>3. /\ OnlyLists(s, s2) /\ s2.lists = s.lists /\ s2.chunks = rest
      /\ Increasing(rest) /\ ToSet(rest) = ToSet(s.chunks) \ {p} /\ Increasing(s.chunks)
  BY <1>1, FreeChunksFacts
<1>4. s = [s2 EXCEPT !.chunks = list]
  BY <1>2 DEF StateType
<1> HIDE DEF s2, rest
<1>5. /\ Sound(s2, out2) /\ s.free[p] /\ p \notin out
      /\ BlocksPerChunk <= s.span[p] /\ s.span[p] \in Nat
  BY <1>1, <1>3, TakeFromChunks
<1>6. /\ s2.span = s.span /\ s2.free = s.free /\ s2.blocksAllocated = s.blocksAllocated
      /\ s2 \in StateType
  BY <1>3 DEF OnlyLists
<1>7. EndOf(s2, p) = EndOf(s, p) /\ EndOf(s2, b) = EndOf(s, b)
  BY <1>6 DEF EndOf
<1>8. p \in out2 /\ b \in out2
  BY <1>1
<1> HIDE DEF out2
<1>9. JoinsChunks(s2, r2, p, b)
  BY <1>1, <1>5, <1>6, <1>7 DEF JoinsChunks
<1>10. ChunksJoined(s2, r2, out2, p, b)
  BY <1>5, <1>8, <1>9, JoinChunks
<1>11. r = [r2 EXCEPT !.chunks = list]
  <2>1. MergeChunkGroups([s2 EXCEPT !.chunks = list], p, b) = [r2 EXCEPT !.chunks = list]
    BY <1>6, MergeCommutes
  <2> QED
    BY <1>1, <1>4, <2>1
<1>12. r2.chunks = s2.chunks
  BY <1>6, MergeCommutes
<1> HIDE DEF r2
<1>13. /\ Regrouped(s2, r2, out2, {p, b}, {p}) /\ OnlySpans(s2, r2) /\ p # b
       /\ BlocksPerChunk <= r2.span[p] /\ EndOf(r2, p) = EndOf(s2, b)
  BY <1>10 DEF ChunksJoined
<1>14. /\ r2 \in StateType /\ r2.free = s.free /\ r2.lists = s.lists
       /\ r2.blocksAllocated = s.blocksAllocated
  BY <1>3, <1>6, <1>13 DEF OnlySpans
<1>15. /\ Sound(r2, out3)
       /\ \A g \in Heads(s2, out2) \ {p, b} : r2.span[g] = s2.span[g]
  <2>1. (out2 \ {p, b}) \cup {p} = out3
    BY <1>8, <1>13
  <2> QED
    BY <1>13, <2>1 DEF Regrouped
<1>16. list \in Seq(Blocks)
  BY <1>2, StateFields
<1>17. OnlyLists(r2, r) /\ r.lists = r2.lists /\ r.chunks = list
  <2> HIDE DEF list
  <2> QED
    BY <1>11, <1>14, <1>16 DEF OnlyLists, StateType
<1>18. p \in out3 /\ out3 \ {p} = out \ {b}
  BY <1>5, <1>8, <1>13 DEF out2
<1> HIDE DEF out3
<1>19. Sound(r, out3 \ {p})
  <2>1. r2.free[p]
    BY <1>5, <1>14
  <2>2. ToSet(r.chunks) = ToSet(r2.chunks) \cup {p} /\ Increasing(r.chunks)
    BY <1>1, <1>3, <1>12, <1>17
  <2> QED
    BY <1>13, <1>15, <1>17, <1>18, <2>1, <2>2, PutInChunks
<1>20. r.span = r2.span /\ r.free = r2.free /\ r.blocksAllocated = r2.blocksAllocated
  BY <1>17 DEF OnlyLists
<1>21. EndOf(r, p) = EndOf(s, b)
  BY <1>7, <1>13, <1>20 DEF EndOf
<1>22. Heads(s2, out2) = Heads(s, out)
  BY <1>1, <1>3 DEF Heads, InLists, out2
<1> QED
  BY <1>6, <1>13, <1>14, <1>15, <1>17, <1>18, <1>19, <1>20, <1>21, <1>22 DEF Extended

\* Group b of whole chunks is in the list, as a part of g, which is before it
\* or b itself.  No group in the list ends where g begins.
Added(s, t, kept, b, g) ==
    /\ Sound(t, kept) /\ t.free = s.free /\ t.lists = s.lists
    /\ t.blocksAllocated = s.blocksAllocated
    /\ ToSet(t.chunks) = ToSet(s.chunks) \cup {g}
    /\ g <= b /\ BlocksPerChunk <= t.span[g] /\ EndOf(t, g) = EndOf(s, b)
    /\ \A h \in Heads(s, kept \cup {b}) \ {g, b} : t.span[h] = s.span[h]
    /\ \A h \in ToSet(t.chunks) : EndOf(t, h) # g

LEMMA AddChunks ==
    ASSUME NEW s, NEW kept, NEW b, Held(s, kept, b), BlocksPerChunk <= s.span[b],
           NEW k, k = GroupsBefore(s, b),
           NEW joins, joins = (k > 0 /\ Adjoins(s, s.chunks[k], b)),
           NEW g, g = (IF joins THEN s.chunks[k] ELSE b),
           NEW t, t = (IF joins THEN MergeChunkGroups(s, g, b)
                       ELSE [s EXCEPT !.chunks = InsertAt(@, k + 1, b)])
    PROVE  Added(s, t, kept, b, g) /\ k \in 0..Len(s.chunks) /\ \A j \in 1..k : s.chunks[j] < b
<1> DEFINE out == kept \cup {b}
           list == s.chunks
<1>1. /\ Sound(s, out) /\ Merged(s) /\ b \notin kept /\ s.free[b]
      /\ b \in Heads(s, out) /\ b \in Blocks /\ b \in Nat /\ s \in StateType /\ IsGroup(s, b)
  BY HeldFacts
<1>2. b \in out /\ out \ {b} = kept
  BY <1>1
<1>3. list \in Seq(Blocks) /\ Increasing(list) /\ b \notin ToSet(list) /\ Blocks \subseteq Nat
      /\ \A u \in ToSet(list) : BlocksPerChunk <= s.span[u]
  <2>1. ListsMatch(s, out)
    BY <1>1 DEF Sound
  <2>2. \A u \in ToSet(list) : s.span[u] >= BlocksPerChunk /\ s.span[u] \in Nat
    BY <1>1, <2>1, SoundFacts, GroupFacts DEF ListsMatch
  <2> QED
    BY <1>1, <1>2, <2>1, <2>2, StateFields, BlockPlace, Sizes DEF ListsMatch
<1>4. /\ k \in 0..Len(list) /\ \A j \in 1..k : list[j] < b
      /\ k < Len(list) => list[k + 1] >= b
  BY <1>1, <1>3, GroupsBeforeFacts
<1> HIDE DEF out
<1>5. \A u \in ToSet(list) : u \in Heads(s, out) /\ IsGroup(s, u)
  BY <1>1, SoundFacts
<1>6. \A u \in ToSet(list) : Adjoins(s, u, b) <=> EndOf(s, u) = b
  BY <1>1, <1>3, <1>5, AdjoinsIs
<1>7. CASE joins
  <2>1. k \in 1..Len(list) /\ g = list[k] /\ t = MergeChunkGroups(s, g, b) /\ g < b
    <3>1. k \in 1..Len(list)
      <4>1. Len(list) \in Nat
        BY <1>3
      <4>2. k > 0
        BY <1>7, Zenon
      <4> HIDE DEF list
      <4> QED
        BY <1>4, <4>1, <4>2
    <3>2. k \in 1..k
      BY <3>1
    <3> QED
      BY <1>4, <1>7, <3>1, <3>2
  <2>2. g \in ToSet(list)
    <3> HIDE DEF list
    <3> QED
      BY <1>3, <2>1 DEF ToSet
  <2>3. EndOf(s, g) = b
    BY <1>6, <1>7, <2>1, <2>2
  <2>4. Extends(s, t, out, g, b)
    BY <1>1, <1>2, <2>1, <2>2, <2>3 DEF Extends
  <2>5. Extended(s, t, out, g, b)
    BY <2>4, ExtendChunks
  <2>6. /\ Sound(t, kept) /\ t.chunks = list /\ t.lists = s.lists /\ t.free = s.free
        /\ t.blocksAllocated = s.blocksAllocated /\ BlocksPerChunk <= t.span[g] /\ g # b
        /\ EndOf(t, g) = EndOf(s, b) /\ \A h \in Heads(s, out) \ {g, b} : t.span[h] = s.span[h]
    BY <1>2, <2>5 DEF Extended
  <2>7. ASSUME NEW h \in ToSet(t.chunks) PROVE EndOf(t, h) # g
    <3>1. CASE h = g
      <4>1. g \in ToSet(t.chunks)
        BY <2>2, <2>6
      <4>2. g \in Heads(t, kept)
        BY <2>6, <4>1, SoundFacts
      <4>3. g \in Nat /\ g < EndOf(t, g)
        BY <2>6, <4>2, Apart
      <4> QED
        BY <3>1, <4>3
    <3>2. CASE h # g
      <4>1. h \in ToSet(list) /\ h \in Heads(s, out) \ {g, b}
        BY <1>3, <1>5, <2>6, <3>2
      <4>2. EndOf(t, h) = EndOf(s, h)
        BY <2>6, <4>1 DEF EndOf
      <4> QED
        BY <1>1, <2>2, <4>1, <4>2 DEF Merged
    <3> QED
      BY <3>1, <3>2
  <2>8. ToSet(t.chunks) = ToSet(s.chunks) \cup {g}
    BY <2>2, <2>6
  <2>9. g <= b
    BY <1>1, <1>3, <2>1, <2>3, <2>2, <1>5, Apart
  <2> QED
    BY <1>4, <2>6, <2>7, <2>8, <2>9 DEF Added, out
<1>8. CASE ~joins
  <2> DEFINE longer == InsertAt(list, k + 1, b)
  <2>1. g = b /\ t = [s EXCEPT !.chunks = longer]
    BY <1>8
  <2>2. longer \in Seq(Blocks) /\ ToSet(longer) = ToSet(list) \cup {b} /\ Increasing(longer)
    <3>1. Blocks \in SUBSET Int
      BY <1>3
    <3> HIDE DEF list
    <3> QED
      BY <1>1, <1>3, <1>4, <3>1, InsertFacts
  <2> HIDE DEF longer
  <2>3. OnlyLists(s, t) /\ t.lists = s.lists /\ t.chunks = longer
    BY <1>1, <2>1, <2>2 DEF OnlyLists, StateType
  <2>4. Sound(t, kept)
    <3>1. Increasing(t.chunks) /\ ToSet(t.chunks) = ToSet(s.chunks) \cup {b}
      BY <2>2, <2>3
    <3>2. Sound(t, out \ {b})
      BY <1>1, <1>2, <2>3, <3>1, PutInChunks
    <3> QED
      BY <1>2, <3>2
  <2>5. t.span = s.span /\ t.free = s.free /\ t.blocksAllocated = s.blocksAllocated
    BY <2>3 DEF OnlyLists
  <2>6. \A u : EndOf(t, u) = EndOf(s, u)
    BY <2>5 DEF EndOf
  <2>7. ASSUME NEW h \in ToSet(t.chunks), EndOf(s, h) = b PROVE FALSE
    <3>1. h \in Heads(s, out)
      BY <1>1, <1>5, <2>2, <2>3, <2>7
    <3>2. h \in Nat /\ h < b
      BY <1>1, <2>7, <3>1, Apart
    <3>3. h \in ToSet(list)
      BY <2>2, <2>3, <3>2, <1>1
    <3>4. PICK j \in 1..Len(list) : list[j] = h
      <4> HIDE DEF list
      <4> QED
        BY <1>3, <3>3 DEF ToSet
    <3>5. Len(list) \in Nat /\ j \in Nat /\ k \in Nat /\ k <= Len(list) /\ DOMAIN list = 1..Len(list)
      <4>1. Len(list) \in Nat /\ DOMAIN list = 1..Len(list)
        <5> HIDE DEF list
        <5> QED
          BY <1>3
      <4> QED
        BY <1>4, <4>1
    <3>6. j <= k
      <4> SUFFICES ASSUME k < j PROVE FALSE
        BY <3>5
      <4>1. k + 1 \in 1..Len(list) /\ k < Len(list) /\ k + 1 <= j
        BY <3>5
      <4>2. list[k + 1] >= b /\ list[k + 1] \in Nat
        <5>1. list[k + 1] \in Blocks
          <6> HIDE DEF list
          <6> QED
            BY <1>3, <4>1
        <5> QED
          BY <1>3, <1>4, <4>1, <5>1
      <4>3. k + 1 < j => list[k + 1] < list[j]
        BY <1>3, <3>5, <4>1 DEF Increasing
      <4> HIDE DEF list
      <4> QED
        BY <1>1, <3>2, <3>4, <3>5, <4>1, <4>2, <4>3
    <3>7. k \in 1..Len(list) /\ k > 0
      BY <3>5, <3>6
    <3> DEFINE last == list[k]
    <3>8. last \in ToSet(list) /\ last < b
      <4>1. k \in 1..k
        BY <3>5, <3>7
      <4>2. last < b
        BY <1>4, <4>1
      <4>3. last \in ToSet(list)
        BY <3>5, <3>7 DEF ToSet
      <4> QED
        BY <4>2, <4>3
    <3>9. j < k => h < last
      BY <1>3, <3>4, <3>5, <3>7 DEF Increasing
    <3> HIDE DEF last
    <3>10. last \in Nat /\ (h < last => EndOf(s, h) <= last)
      BY <1>1, <1>5, <3>1, <3>8, Apart
    <3>11. j = k
      BY <1>1, <2>7, <3>5, <3>6, <3>8, <3>9, <3>10
    <3>12. Adjoins(s, list[k], b)
      BY <1>6, <2>7, <3>3, <3>4, <3>11
    <3> QED
      BY <1>8, <3>7, <3>12
  <2>8. \A h \in ToSet(t.chunks) : EndOf(t, h) # g
    BY <2>1, <2>6, <2>7
  <2>9. ToSet(t.chunks) = ToSet(s.chunks) \cup {g}
    BY <2>1, <2>2, <2>3
  <2> QED
    BY <1>1, <1>4, <2>1, <2>3, <2>4, <2>5, <2>6, <2>8, <2>9 DEF Added
<1> QED
  BY <1>7, <1>8

LEMMA FreeChunkGroupFacts ==
    ASSUME NEW s, NEW kept, NEW b, Held(s, kept, b), BlocksPerChunk <= s.span[b],
           NEW r, r = FreeChunkGroup(s, b)
    PROVE  Freed(s, r, kept)
<1> DEFINE out == kept \cup {b}
           k == GroupsBefore(s, b)
           joins == k > 0 /\ Adjoins(s, s.chunks[k], b)
           g == IF joins THEN s.chunks[k] ELSE b
           t == IF joins THEN MergeChunkGroups(s, g, b)
                ELSE [s EXCEPT !.chunks = InsertAt(@, k + 1, b)]
           c == s.chunks[k + 1]
           both == k < Len(s.chunks) /\ Adjoins(t, g, c)
           u == [MergeChunkGroups(t, g, c) EXCEPT !.chunks = Without(@, c)]
<1>1. r = IF both THEN u ELSE t
  BY DEF FreeChunkGroup
<1>2. Added(s, t, kept, b, g) /\ k \in 0..Len(s.chunks) /\ \A j \in 1..k : s.chunks[j] < b
  BY AddChunks
<1>3. s.chunks \in Seq(Blocks) /\ b \in Blocks
  BY HeldFacts, StateFields
<1>4. k < Len(s.chunks) => c >= b
  BY <1>3, GroupsBeforeFacts
<1> HIDE DEF k, joins, g, t, c, u, both
<1>5. /\ Sound(s, out) /\ Merged(s) /\ b \notin kept /\ s.free[b]
      /\ b \in Heads(s, out) /\ b \in Nat /\ s \in StateType /\ IsGroup(s, b)
      /\ \A w \in InLists(s) : w # b
  BY HeldFacts
<1>6. /\ Sound(t, kept) /\ t.free = s.free /\ t.lists = s.lists
      /\ t.blocksAllocated = s.blocksAllocated
      /\ ToSet(t.chunks) = ToSet(s.chunks) \cup {g}
      /\ g <= b /\ BlocksPerChunk <= t.span[g] /\ EndOf(t, g) = EndOf(s, b)
      /\ \A h \in Heads(s, out) \ {g, b} : t.span[h] = s.span[h]
      /\ \A h \in ToSet(t.chunks) : EndOf(t, h) # g
  BY <1>2 DEF Added
<1>7. b \in out /\ kept \subseteq Heads(s, out) /\ InLists(s) \subseteq Heads(s, out)
      /\ ToSet(s.chunks) \subseteq Heads(s, out)
  BY DEF Heads
<1> HIDE DEF out
<1>8. ListsMatch(s, out) /\ ListsMatch(t, kept) /\ InLists(t) = InLists(s)
  BY <1>5, <1>6 DEF Sound, InLists
<1>9. \A h \in ToSet(t.chunks) : h \notin kept /\ BlocksPerChunk <= t.span[h] /\ h \notin InLists(t)
  <2> SUFFICES ASSUME NEW h \in ToSet(t.chunks)
               PROVE  h \notin kept /\ BlocksPerChunk <= t.span[h] /\ h \notin InLists(t)
    OBVIOUS
  <2>1. h \notin kept /\ t.span[h] >= BlocksPerChunk
    BY <1>8 DEF ListsMatch
  <2>2. t.span[h] \in Nat /\ BlocksPerChunk \in Nat
    <3>1. IsGroup(t, h) /\ t \in StateType
      BY <1>6, SoundFacts
    <3> QED
      BY <3>1, GroupFacts, Sizes
  <2>3. h \notin InLists(t)
    <3>1. \A w \in InLists(t) : t.span[w] \in 1..BlocksPerChunk - 1
      BY <1>8 DEF ListsMatch, InLists
    <3> QED
      BY <2>1, <2>2, <3>1
  <2> QED
    BY <2>1, <2>2, <2>3
<1>10. \A h \in ToSet(s.chunks) : h # b /\ (h # g => t.span[h] = s.span[h] /\ EndOf(t, h) = EndOf(s, h))
  <2>1. \A h \in ToSet(s.chunks) : h # b
    BY <1>7, <1>8 DEF ListsMatch
  <2> QED
    BY <1>6, <1>7, <2>1 DEF EndOf
<1>11. g \in ToSet(t.chunks)
  BY <1>6
<1>12. \A w \in InLists(s) \cup kept : t.span[w] = s.span[w]
  BY <1>5, <1>6, <1>7, <1>8, <1>9, <1>11
<1>13. SameOut(s, t, kept)
  BY <1>6, <1>12 DEF SameOut
<1>14. \A v, w \in InLists(s) : v + s.span[v] = w => ChunkOf(v) # ChunkOf(w)
  BY <1>5 DEF Merged
<1>15. \A v, w \in ToSet(s.chunks) : EndOf(s, v) # w
  BY <1>5 DEF Merged
<1>16. /\ Len(s.chunks) \in Nat /\ DOMAIN s.chunks = 1..Len(s.chunks) /\ k \in Nat
       /\ \A j \in 1..Len(s.chunks) : s.chunks[j] \in ToSet(s.chunks) /\ s.chunks[j] \in Nat
  <2> DEFINE list == s.chunks
  <2>1. list \in Seq(Blocks) /\ \A x \in Blocks : x \in Nat
    BY <1>3, BlockPlace
  <2> HIDE DEF list
  <2>2. /\ Len(list) \in Nat /\ DOMAIN list = 1..Len(list)
        /\ \A j \in 1..Len(list) : list[j] \in ToSet(list) /\ list[j] \in Nat
    BY <2>1 DEF ToSet
  <2>3. k \in Nat
    BY <1>2, <2>2 DEF list
  <2> QED
    BY <2>2, <2>3 DEF list
<1>17. ASSUME k < Len(s.chunks)
       PROVE  c \in ToSet(s.chunks) /\ c \in ToSet(t.chunks) /\ c \in Nat /\ b < c /\ c # g
              /\ (Adjoins(t, g, c) <=> EndOf(t, g) = c)
  <2>1. k + 1 \in 1..Len(s.chunks)
    BY <1>16, <1>17
  <2>2. c \in ToSet(s.chunks) /\ c \in Nat
    BY <1>16, <2>1 DEF c
  <2>3. b < c
    BY <1>4, <1>5, <1>10, <1>17, <2>2
  <2>4. c \in ToSet(t.chunks)
    BY <1>6, <2>2
  <2>5. IsGroup(t, g) /\ IsGroup(t, c) /\ t \in StateType /\ g \in Nat
    <3>1. IsGroup(t, g) /\ IsGroup(t, c) /\ t \in StateType
      BY <1>6, <1>11, <2>4, SoundFacts
    <3> QED
      BY <3>1, GroupFacts
  <2>6. Adjoins(t, g, c) <=> EndOf(t, g) = c
    BY <1>9, <1>11, <2>4, <2>5, AdjoinsIs
  <2>7. c # g
    BY <1>5, <1>6, <2>2, <2>3, <2>5
  <2> QED
    BY <2>2, <2>3, <2>4, <2>6, <2>7
<1>18. CASE both
  <2>1. /\ k < Len(s.chunks) /\ c \in ToSet(s.chunks) /\ c \in ToSet(t.chunks) /\ c # g
        /\ EndOf(t, g) = c
    BY <1>17, <1>18 DEF both
  <2> DEFINE rest == Without(t.chunks, c)
             t2 == [t EXCEPT !.chunks = rest]
             out2 == kept \cup {c}
  <2>2. /\ OnlyLists(t, t2) /\ t2.lists = t.lists /\ t2.chunks = rest
        /\ Increasing(rest) /\ ToSet(rest) = ToSet(t.chunks) \ {c}
    BY <1>6, <2>1, FreeChunksFacts
  <2>3. r = MergeChunkGroups(t2, g, c)
    <3>1. t \in StateType
      BY <1>6, SoundFacts
    <3>2. MergeChunkGroups(t, g, c).chunks = t.chunks
      BY <3>1, MergeCommutes
    <3> DEFINE m == MergeChunkGroups(t, g, c)
    <3>3. [m EXCEPT !.chunks = Without(@, c)] = [m EXCEPT !.chunks = Without(m.chunks, c)]
      OBVIOUS
    <3>4. u = [m EXCEPT !.chunks = rest]
      BY <3>2, <3>3 DEF u
    <3>5. MergeChunkGroups(t2, g, c) = [m EXCEPT !.chunks = rest]
      <4> HIDE DEF rest
      <4> QED
        BY <3>1, MergeCommutes
    <3> QED
      BY <1>1, <1>18, <3>4, <3>5
  <2> HIDE DEF t2, rest
  <2>4. /\ Sound(t2, out2) /\ t.free[c] /\ c \notin kept
        /\ BlocksPerChunk <= t.span[c] /\ t.span[c] \in Nat
    BY <1>6, <2>1, <2>2, TakeFromChunks
  <2>5. t2.span = t.span /\ t2.free = t.free /\ t2.blocksAllocated = t.blocksAllocated
    BY <2>2 DEF OnlyLists
  <2>6. \A h : EndOf(t2, h) = EndOf(t, h)
    BY <2>5 DEF EndOf
  <2>7. c \in out2 /\ out2 \ {c} = kept
    BY <2>4
  <2>8. Heads(t2, out2) = Heads(t, kept)
    BY <2>1, <2>2 DEF Heads, InLists
  <2> HIDE DEF out2
  <2>9. Extends(t2, r, out2, g, c)
    <3>1. g \in ToSet(t2.chunks)
      BY <1>11, <2>1, <2>2
    <3> QED
      BY <2>1, <2>3, <2>4, <2>5, <2>6, <2>7, <3>1 DEF Extends
  <2>10. Extended(t2, r, out2, g, c)
    BY <2>9, ExtendChunks
  <2>11. /\ Sound(r, kept) /\ r.chunks = t2.chunks /\ r.lists = t2.lists /\ r.free = t2.free
         /\ r.blocksAllocated = t2.blocksAllocated
         /\ EndOf(r, g) = EndOf(t, c) /\ \A h \in Heads(t, kept) \ {g, c} : r.span[h] = t.span[h]
    BY <2>5, <2>6, <2>7, <2>8, <2>10 DEF Extended
  <2>12. InLists(r) = InLists(s) /\ ToSet(r.chunks) = ToSet(t.chunks) \ {c}
    BY <1>8, <2>2, <2>11 DEF InLists
  <2>13. \A h \in InLists(s) \cup kept \cup (ToSet(t.chunks) \ {g, c}) : r.span[h] = t.span[h]
    <3>1. \A h \in InLists(s) \cup kept : h # g /\ h # c
      BY <1>8, <1>9, <1>11, <2>1
    <3>2. InLists(s) \cup kept \cup ToSet(t.chunks) \subseteq Heads(t, kept)
      BY <1>8 DEF Heads
    <3> QED
      BY <2>11, <3>1, <3>2
  <2>14. \A v, w \in InLists(r) : v + r.span[v] = w => ChunkOf(v) # ChunkOf(w)
    <3>1. \A v \in InLists(s) : r.span[v] = s.span[v]
      BY <1>12, <2>13
    <3> QED
      BY <1>14, <2>12, <3>1
  <2>15. ASSUME NEW v \in ToSet(r.chunks), NEW w \in ToSet(r.chunks) PROVE EndOf(r, v) # w
    <3>1. v \in ToSet(t.chunks) /\ v # c /\ w \in ToSet(t.chunks) /\ w # c
      BY <2>12
    <3>2. CASE v = g
      <4>1. EndOf(r, v) = EndOf(t, c)
        BY <2>11, <3>2
      <4>2. EndOf(t, c) = EndOf(s, c)
        BY <1>10, <2>1
      <4>3. w = g \/ w \in ToSet(s.chunks)
        BY <1>6, <3>1
      <4> QED
        BY <1>6, <1>15, <2>1, <4>1, <4>2, <4>3
    <3>3. CASE v # g
      <4>1. EndOf(r, v) = EndOf(t, v)
        BY <2>13, <3>1, <3>3 DEF EndOf
      <4>2. v \in ToSet(s.chunks)
        BY <1>6, <3>1, <3>3
      <4>3. EndOf(t, v) = EndOf(s, v)
        BY <1>10, <3>3, <4>2
      <4>4. w = g \/ w \in ToSet(s.chunks)
        BY <1>6, <3>1
      <4> QED
        BY <1>6, <1>15, <3>1, <4>1, <4>2, <4>3, <4>4
    <3> QED
      BY <3>2, <3>3
  <2>16. Merged(r)
    BY <2>14, <2>15 DEF Merged
  <2>17. KeepsOut(s, r, kept)
    BY <1>6, <1>12, <2>5, <2>11, <2>13 DEF KeepsOut, SameOut
  <2> QED
    BY <2>11, <2>16, <2>17 DEF Freed
<1>19. CASE ~both
  <2>1. r = t
    BY <1>1, <1>19
  <2>2. ASSUME NEW v \in ToSet(s.chunks), EndOf(s, b) = v PROVE FALSE
    <3>1. b < EndOf(s, b)
      BY <1>5, Apart
    <3>2. PICK j \in 1..Len(s.chunks) : s.chunks[j] = v
      BY <1>16 DEF ToSet
    <3>3. j \in Nat /\ v \in Nat
      BY <1>16, <3>2
    <3>4. k < j
      <4> SUFFICES ASSUME j <= k PROVE FALSE
        BY <1>16, <3>3
      <4>1. j \in 1..k
        BY <1>16, <3>2, <3>3
      <4> QED
        BY <1>2, <1>5, <2>2, <3>1, <3>2, <3>3, <4>1
    <3>5. k < Len(s.chunks) /\ k + 1 <= j /\ k + 1 \in DOMAIN s.chunks /\ j \in DOMAIN s.chunks
      BY <1>16, <3>2, <3>3, <3>4
    <3>6. c \in ToSet(s.chunks) /\ c \in Nat /\ b < c /\ (Adjoins(t, g, c) <=> EndOf(t, g) = c)
      BY <1>17, <3>5
    <3>7. EndOf(s, b) <= c
      BY <1>5, <1>7, <3>6, Apart
    <3>8. k + 1 < j => c < v
      BY <1>8, <3>2, <3>5 DEF ListsMatch, Increasing, c
    <3>9. k + 1 = j
      BY <1>16, <2>2, <3>3, <3>5, <3>6, <3>7, <3>8
    <3>10. c = v
      BY <3>2, <3>9 DEF c
    <3> QED
      BY <1>6, <1>19, <2>2, <3>5, <3>6, <3>10 DEF both
  <2>3. ASSUME NEW v \in ToSet(t.chunks), NEW w \in ToSet(t.chunks) PROVE EndOf(t, v) # w
    <3>1. w = g \/ w \in ToSet(s.chunks)
      BY <1>6
    <3>2. CASE v = g
      BY <1>6, <2>2, <3>1, <3>2
    <3>3. CASE v # g
      <4>1. v \in ToSet(s.chunks)
        BY <1>6, <3>3
      <4>2. EndOf(t, v) = EndOf(s, v)
        BY <1>10, <3>3, <4>1
      <4> QED
        BY <1>6, <1>15, <3>1, <4>1, <4>2
    <3> QED
      BY <3>2, <3>3
  <2>4. Merged(t)
    BY <1>8, <1>12, <1>14, <2>3 DEF Merged
  <2>5. KeepsOut(s, t, kept)
    BY <1>6, <1>13 DEF KeepsOut
  <2> QED
    BY <1>6, <2>1, <2>4, <2>5 DEF Freed
<1> QED
  BY <1>18, <1>19

-----------------------------------------------------------------------------
(* Deallocation *)

Deallocated(s, r, out, b) ==
    /\ Sound(r, out \ {b}) /\ Merged(r) /\ SameOut(s, r, out \ {b})
    /\ r.blocksAllocated = s.blocksAllocated - s.span[b]

LEMMA DeallocateFacts ==
    ASSUME NEW s, NEW out, Sound(s, out), Merged(s), \A g \in out : ~s.free[g], NEW b \in out,
           NEW r, r = DeallocateBlock(s, b)
    PROVE  Deallocated(s, r, out, b)
<1> DEFINE kept == out \ {b}
           back == Reclaim(s, b)
           longer == MergeWithNext(back, b)
           merged == MergeWithPrevious(longer, b)
           group == IF PreviousFreeBlock(longer, b) = NoBlock THEN b
                    ELSE PreviousFreeBlock(longer, b)
<1>1. r = IF s.span[b] >= BlocksPerChunk THEN FreeChunkGroup(back, b)
          ELSE IF merged.span[group] >= BlocksPerChunk THEN FreeChunkGroup(merged, group)
          ELSE AddToFreeList(merged, group)
  BY DEF DeallocateBlock
<1>2. Reclaimed(s, back, out, b)
  BY ReclaimFacts
<1>3. kept \cup {b} = out /\ b \notin kept /\ kept \subseteq out
  OBVIOUS
<1>4. out \subseteq Blocks /\ IsGroup(s, b) /\ s \in StateType
  BY SoundFacts
<1> HIDE DEF kept, back, longer, merged, group
<1>5. /\ Sound(back, out) /\ back.span = s.span /\ back.lists = s.lists /\ back.chunks = s.chunks
      /\ back.free[b] /\ \A g \in Blocks \ {b} : back.free[g] = s.free[g]
      /\ back.blocksAllocated = s.blocksAllocated - s.span[b]
  BY <1>2 DEF Reclaimed
<1>6. Merged(back)
  <2>1. InLists(back) = InLists(s)
    BY <1>5 DEF InLists
  <2> QED
    BY <1>5, <2>1, MergedKept
<1>7. \A g \in kept : g \in Blocks /\ g # b /\ back.free[g] = s.free[g]
  BY <1>3, <1>4, <1>5
<1>8. Held(back, kept, b)
  <2>1. \A g \in kept : ~back.free[g]
    BY <1>3, <1>7
  <2> QED
    BY <1>3, <1>5, <1>6, <2>1 DEF Held
<1>9. s.span[b] \in Nat /\ BlocksPerChunk \in Nat
  BY <1>4, GroupFacts, Sizes
<1>10. Freed(back, r, kept)
  <2>1. CASE s.span[b] >= BlocksPerChunk
    <3>1. BlocksPerChunk <= back.span[b] /\ r = FreeChunkGroup(back, b)
      BY <1>1, <1>5, <1>9, <2>1
    <3> QED
      BY <1>8, <3>1, FreeChunkGroupFacts
  <2>2. CASE ~(s.span[b] >= BlocksPerChunk)
    <3>1. back.span[b] < BlocksPerChunk
      BY <1>5, <1>9, <2>2
    <3>2. HeldNext(back, longer, kept, b)
      BY <1>8, <3>1, MergeNextFacts DEF longer
    <3>3. Held(longer, kept, b) /\ KeepsOut(back, longer, kept) /\ NoNext(longer, b)
      BY <3>2 DEF HeldNext
    <3>4. HeldAlone(longer, merged, kept, group)
      BY <3>3, MergePreviousFacts DEF merged, group
    <3>5. /\ Held(merged, kept, group) /\ KeepsOut(longer, merged, kept)
          /\ NoNext(merged, group) /\ NoPrevious(merged, group)
      BY <3>4 DEF HeldAlone, HeldNext
    <3>6. merged.span[group] \in Nat
      BY <3>5, HeldFacts, GroupFacts
    <3>7. Freed(merged, r, kept)
      <4>1. CASE merged.span[group] >= BlocksPerChunk
        <5>1. BlocksPerChunk <= merged.span[group] /\ r = FreeChunkGroup(merged, group)
          BY <1>1, <1>9, <2>2, <3>6, <4>1
        <5> QED
          BY <3>5, <5>1, FreeChunkGroupFacts
      <4>2. CASE ~(merged.span[group] >= BlocksPerChunk)
        <5>1. merged.span[group] < BlocksPerChunk /\ r = AddToFreeList(merged, group)
          BY <1>1, <1>9, <2>2, <3>6, <4>2
        <5> QED
          BY <3>5, <5>1, PutBackFacts
      <4> QED
        BY <4>1, <4>2
    <3>8. KeepsOut(back, r, kept)
      BY <3>3, <3>5, <3>7 DEF Freed, KeepsOut, SameOut
    <3> QED
      BY <3>7, <3>8 DEF Freed
  <2> QED
    BY <2>1, <2>2
<1>11. SameOut(s, r, kept)
  BY <1>5, <1>7, <1>10 DEF Freed, KeepsOut, SameOut
<1> QED
  BY <1>5, <1>10, <1>11 DEF Freed, KeepsOut, Deallocated, kept

-----------------------------------------------------------------------------
(* The blocks of groups *)

Extension(s, b) == b..b + s.span[b] - 1

\* The blocks of the memory of a group are those of its extent.
LEMMA ExtensionIs ==
    ASSUME NEW s, NEW out, Sound(s, out), NEW g \in Heads(s, out), NEW x \in Blocks
    PROVE  x \in Extension(s, g) <=> g <= x /\ x < EndOf(s, g)
<1>1. /\ IsGroup(s, g) /\ s \in StateType /\ x \in Nat /\ BlocksPerChunk \in Nat
  BY SoundFacts, BlockPlace, Sizes
<1>2. /\ g \in Nat /\ s.span[g] \in Nat /\ EndOf(s, g) \in Nat /\ g + s.span[g] <= EndOf(s, g)
  BY <1>1, GroupFacts
<1>3. x < g + s.span[g] => x < EndOf(s, g)
  BY <1>1, <1>2
<1>4. ASSUME g <= x, x < EndOf(s, g) PROVE x < g + s.span[g]
  <2>1. CASE s.span[g] <= BlocksPerChunk
    BY <1>1, <1>4, <2>1, GroupMemory
  <2>2. CASE BlocksPerChunk < s.span[g]
    <3>1. BlocksPerChunk <= s.span[g]
      BY <1>1, <1>2, <2>2
    <3>2. /\ g = ChunkBegin(ChunkOf(g)) /\ EndOf(s, g) = g + s.span[g] + Gap
          /\ \E m \in 1..MaxChunks - ChunkOf(g) : EndOf(s, g) = ChunkBegin(ChunkOf(g) + m)
      BY <1>1, <3>1, GroupFacts
    <3>3. PICK m \in 1..MaxChunks - ChunkOf(g) : EndOf(s, g) = ChunkBegin(ChunkOf(g) + m)
      BY <3>2
    <3> DEFINE e == ChunkOf(g) + m
               d == ChunkOf(x)
    <3>4. e \in Int /\ d \in Int /\ g \in Blocks
      <4>1. g \in Blocks
        BY <1>1, GroupFacts
      <4>2. ChunkOf(g) \in 0..MaxChunks - 1 /\ d \in 0..MaxChunks - 1
        BY <4>1, BlockPlace
      <4> QED
        BY <4>1, <4>2, Sizes
    <3>5. EndOf(s, g) = ChunkBegin(e) /\ x < ChunkEnd(d) /\ d = ChunkOf(x)
      BY <3>3, BlockPlace
    <3> HIDE DEF e, d
    <3>6. d < e
      BY <1>1, <1>4, <3>4, <3>5, ChunkOrder
    <3>7. ChunkEnd(d) + Gap <= ChunkBegin(e)
      <4>1. ChunkEnd(d) + Gap = ChunkBegin(d) + ChunkBlocks
        BY <3>4, ChunkEnds
      <4>2. ChunkBegin(d) + ChunkBlocks <= ChunkBegin(e)
        BY <3>4, <3>6, ChunkBegins
      <4> QED
        BY <4>1, <4>2
    <3>8. ChunkEnd(d) \in Int /\ Gap \in Int
      BY <3>4, ChunkEnds, Sizes
    <3> QED
      BY <1>1, <1>2, <3>2, <3>5, <3>7, <3>8
  <2> QED
    BY <1>1, <1>2, <2>1, <2>2
<1> QED
  BY <1>1, <1>2, <1>3, <1>4 DEF Extension

LEMMA EndInMemory ==
    ASSUME NEW s, NEW out, Sound(s, out), NEW g \in Heads(s, out)
    PROVE  EndOf(s, g) <= MemoryBlocks
<1>1. IsGroup(s, g) /\ s \in StateType
  BY SoundFacts
<1>2. g \in Blocks /\ EndOf(s, g) \in Nat /\ s.span[g] \in Nat
  BY <1>1, GroupFacts
<1> DEFINE d == ChunkOf(g)
<1>3. d \in 0..MaxChunks - 1 /\ MaxChunks \in Nat
  BY <1>2, BlockPlace, Sizes
<1>4. \E e \in 1..MaxChunks : EndOf(s, g) <= ChunkBegin(e)
  <2>1. CASE s.span[g] < BlocksPerChunk
    <3>1. EndOf(s, g) <= ChunkEnd(d)
      BY <1>1, <2>1, GroupFacts
    <3> HIDE DEF d
    <3>2. /\ ChunkEnd(d) + Gap = ChunkBegin(d + 1) /\ ChunkEnd(d) \in Int
      BY <1>3, ChunkEnds
    <3>3. EndOf(s, g) <= ChunkBegin(d + 1) /\ d + 1 \in 1..MaxChunks
      BY <1>2, <1>3, <3>1, <3>2, Sizes
    <3> QED
      BY <3>3
  <2>2. CASE BlocksPerChunk <= s.span[g]
    <3>1. PICK m \in 1..MaxChunks - d : EndOf(s, g) = ChunkBegin(d + m)
      BY <1>1, <2>2, GroupFacts
    <3> HIDE DEF d
    <3>2. d + m \in 1..MaxChunks
      BY <1>3
    <3>3. EndOf(s, g) <= ChunkBegin(d + m)
      BY <1>2, <3>1
    <3> QED
      BY <3>2, <3>3
  <2> QED
    BY <1>2, <2>1, <2>2, Sizes
<1>5. PICK e \in 1..MaxChunks : EndOf(s, g) <= ChunkBegin(e)
  BY <1>4
<1>6. ChunkBegin(e) <= MemoryBlocks
  <2>1. ChunkBegin(MaxChunks) = MemoryBlocks /\ MemoryBlocks \in Nat /\ ChunkBlocks \in Nat
    BY ChunkBegins, Sizes
  <2>2. e \in Int /\ MaxChunks \in Int /\ e <= MaxChunks /\ ChunkBegin(e) \in Int
    BY <1>3, ChunkBegins
  <2>3. e < MaxChunks => ChunkBegin(e) + ChunkBlocks <= ChunkBegin(MaxChunks)
    BY <2>2, ChunkBegins
  <2> QED
    BY <2>1, <2>2, <2>3
<1>7. ChunkBegin(e) \in Int /\ MemoryBlocks \in Int
  BY ChunkBegins
<1> QED
  BY <1>2, <1>5, <1>6, <1>7

\* The blocks of the groups that clients have.
ClientBlocks(s, out) == UNION {Extension(s, b) : b \in out}

LEMMA ClientBlocksFinite ==
    ASSUME NEW s, NEW out, Sound(s, out)
    PROVE  /\ ClientBlocks(s, out) \subseteq 0..MemoryBlocks - 1
           /\ IsFiniteSet(ClientBlocks(s, out)) /\ Cardinality(ClientBlocks(s, out)) \in 0..MemoryBlocks
<1> DEFINE all == 0..MemoryBlocks - 1
           T == ClientBlocks(s, out)
<1>1. ASSUME NEW b \in out PROVE Extension(s, b) \subseteq all
  <2>1. b \in Heads(s, out) /\ s \in StateType /\ IsGroup(s, b)
    BY SoundFacts
  <2>2. b \in Nat /\ s.span[b] \in Nat /\ b + s.span[b] <= EndOf(s, b) /\ EndOf(s, b) \in Nat
    BY <2>1, GroupFacts
  <2>3. EndOf(s, b) <= MemoryBlocks /\ MemoryBlocks \in Nat
    BY <2>1, EndInMemory, ChunkBegins
  <2> QED
    BY <2>2, <2>3 DEF Extension
<1>2. T \subseteq all
  BY <1>1 DEF ClientBlocks
<1>3. MemoryBlocks \in Nat
  BY ChunkBegins
<1>4. IsFiniteSet(all) /\ Cardinality(all) = MemoryBlocks
  <2>1. 0 \in Int /\ MemoryBlocks - 1 \in Int
    BY <1>3
  <2>2. IsFiniteSet(all) /\ Cardinality(all) = IF 0 > MemoryBlocks - 1 THEN 0 ELSE MemoryBlocks - 1 - 0 + 1
    BY <2>1, FS_Interval
  <2> QED
    BY <1>3, <2>2
<1> HIDE DEF all, T
<1>5. IsFiniteSet(T) /\ Cardinality(T) <= Cardinality(all)
  BY <1>2, <1>4, FS_Subset
<1>6. Cardinality(T) \in Nat
  BY <1>5, FS_CardinalityType
<1> QED
  BY <1>2, <1>3, <1>4, <1>5, <1>6 DEF T, all

LEMMA ClientBlocksMore ==
    ASSUME NEW s, NEW out, NEW b, b \notin out, Sound(s, out \cup {b})
    PROVE  Cardinality(ClientBlocks(s, out \cup {b})) = Cardinality(ClientBlocks(s, out)) + s.span[b]
<1> DEFINE out2 == out \cup {b}
           T == ClientBlocks(s, out)
           E == Extension(s, b)
<1>1. b \in out2 /\ out \subseteq out2 /\ Sound(s, out2)
  OBVIOUS
<1>2. ClientBlocks(s, out2) = T \cup E
  BY DEF ClientBlocks
<1> HIDE DEF out2
<1>3. IsFiniteSet(ClientBlocks(s, out2))
  BY <1>1, ClientBlocksFinite
<1>4. IsFiniteSet(T) /\ IsFiniteSet(E)
  <2>1. T \subseteq ClientBlocks(s, out2) /\ E \subseteq ClientBlocks(s, out2)
    BY <1>2
  <2> HIDE DEF T, E
  <2> QED
    BY <1>3, <2>1, FS_Subset
<1>5. b \in Heads(s, out2) /\ s \in StateType /\ IsGroup(s, b)
  BY <1>1, SoundFacts
<1>6. b \in Nat /\ s.span[b] \in Nat \ {0} /\ b + s.span[b] <= EndOf(s, b)
  BY <1>5, GroupFacts
<1>7. Cardinality(E) = s.span[b]
  <2> DEFINE last == b + s.span[b] - 1
  <2>1. b \in Int /\ last \in Int /\ E = b..last /\ b <= last /\ last - b + 1 = s.span[b]
    BY <1>6 DEF Extension
  <2> HIDE DEF last, E
  <2>2. Cardinality(b..last) = IF b > last THEN 0 ELSE last - b + 1
    BY <2>1, FS_Interval
  <2> QED
    BY <2>1, <2>2
<1>8. T \cap E = {}
  <2> SUFFICES ASSUME NEW g \in out, NEW x \in Extension(s, g), x \in E PROVE FALSE
    BY DEF ClientBlocks
  <2>1. g \in Heads(s, out2) /\ g # b
    BY <1>1, SoundFacts
  <2>2. IsGroup(s, g)
    BY <1>1, <2>1, SoundFacts
  <2>3. g \in Nat /\ s.span[g] \in Nat /\ g + s.span[g] <= EndOf(s, g)
    BY <1>5, <2>2, GroupFacts
  <2>4. /\ EndOf(s, g) \in Nat /\ EndOf(s, b) \in Nat
        /\ g < b => EndOf(s, g) <= b
    BY <1>1, <1>5, <2>1, Apart
  <2>5. b < g => EndOf(s, b) <= g
    BY <1>1, <1>5, <2>1, Apart
  <2>6. x \in Int /\ g <= x /\ x < g + s.span[g]
    BY <2>3 DEF Extension
  <2>7. b <= x /\ x < b + s.span[b]
    BY <1>6 DEF Extension
  <2> QED
    BY <1>6, <2>1, <2>3, <2>4, <2>5, <2>6, <2>7
<1> HIDE DEF T, E
<1>9. Cardinality(T \cup E) = Cardinality(T) + Cardinality(E) - Cardinality(T \cap E)
  BY <1>4, FS_Union
<1>10. Cardinality(T \cap E) = 0 /\ Cardinality(T) \in Nat
  BY <1>4, <1>8, FS_EmptySet, FS_CardinalityType
<1>11. Cardinality(ClientBlocks(s, out2)) = Cardinality(T) + s.span[b]
  BY <1>2, <1>6, <1>7, <1>9, <1>10
<1> QED
  BY <1>11 DEF T, out2

LEMMA ClientBlocksSame ==
    ASSUME NEW s, NEW r, NEW out, SameOut(s, r, out)
    PROVE  ClientBlocks(r, out) = ClientBlocks(s, out)
BY DEF SameOut, ClientBlocks, Extension

-----------------------------------------------------------------------------
(* The inductive invariant holds *)

LEMMA StateIs ==
    /\ State.span = span /\ State.free = free /\ State.constructed = constructed
    /\ State.lists = freeBlocks /\ State.chunks = freeChunks
    /\ State.allocations = allocations /\ State.blocksAllocated = blocksAllocated
    /\ State.chunksAllocated = chunksAllocated
BY DEF State

LEMMA BecomeIs ==
    ASSUME NEW s \in StateType, Become(s)
    PROVE  State' = s
<1>1. State' = [span |-> s.span, free |-> s.free, constructed |-> s.constructed,
                lists |-> s.lists, chunks |-> s.chunks, allocations |-> s.allocations,
                blocksAllocated |-> s.blocksAllocated, chunksAllocated |-> s.chunksAllocated]
  BY DEF Become, State
<1> QED
  BY <1>1 DEF StateType

\* What clients have, in terms of the allocator's state.
Clients(s, clients) ==
    /\ clients \in [DOMAIN clients -> Requests]
    /\ \A b \in DOMAIN clients : ~s.free[b] /\ s.span[b] = SpanFor(clients[b])
    /\ s.blocksAllocated = Cardinality(ClientBlocks(s, DOMAIN clients))

LEMMA ClientsMatchIs == ClientsMatch <=> Clients(State, live)
<1>1. \A b : Extent(b) = Extension(State, b)
  BY StateIs DEF Extent, Extension
<1>2. UNION {Extent(b) : b \in DOMAIN live} = ClientBlocks(State, DOMAIN live)
  BY <1>1 DEF ClientBlocks
<1> QED
  BY <1>2, StateIs DEF ClientsMatch, Clients

\* The invariant of a state and of what clients have.
Invariant(s, clients) == Sound(s, DOMAIN clients) /\ Merged(s) /\ Clients(s, clients)

LEMMA InvariantIs == IInv <=> Invariant(State, live)
BY ClientsMatchIs DEF IInv, Invariant

LEMMA InitIInv == Init => IInv
<1> SUFFICES ASSUME Init PROVE Invariant(State, live)
  BY InvariantIs
<1> DEFINE s == State
<1>1. DOMAIN live = {} /\ live = <<>>
  BY DEF Init
<1>2. s \in StateType
  <2>1. /\ s.span = [b \in Blocks |-> 0] /\ s.free = [b \in Blocks |-> TRUE]
        /\ s = [span |-> span, free |-> free, constructed |-> constructed,
                lists |-> freeBlocks, chunks |-> freeChunks, allocations |-> allocations,
                blocksAllocated |-> blocksAllocated, chunksAllocated |-> chunksAllocated]
    BY DEF Init, State
  <2>2. 0 \in 0..MemoryBlocks
    BY ChunkBegins
  <2>3. span \in [Blocks -> 0..MemoryBlocks] /\ free \in [Blocks -> BOOLEAN]
    BY <2>2 DEF Init
  <2>4. freeBlocks \in [Indices -> Seq(Blocks)] /\ freeChunks \in Seq(Blocks)
        /\ allocations \in Seq((0..MaxChunks) \X (0..MaxChunks)) /\ constructed \subseteq Blocks
        /\ blocksAllocated \in Int /\ chunksAllocated \in Int
    BY DEF Init
  <2> QED
    BY <2>1, <2>3, <2>4 DEF StateType
<1>3. /\ s.lists = [x \in Indices |-> <<>>] /\ s.chunks = <<>> /\ s.allocations = <<>>
      /\ s.constructed = {} /\ s.blocksAllocated = 0 /\ s.chunksAllocated = 0
  BY StateIs DEF Init
<1> HIDE DEF s
<1>4. ToSet(<<>>) = {}
  BY DEF ToSet
<1>5. InLists(s) = {} /\ ToSet(s.chunks) = {} /\ Owned(s) = {} /\ Heads(s, {}) = {}
  <2>1. InLists(s) = {}
    BY <1>3, <1>4 DEF InLists
  <2>2. Owned(s) = {}
    BY <1>3, <1>4 DEF Owned
  <2> QED
    BY <1>3, <1>4, <2>1, <2>2 DEF Heads
<1>6. Cardinality({}) = 0
  BY FS_EmptySet
<1>7. ListsMatch(s, {})
  <2>1. IsInjective(<<>>) /\ Increasing(<<>>)
    BY DEF IsInjective, Increasing
  <2> QED
    BY <1>3, <1>4, <2>1 DEF ListsMatch
<1>8. Sound(s, {})
  BY <1>2, <1>3, <1>5, <1>6, <1>7 DEF Sound, GroupsApart, ChunksCovered, FreeMatch, MemoryCounted
<1>9. Merged(s)
  BY <1>5 DEF Merged
<1>10. Clients(s, live)
  <2>1. ClientBlocks(s, {}) = {}
    BY DEF ClientBlocks
  <2>2. live \in [DOMAIN live -> Requests]
    BY <1>1
  <2> QED
    BY <1>1, <1>3, <1>6, <2>1, <2>2 DEF Clients
<1> QED
  BY <1>1, <1>8, <1>9, <1>10 DEF Invariant, s

\* allocate: what the allocator does, and what the client gets.
GivesOut(s, clients, r, after, b, n) ==
    /\ Allocated(s, DOMAIN clients, r, b, SpanFor(n)) /\ n \in Requests
    /\ after = [c \in DOMAIN clients \cup {b} |-> IF c = b THEN n ELSE clients[c]]

LEMMA GivesOutKeeps ==
    ASSUME NEW s, NEW clients, Invariant(s, clients), NEW r, NEW after, NEW b, NEW n,
           GivesOut(s, clients, r, after, b, n)
    PROVE  Invariant(r, after)
<1> DEFINE out == DOMAIN clients
           out2 == out \cup {b}
<1>1. /\ Sound(r, out2) /\ Merged(r) /\ b \in Blocks /\ b \notin out
      /\ r.span[b] = SpanFor(n) /\ ~r.free[b] /\ SameOut(s, r, out)
      /\ r.blocksAllocated = s.blocksAllocated + SpanFor(n)
      /\ n \in Requests
  BY DEF GivesOut, Allocated
<1>2. /\ Sound(s, out) /\ clients \in [out -> Requests]
      /\ \A c \in out : ~s.free[c] /\ s.span[c] = SpanFor(clients[c])
      /\ s.blocksAllocated = Cardinality(ClientBlocks(s, out))
  BY DEF Invariant, Clients
<1>3. after = [c \in out2 |-> IF c = b THEN n ELSE clients[c]]
  BY DEF GivesOut
<1>4. DOMAIN after = out2
  BY <1>3
<1> HIDE DEF out
<1>5. after \in [out2 -> Requests]
  BY <1>1, <1>2, <1>3
<1>6. ASSUME NEW c \in out2 PROVE ~r.free[c] /\ r.span[c] = SpanFor(after[c])
  <2>1. CASE c = b
    BY <1>1, <1>3, <2>1
  <2>2. CASE c # b
    <3>1. c \in out /\ after[c] = clients[c]
      BY <1>3, <2>2
    <3>2. r.free[c] = s.free[c] /\ r.span[c] = s.span[c]
      BY <1>1, <3>1 DEF SameOut
    <3> QED
      BY <1>2, <3>1, <3>2
  <2> QED
    BY <2>1, <2>2
<1>7. r.blocksAllocated = Cardinality(ClientBlocks(r, out2))
  <2>1. ClientBlocks(r, out) = ClientBlocks(s, out)
    BY <1>1, ClientBlocksSame
  <2>2. Cardinality(ClientBlocks(r, out \cup {b})) = Cardinality(ClientBlocks(r, out)) + r.span[b]
    BY <1>1, ClientBlocksMore
  <2> QED
    BY <1>1, <1>2, <2>1, <2>2
<1> HIDE DEF out2
<1>8. Clients(r, after)
  BY <1>4, <1>5, <1>6, <1>7 DEF Clients
<1> QED
  BY <1>1, <1>4, <1>8 DEF Invariant

\* deallocate
TakesBack(s, clients, r, after, b) ==
    /\ b \in DOMAIN clients /\ Deallocated(s, r, DOMAIN clients, b)
    /\ after = Restrict(clients, DOMAIN clients \ {b})

LEMMA TakesBackKeeps ==
    ASSUME NEW s, NEW clients, Invariant(s, clients), NEW r, NEW after, NEW b,
           TakesBack(s, clients, r, after, b)
    PROVE  Invariant(r, after)
<1> DEFINE out == DOMAIN clients
           kept == out \ {b}
<1>1. /\ Sound(r, kept) /\ Merged(r) /\ b \in out /\ SameOut(s, r, kept)
      /\ r.blocksAllocated = s.blocksAllocated - s.span[b]
      /\ after = Restrict(clients, kept)
  BY DEF TakesBack, Deallocated
<1>2. /\ Sound(s, out) /\ clients \in [out -> Requests]
      /\ \A c \in out : ~s.free[c] /\ s.span[c] = SpanFor(clients[c])
      /\ s.blocksAllocated = Cardinality(ClientBlocks(s, out))
  BY DEF Invariant, Clients
<1>3. after = [c \in kept |-> clients[c]]
  BY <1>1 DEF Restrict
<1>4. DOMAIN after = kept
  BY <1>3
<1> HIDE DEF out
<1>5. after \in [kept -> Requests]
  BY <1>2, <1>3
<1>6. ASSUME NEW c \in kept PROVE ~r.free[c] /\ r.span[c] = SpanFor(after[c])
  BY <1>1, <1>2, <1>3 DEF SameOut
<1>7. kept \cup {b} = out /\ b \notin kept
  BY <1>1
<1> HIDE DEF kept
<1>8. r.blocksAllocated = Cardinality(ClientBlocks(r, kept))
  <2>1. ClientBlocks(r, kept) = ClientBlocks(s, kept)
    BY <1>1, ClientBlocksSame
  <2>2. Cardinality(ClientBlocks(s, out)) = Cardinality(ClientBlocks(s, kept)) + s.span[b]
    <3>1. Sound(s, kept \cup {b})
      BY <1>2, <1>7
    <3>2. Cardinality(ClientBlocks(s, kept \cup {b})) = Cardinality(ClientBlocks(s, kept)) + s.span[b]
      BY <1>7, <3>1, ClientBlocksMore
    <3> QED
      BY <1>7, <3>2
  <2>3. Cardinality(ClientBlocks(s, kept)) \in Int /\ s.span[b] \in Int
    <3>1. Cardinality(ClientBlocks(r, kept)) \in 0..MemoryBlocks
      BY <1>1, ClientBlocksFinite
    <3>2. IsGroup(s, b) /\ s \in StateType
      BY <1>1, <1>2, SoundFacts
    <3>3. s.span[b] \in Nat
      BY <3>2, GroupFacts
    <3> QED
      BY <2>1, <3>1, <3>3
  <2> QED
    BY <1>1, <1>2, <2>1, <2>2, <2>3
<1>9. Clients(r, after)
  BY <1>4, <1>5, <1>6, <1>8 DEF Clients
<1> QED
  BY <1>1, <1>4, <1>9 DEF Invariant

LEMMA AllocateStep ==
    ASSUME Invariant(State, live), NEW n \in Requests, Allocate(n)
    PROVE  \E b : GivesOut(State, live, State', live', b, n)
<1> DEFINE s == State
           needed == ChunksNeeded(s, n)
<1>1. PICK base \in (IF needed = 0 THEN {0} ELSE SystemMemory(needed)) :
         LET result == AllocateBlocks(s, n, base)
         IN  /\ Become(result.state)
             /\ live' = [c \in DOMAIN live \cup {result.block} |->
                          IF c = result.block THEN n ELSE live[c]]
  BY DEF Allocate
<1> DEFINE new == AllocateBlocks(s, n, base)
<1>2. n \in Nat \ {0}
  BY AllocatorAssumption
<1>3. needed # 0 => IsNewMemory(s, base, needed)
  BY <1>1, StateIs DEF SystemMemory, IsNewMemory
<1>4. /\ Become(new.state)
      /\ live' = [c \in DOMAIN live \cup {new.block} |-> IF c = new.block THEN n ELSE live[c]]
  BY <1>1
<1>5. Sound(s, DOMAIN live) /\ Merged(s)
  BY DEF Invariant
<1> HIDE DEF s
<1>6. Allocated(s, DOMAIN live, new.state, new.block, SpanFor(n))
  BY <1>2, <1>3, <1>5, AllocateFacts
<1> HIDE DEF new
<1>7. new.state \in StateType
  BY <1>6, SoundFacts DEF Allocated
<1>8. State' = new.state
  BY <1>4, <1>7, BecomeIs
<1>9. GivesOut(s, live, State', live', new.block, n)
  BY <1>4, <1>6, <1>8 DEF GivesOut
<1> QED
  BY <1>9 DEF s

LEMMA DeallocateStep ==
    ASSUME Invariant(State, live), NEW b, Deallocate(b)
    PROVE  TakesBack(State, live, State', live', b)
<1> DEFINE s == State
           r == DeallocateBlock(s, b)
<1>1. b \in DOMAIN live /\ Become(r) /\ live' = Restrict(live, DOMAIN live \ {b})
  BY DEF Deallocate
<1>2. Sound(s, DOMAIN live) /\ Merged(s) /\ \A g \in DOMAIN live : ~s.free[g]
  BY DEF Invariant, Clients
<1> HIDE DEF s
<1>3. Deallocated(s, r, DOMAIN live, b)
  BY <1>1, <1>2, DeallocateFacts
<1> HIDE DEF r
<1>4. r \in StateType
  BY <1>3, SoundFacts DEF Deallocated
<1>5. State' = r
  BY <1>1, <1>4, BecomeIs
<1> QED
  BY <1>1, <1>3, <1>5 DEF TakesBack, s

LEMMA NextKeepsIInv == IInv /\ [Next]_vars => IInv'
<1>4. (IInv <=> Invariant(State, live))'
  BY InvariantIs, PTL
<1> SUFFICES ASSUME Invariant(State, live), [Next]_vars PROVE Invariant(State', live')
  BY <1>4, InvariantIs
<1>1. ASSUME NEW n \in Requests, Allocate(n) PROVE Invariant(State', live')
  BY <1>1, AllocateStep, GivesOutKeeps
<1>2. ASSUME NEW b \in Blocks, Deallocate(b) PROVE Invariant(State', live')
  BY <1>2, DeallocateStep, TakesBackKeeps
<1>3. CASE UNCHANGED vars
  BY <1>3 DEF vars, State
<1> QED
  BY <1>1, <1>2, <1>3 DEF Next

\* The invariant from which the others follow.
THEOREM AlwaysIInv == Spec => []IInv
BY InitIInv, NextKeepsIInv, PTL DEF Spec

-----------------------------------------------------------------------------
(* The properties *)

LEMMA IInvFacts ==
    ASSUME IInv
    PROVE  /\ Sound(State, DOMAIN live) /\ Merged(State) /\ Clients(State, live)
           /\ Groups = Heads(State, DOMAIN live) /\ InFreeLists = InLists(State)
           /\ OwnedChunks = Owned(State)
           /\ \A b : Extent(b) = Extension(State, b)
<1>1. Sound(State, DOMAIN live) /\ Merged(State) /\ Clients(State, live)
  BY InvariantIs DEF Invariant
<1>2. InFreeLists = InLists(State) /\ OwnedChunks = Owned(State)
  BY StateIs DEF InFreeLists, InLists, OwnedChunks, Owned
<1>3. Groups = Heads(State, DOMAIN live)
  BY <1>2, StateIs DEF Groups, Heads
<1>4. \A b : Extent(b) = Extension(State, b)
  BY StateIs DEF Extent, Extension
<1> QED
  BY <1>1, <1>2, <1>3, <1>4

LEMMA TypeHolds == IInv => TypeOK
<1> SUFFICES ASSUME IInv PROVE TypeOK
  OBVIOUS
<1>1. Sound(State, DOMAIN live) /\ Clients(State, live)
  BY IInvFacts
<1>2. State \in StateType
  BY <1>1, SoundFacts
<1>3. /\ span \in [Blocks -> 0..MemoryBlocks] /\ free \in [Blocks -> BOOLEAN]
      /\ constructed \subseteq Blocks /\ freeBlocks \in [Indices -> Seq(Blocks)]
      /\ freeChunks \in Seq(Blocks)
  BY <1>2, StateFields, StateIs
<1>4. blocksAllocated \in 0..MemoryBlocks
  <2>1. Cardinality(ClientBlocks(State, DOMAIN live)) \in 0..MemoryBlocks
    BY <1>1, ClientBlocksFinite
  <2> QED
    BY <1>1, <2>1, StateIs DEF Clients
<1>5. chunksAllocated \in 0..MaxChunks
  <2> DEFINE all == 0..MaxChunks - 1
             owned == Owned(State)
  <2>1. owned \subseteq all /\ chunksAllocated = Cardinality(owned)
    BY <1>1, StateIs DEF Sound, MemoryCounted
  <2>2. IsFiniteSet(all) /\ Cardinality(all) = MaxChunks
    <3>1. 0 \in Int /\ MaxChunks - 1 \in Int /\ MaxChunks \in Nat \ {0}
      BY Sizes
    <3>2. IsFiniteSet(all) /\ Cardinality(all) = IF 0 > MaxChunks - 1 THEN 0 ELSE MaxChunks - 1 - 0 + 1
      BY <3>1, FS_Interval
    <3> QED
      BY <3>1, <3>2
  <2> HIDE DEF all, owned
  <2>3. IsFiniteSet(owned) /\ Cardinality(owned) <= Cardinality(all)
    BY <2>1, <2>2, FS_Subset
  <2>4. Cardinality(owned) \in Nat /\ MaxChunks \in Nat
    BY <2>3, FS_CardinalityType, Sizes
  <2> QED
    BY <2>1, <2>2, <2>3, <2>4
<1>6. DOMAIN live \subseteq Blocks
  BY <1>1, SoundFacts
<1>7. Range(live) \subseteq Requests
  BY <1>1 DEF Clients, Range
<1> QED
  BY <1>3, <1>4, <1>5, <1>6, <1>7 DEF TypeOK

\* The variables have their types; the counters stay within the memory.
THEOREM TypeCorrect == Spec => []TypeOK
BY AlwaysIInv, TypeHolds, PTL

LEMMA GroupsTile == IInv => GroupsTileChunks
<1> SUFFICES ASSUME IInv PROVE GroupsTileChunks
  OBVIOUS
<1> DEFINE s == State
           out == DOMAIN live
<1>1. /\ Sound(s, out) /\ Groups = Heads(s, out) /\ OwnedChunks = Owned(s)
      /\ \A b : Extent(b) = Extension(s, b)
  BY IInvFacts
<1> HIDE DEF s, out
<1>2. ASSUME NEW g \in Groups, NEW h \in Groups, g # h, NEW x \in Extent(g), x \in Extent(h)
      PROVE  FALSE
  <2>1. g \in Heads(s, out) /\ h \in Heads(s, out) /\ s \in StateType /\ IsGroup(s, g) /\ IsGroup(s, h)
    BY <1>1, SoundFacts
  <2>2. g \in Nat /\ s.span[g] \in Nat /\ g + s.span[g] <= EndOf(s, g) /\ EndOf(s, g) \in Nat
    BY <2>1, GroupFacts
  <2>3. h \in Nat /\ s.span[h] \in Nat /\ h + s.span[h] <= EndOf(s, h) /\ EndOf(s, h) \in Nat
    BY <2>1, GroupFacts
  <2>4. x \in Extension(s, g) /\ x \in Extension(s, h)
    BY <1>1, <1>2
  <2>6. x \in Int /\ g <= x /\ x < g + s.span[g]
    BY <2>2, <2>4 DEF Extension
  <2>7. h <= x /\ x < h + s.span[h]
    BY <2>3, <2>4 DEF Extension
  <2>5. (g < h => EndOf(s, g) <= h) /\ (h < g => EndOf(s, h) <= g)
    BY <1>1, <2>1, Apart
  <2> QED
    BY <1>2, <2>2, <2>3, <2>5, <2>6, <2>7
<1>3. ASSUME NEW b \in Blocks
      PROVE  ChunkOf(b) \in OwnedChunks <=> \E g \in Groups : b \in Extent(g)
  <2>1. \A g \in Groups : b \in Extent(g) <=> g <= b /\ b < EndOf(s, g)
    BY <1>1, ExtensionIs
  <2>2. ChunkOf(b) \in Owned(s) <=> \E g \in Heads(s, out) : g <= b /\ b < EndOf(s, g)
    BY <1>1 DEF Sound, ChunksCovered
  <2> QED
    BY <1>1, <2>1, <2>2
<1> QED
  BY <1>2, <1>3 DEF GroupsTileChunks

\* Every block of every chunk is in one group, whatever is split and merged.
THEOREM GroupsAlwaysTileChunks == Spec => []GroupsTileChunks
BY AlwaysIInv, GroupsTile, PTL

LEMMA ListsHold == IInv => FreeListsMatch
<1> SUFFICES ASSUME IInv PROVE FreeListsMatch
  OBVIOUS
<1> DEFINE s == State
           out == DOMAIN live
<1>1. /\ Sound(s, out) /\ Groups = Heads(s, out) /\ Clients(s, live)
      /\ s.lists = freeBlocks /\ s.chunks = freeChunks /\ s.span = span /\ s.free = free
  BY IInvFacts, StateIs
<1> HIDE DEF s, out
<1>2. ListsMatch(s, out)
  BY <1>1 DEF Sound
<1>3. IsInjective(freeChunks)
  <2>1. freeChunks \in Seq(Blocks) /\ Increasing(freeChunks) /\ Blocks \subseteq Int
    BY <1>1, <1>2, SoundFacts, StateFields, BlockPlace DEF ListsMatch
  <2> SUFFICES ASSUME NEW i \in DOMAIN freeChunks, NEW j \in DOMAIN freeChunks,
                      freeChunks[i] = freeChunks[j]
               PROVE  i = j
    BY DEF IsInjective
  <2>2. i \in Int /\ j \in Int /\ freeChunks[i] \in Blocks /\ freeChunks[j] \in Blocks
    BY <2>1
  <2>4. freeChunks[i] \in Int /\ freeChunks[j] \in Int
    BY <2>1, <2>2
  <2>5. (i < j => freeChunks[i] < freeChunks[j]) /\ (j < i => freeChunks[j] < freeChunks[i])
    BY <2>1, <2>2 DEF Increasing
  <2>3. ~(i < j) /\ ~(j < i)
    BY <2>2, <2>4, <2>5
  <2> QED
    BY <2>2, <2>3
<1>4. ASSUME NEW b \in ToSet(freeChunks)
      PROVE  b = ChunkBegin(ChunkOf(b)) /\ span[b] >= BlocksPerChunk
  <2>1. span[b] >= BlocksPerChunk /\ IsGroup(s, b) /\ s \in StateType
    BY <1>1, <1>2, SoundFacts DEF ListsMatch
  <2>2. s.span[b] \in Nat /\ BlocksPerChunk \in Nat
    BY <2>1, GroupFacts, Sizes
  <2>3. BlocksPerChunk <= s.span[b]
    BY <1>1, <2>1, <2>2
  <2>4. b = ChunkBegin(ChunkOf(b))
    BY <2>1, <2>3, GroupFacts
  <2> QED
    BY <2>1, <2>4
<1>5. ASSUME NEW b \in Groups PROVE b \in DOMAIN live <=> ~free[b]
  <2>1. b \in out => ~s.free[b]
    BY <1>1 DEF Clients, out
  <2>2. b \notin out => s.free[b]
    BY <1>1, FreeInLists
  <2> QED
    BY <1>1, <2>1, <2>2 DEF out
<1>6. ASSUME NEW x \in Indices
      PROVE  /\ IsInjective(freeBlocks[x])
             /\ \A b \in ToSet(freeBlocks[x]) :
                  /\ span[b] \in 1..BlocksPerChunk - 1
                  /\ PowerOfTwo[x] <= span[b] /\ span[b] < PowerOfTwo[x + 1]
  BY <1>1, <1>2 DEF ListsMatch
<1> QED
  BY <1>3, <1>4, <1>5, <1>6 DEF FreeListsMatch

\* The lists have each free group once, where it is looked for.
THEOREM FreeListsAlwaysMatch == Spec => []FreeListsMatch
BY AlwaysIInv, ListsHold, PTL

LEMMA TagsHold == IInv => BoundaryTagsMatch
<1> SUFFICES ASSUME IInv, NEW b \in Groups
             PROVE  /\ b \in constructed
                    /\ span[b] <= BlocksPerChunk =>
                         /\ b + span[b] - 1 \in constructed
                         /\ span[b + span[b] - 1] = span[b]
  BY DEF BoundaryTagsMatch
<1> DEFINE s == State
           out == DOMAIN live
<1>1. /\ Sound(s, out) /\ Groups = Heads(s, out) /\ s.constructed = constructed /\ s.span = span
  BY IInvFacts, StateIs
<1> HIDE DEF s, out
<1>2. IsGroup(s, b) /\ s \in StateType
  BY <1>1, SoundFacts
<1>3. /\ DescriptorsOf(ChunkOf(b)) \subseteq s.constructed
      /\ s.span[b] <= BlocksPerChunk => s.span[b + s.span[b] - 1] = s.span[b]
  BY <1>2 DEF IsGroup, IsTagged
<1>4. ASSUME NEW x \in Blocks, ChunkOf(x) = ChunkOf(b) PROVE x \in constructed
  <2>1. x \in DescriptorsOf(ChunkOf(x))
    BY BlockPlace, ChunkEnds DEF DescriptorsOf
  <2> QED
    BY <1>1, <1>3, <1>4, <2>1
<1>5. b \in Blocks /\ b \in Nat /\ s.span[b] \in Nat \ {0}
  BY <1>2, GroupFacts
<1>6. ASSUME s.span[b] <= BlocksPerChunk PROVE b + s.span[b] - 1 \in constructed
  <2> DEFINE last == b + s.span[b] - 1
  <2>1. last \in Int /\ b <= last /\ last < b + s.span[b]
    BY <1>5
  <2> HIDE DEF last
  <2>2. last \in Blocks /\ ChunkOf(last) = ChunkOf(b)
    BY <1>2, <1>6, <2>1, GroupBlocks
  <2> QED
    BY <1>4, <2>2 DEF last
<1> QED
  BY <1>1, <1>3, <1>4, <1>5, <1>6

\* deallocate() finds the neighbours of a block from descriptors that are there
\* and say the truth.
THEOREM BoundaryTagsAlwaysMatch == Spec => []BoundaryTagsMatch
BY AlwaysIInv, TagsHold, PTL

LEMMA MergedHolds == IInv => FreeGroupsAreMerged
<1> SUFFICES ASSUME IInv PROVE FreeGroupsAreMerged
  OBVIOUS
<1> DEFINE s == State
           out == DOMAIN live
<1>1. /\ Sound(s, out) /\ Merged(s) /\ InFreeLists = InLists(s)
      /\ s.chunks = freeChunks /\ s.span = span
  BY IInvFacts, StateIs
<1> HIDE DEF s, out
<1>2. \A b, c \in InFreeLists : b + span[b] = c => ChunkOf(b) # ChunkOf(c)
  BY <1>1 DEF Merged
<1>3. ASSUME NEW b \in ToSet(freeChunks), NEW c \in ToSet(freeChunks)
      PROVE  ChunkOf(b) + ChunksForBlocks(span[b]) # ChunkOf(c)
  <2>1. IsGroup(s, b) /\ IsGroup(s, c) /\ s \in StateType
    BY <1>1, SoundFacts
  <2>2. s.span[b] >= BlocksPerChunk /\ s.span[c] >= BlocksPerChunk
    BY <1>1 DEF Sound, ListsMatch
  <2>3. s.span[b] \in Nat /\ s.span[c] \in Nat /\ BlocksPerChunk \in Nat
    BY <2>1, GroupFacts, Sizes
  <2>4. BlocksPerChunk <= s.span[b] /\ BlocksPerChunk <= s.span[c]
    BY <2>2, <2>3
  <2>5. Adjoins(s, b, c) <=> EndOf(s, b) = c
    BY <2>1, <2>4, AdjoinsIs
  <2> QED
    BY <1>1, <2>5 DEF Merged, Adjoins
<1> QED
  BY <1>2, <1>3 DEF FreeGroupsAreMerged

\* No two free groups that could be one are two.
THEOREM FreeGroupsStayMerged == Spec => []FreeGroupsAreMerged
BY AlwaysIInv, MergedHolds, PTL

LEMMA CountersHold == IInv => CountersMatch
<1> SUFFICES ASSUME IInv PROVE CountersMatch
  OBVIOUS
<1>1. UNION {Extent(b) : b \in DOMAIN live} = ClientBlocks(State, DOMAIN live)
  BY IInvFacts DEF ClientBlocks
<1>2. blocksAllocated = Cardinality(ClientBlocks(State, DOMAIN live))
  BY IInvFacts, StateIs DEF Clients
<1>3. chunksAllocated = Cardinality(OwnedChunks)
  BY IInvFacts, StateIs DEF Sound, MemoryCounted
<1> QED
  BY <1>1, <1>2, <1>3 DEF CountersMatch

\* The counters agree with the memory that clients have and the memory there is.
THEOREM CountersAlwaysMatch == Spec => []CountersMatch
BY AlwaysIInv, CountersHold, PTL

LEMMA StepsKeepLiveBlocks ==
    IInv /\ [Next]_vars =>
      [\A b \in DOMAIN live \cap DOMAIN live' : span'[b] = span[b] /\ ~free'[b]]_vars
<1> SUFFICES ASSUME IInv, Next, NEW b \in DOMAIN live \cap DOMAIN live'
             PROVE  span'[b] = span[b] /\ ~free'[b]
  OBVIOUS
<1>1. Invariant(State, live)
  BY InvariantIs
<1>2. span[b] = State.span[b] /\ ~State.free[b] /\ State'.span = span' /\ State'.free = free'
  BY <1>1, StateIs DEF Invariant, Clients, State
<1>3. ASSUME NEW n \in Requests, Allocate(n) PROVE SameOut(State, State', DOMAIN live)
  BY <1>1, <1>3, AllocateStep DEF GivesOut, Allocated
<1>4. ASSUME NEW c, Deallocate(c) PROVE b # c /\ SameOut(State, State', DOMAIN live \ {c})
  <2>1. TakesBack(State, live, State', live', c)
    BY <1>1, <1>4, DeallocateStep
  <2>2. SameOut(State, State', DOMAIN live \ {c}) /\ live' = Restrict(live, DOMAIN live \ {c})
    BY <2>1 DEF TakesBack, Deallocated
  <2> QED
    BY <2>2 DEF Restrict
<1>5. State'.span[b] = State.span[b] /\ State'.free[b] = State.free[b]
  BY <1>3, <1>4 DEF Next, SameOut
<1> QED
  BY <1>2, <1>5

\* A block handed out keeps its place and its length until it is given back.
THEOREM LiveBlocksAlwaysStay == Spec => LiveBlocksStay
BY AlwaysIInv, StepsKeepLiveBlocks, PTL DEF Spec, LiveBlocksStay

-----------------------------------------------------------------------------
(* The clients' view: RootBlockAllocator implements BlockExtents *)

LEMMA SpanForBounds ==
    ASSUME NEW n \in Nat \ {0}
    PROVE  SpanFor(n) \in n..n + (ChunkBlocks - 1)
<1>1. ChunkBlocks \in Nat /\ BlocksPerChunk \in Nat /\ BlocksPerChunk < ChunkBlocks
  BY Sizes
<1>2. CASE n < BlocksPerChunk
  BY <1>1, <1>2 DEF SpanFor
<1>3. CASE ~(n < BlocksPerChunk)
  <2> DEFINE m == ChunksForBlocks(n)
             k == BlocksForChunks(m)
  <2>1. BlocksPerChunk <= n
    BY <1>1, <1>3
  <2>2. m \in Nat /\ 1 <= m /\ n <= k /\ k < n + ChunkBlocks
    BY <2>1, ChunksForRequest
  <2>3. k \in Nat
    BY <2>2, SpansOfChunks
  <2>4. SpanFor(n) = k
    BY <1>3 DEF SpanFor
  <2> HIDE DEF k, m
  <2> QED
    BY <1>1, <2>2, <2>3, <2>4
<1> QED
  BY <1>2, <1>3

\* What clients have, as BlockExtents sees it.
ExtentsOf(s, clients) == {<<b, s.span[b], clients[b]>> : b \in DOMAIN clients}

LEMMA ExtentsAre ==
    /\ {<<b, span[b], live[b]>> : b \in DOMAIN live} = ExtentsOf(State, live)
    /\ {<<b, span'[b], live'[b]>> : b \in DOMAIN live'} = ExtentsOf(State', live')
<1>1. State.span = span /\ State'.span = span'
  BY DEF State
<1> QED
  BY <1>1 DEF ExtentsOf

\* A block at b of k blocks lies in the memory and apart from what clients have.
HasRoom(s, clients, b, k, n) ==
    /\ b \in 0..MemoryBlocks - n /\ k \in n..n + (ChunkBlocks - 1) /\ b + k <= MemoryBlocks
    /\ \A c \in DOMAIN clients : c + s.span[c] <= b \/ b + k <= c

LEMMA GivesOutExtent ==
    ASSUME NEW s, NEW clients, Invariant(s, clients), NEW r, NEW after, NEW b, NEW n,
           GivesOut(s, clients, r, after, b, n)
    PROVE  /\ HasRoom(s, clients, b, SpanFor(n), n)
           /\ ExtentsOf(r, after) = ExtentsOf(s, clients) \cup {<<b, SpanFor(n), n>>}
<1> DEFINE out == DOMAIN clients
           out2 == out \cup {b}
           k == SpanFor(n)
<1>1. /\ Sound(r, out2) /\ b \in Blocks /\ b \notin out /\ r.span[b] = k
      /\ SameOut(s, r, out) /\ n \in Requests
      /\ after = [c \in out2 |-> IF c = b THEN n ELSE clients[c]]
  BY DEF GivesOut, Allocated
<1>2. n \in Nat \ {0}
  BY <1>1, AllocatorAssumption
<1>3. k \in n..n + (ChunkBlocks - 1) /\ k \in Int
  BY <1>2, SpanForBounds, Sizes
<1>4. \A c \in out : r.span[c] = s.span[c]
  BY <1>1 DEF SameOut
<1>5. ExtentsOf(r, after) = ExtentsOf(s, clients) \cup {<<b, k, n>>}
  <2>1. DOMAIN after = out \cup {b} /\ after[b] = n /\ \A c \in out : after[c] = clients[c]
    BY <1>1
  <2> HIDE DEF k
  <2> QED
    BY <1>1, <1>4, <2>1 DEF ExtentsOf
<1> HIDE DEF out, out2, k
<1>6. b \in out2 /\ out \subseteq out2 /\ out2 \subseteq Heads(r, out2) /\ r \in StateType
  BY <1>1, SoundFacts DEF out2
<1>7. /\ b \in Nat /\ EndOf(r, b) \in Nat /\ b + k <= EndOf(r, b) /\ EndOf(r, b) <= MemoryBlocks
  <2>1. IsGroup(r, b)
    BY <1>1, <1>6, SoundFacts
  <2>2. EndOf(r, b) <= MemoryBlocks
    BY <1>1, <1>6, EndInMemory
  <2> QED
    BY <1>1, <1>6, <2>1, <2>2, GroupFacts
<1>8. ASSUME NEW c \in out PROVE c + s.span[c] <= b \/ b + k <= c
  <2>1. IsGroup(r, c)
    BY <1>1, <1>6, SoundFacts
  <2>2. c \in Nat /\ r.span[c] \in Nat /\ EndOf(r, c) \in Nat /\ c + r.span[c] <= EndOf(r, c)
    BY <1>6, <2>1, GroupFacts
  <2>3. (b < c => EndOf(r, b) <= c) /\ (c < b => EndOf(r, c) <= b)
    BY <1>1, <1>6, Apart
  <2>4. r.span[c] = s.span[c] /\ c # b
    BY <1>1, <1>4
  <2> QED
    BY <1>3, <1>7, <2>2, <2>3, <2>4
<1>9. b \in 0..MemoryBlocks - n /\ b + k <= MemoryBlocks
  <2>1. MemoryBlocks \in Nat /\ ChunkBlocks \in Nat
    BY ChunkFits, Sizes
  <2> QED
    BY <1>2, <1>3, <1>7, <2>1
<1> QED
  BY <1>3, <1>5, <1>8, <1>9 DEF HasRoom, out, k

LEMMA TakesBackExtent ==
    ASSUME NEW s, NEW clients, NEW r, NEW after, NEW b, TakesBack(s, clients, r, after, b)
    PROVE  ExtentsOf(r, after) = ExtentsOf(s, clients) \ {<<b, s.span[b], clients[b]>>}
<1> DEFINE kept == DOMAIN clients \ {b}
<1>1. /\ b \in DOMAIN clients /\ SameOut(s, r, kept) /\ after = Restrict(clients, kept)
  BY DEF TakesBack, Deallocated
<1>2. DOMAIN after = kept /\ \A c \in kept : after[c] = clients[c]
  BY <1>1 DEF Restrict
<1>3. \A c \in kept : r.span[c] = s.span[c]
  BY <1>1 DEF SameOut
<1> QED
  BY <1>1, <1>2, <1>3 DEF ExtentsOf

LEMMA AllocateImplements ==
    ASSUME Invariant(State, live), NEW n \in Requests, Allocate(n)
    PROVE  Extents!Allocate(n)
<1> DEFINE k == SpanFor(n)
<1>1. PICK b : GivesOut(State, live, State', live', b, n)
  BY AllocateStep
<1>2. /\ HasRoom(State, live, b, k, n)
      /\ ExtentsOf(State', live') = ExtentsOf(State, live) \cup {<<b, k, n>>}
  BY <1>1, GivesOutExtent
<1> HIDE DEF k
<1>3. /\ b \in 0..MemoryBlocks - n /\ k \in n..n + (ChunkBlocks - 1) /\ b + k <= MemoryBlocks
      /\ \A c \in DOMAIN live : c + State.span[c] <= b \/ b + k <= c
  BY <1>2 DEF HasRoom
<1>4. ASSUME NEW e \in ExtentsOf(State, live) PROVE Extents!Disjoint(e, <<b, k>>)
  <2>1. PICK c \in DOMAIN live : e = <<c, State.span[c], live[c]>>
    BY DEF ExtentsOf
  <2>2. e[1] = c /\ e[2] = State.span[c]
    BY <2>1
  <2> QED
    BY <1>3, <2>2 DEF Extents!Disjoint
<1> QED
  BY <1>2, <1>3, <1>4, ExtentsAre DEF Extents!Allocate

LEMMA DeallocateImplements ==
    ASSUME Invariant(State, live), NEW b, Deallocate(b)
    PROVE  \E e \in {<<c, span[c], live[c]>> : c \in DOMAIN live} : Extents!Deallocate(e)
<1> DEFINE e == <<b, State.span[b], live[b]>>
<1>1. TakesBack(State, live, State', live', b)
  BY DeallocateStep
<1>2. b \in DOMAIN live /\ ExtentsOf(State', live') = ExtentsOf(State, live) \ {e}
  BY <1>1, TakesBackExtent DEF TakesBack
<1>3. e \in ExtentsOf(State, live)
  BY <1>2 DEF ExtentsOf
<1>4. {<<c, span'[c], live'[c]>> : c \in DOMAIN live'} = {<<c, span[c], live[c]>> : c \in DOMAIN live} \ {e}
  BY <1>2, ExtentsAre
<1>5. e \in {<<c, span[c], live[c]>> : c \in DOMAIN live}
  BY <1>3, ExtentsAre
<1> HIDE DEF e
<1> QED
  BY <1>4, <1>5 DEF Extents!Deallocate

\* What clients have are disjoint stretches of memory, each as long as was
\* asked for and less than a chunk longer: allocate() and deallocate() do to
\* them what BlockExtents allows, and no split or merge does anything.
THEOREM AllocatorImplementsExtents == Spec => ImplementsExtents
<1>1. Init => Extents!Init
  BY DEF Init, Extents!Init
<1>2. IInv /\ [Next]_vars => [Extents!Next]_({<<b, span[b], live[b]>> : b \in DOMAIN live})
  <2> SUFFICES ASSUME IInv, [Next]_vars
               PROVE  \/ Extents!Next
                      \/ UNCHANGED {<<b, span[b], live[b]>> : b \in DOMAIN live}
    OBVIOUS
  <2>1. Invariant(State, live)
    BY InvariantIs
  <2>2. ASSUME NEW n \in Requests, Allocate(n) PROVE Extents!Next
    <3>1. Extents!Allocate(n)
      BY <2>1, <2>2, AllocateImplements
    <3> QED
      BY <3>1 DEF Extents!Next
  <2>3. ASSUME NEW b \in Blocks, Deallocate(b) PROVE Extents!Next
    <3>1. \E e \in {<<c, span[c], live[c]>> : c \in DOMAIN live} : Extents!Deallocate(e)
      BY <2>1, <2>3, DeallocateImplements
    <3> QED
      BY <3>1 DEF Extents!Next
  <2>4. CASE UNCHANGED vars
    BY <2>4 DEF vars
  <2> QED
    BY <2>2, <2>3, <2>4 DEF Next
<1> QED
  BY <1>1, <1>2, AlwaysIInv, PTL DEF Spec, ImplementsExtents, Extents!Spec

=============================================================================
