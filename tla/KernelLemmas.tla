---------------------------- MODULE KernelLemmas ----------------------------
(***************************************************************************)
(* Facts the proofs share: what the list operations do to a list without   *)
(* duplicates, the only kind an intrusive list can be since an entry has   *)
(* one pair of link fields; counting up to a number and building up a      *)
(* finite set; the size of a finite set; and the sums of the counters that *)
(* are kept per CPU.                                                       *)
(***************************************************************************)
EXTENDS KernelList, FiniteSets, FunctionTheorems, TLAPS

\* Most leaves are first-order and left to Zenon; the others name SMT.
USE Zenon

\* Range of a sequence, with its domain spelt out.
LEMMA RangeSeq ==
  ASSUME NEW S, NEW s \in Seq(S)
  PROVE  /\ Range(s) = {s[i] : i \in 1..Len(s)}
         /\ Range(s) \subseteq S
BY SMT DEF Range

\* Two lists in a row.
LEMMA ConcatSeq ==
  ASSUME NEW S, NEW s \in Seq(S), NEW t \in Seq(S)
  PROVE  s \o t \in Seq(S) /\ Len(s \o t) = Len(s) + Len(t)
BY SMT

\* list_add_tail adds one entry and keeps the list free of duplicates.
LEMMA AppendList ==
  ASSUME NEW S, NEW s \in Seq(S), NEW x \in S, NoDup(s), x \notin Range(s)
  PROVE  /\ Append(s, x) \in Seq(S)
         /\ NoDup(Append(s, x))
         /\ Range(Append(s, x)) = Range(s) \cup {x}
         /\ Append(s, x) # <<>>
<1> DEFINE a == Append(s, x)
<1>1. a \in Seq(S) /\ Len(a) = Len(s) + 1 /\ a[Len(s) + 1] = x
  BY SMT
<1>2. \A i \in 1..Len(s) : a[i] = s[i]
  BY SMT
<1>3. \A i \in 1..Len(s) : s[i] # x
  BY SMT, RangeSeq
<1>4. NoDup(a)
  BY SMT, <1>1, <1>2, <1>3 DEF NoDup
<1>5. Range(a) = {a[i] : i \in 1..Len(a)} /\ Range(s) = {s[i] : i \in 1..Len(s)}
  BY <1>1, RangeSeq
<1>6. Range(a) = Range(s) \cup {x}
  <2>1. ASSUME NEW y \in Range(a) PROVE y \in Range(s) \cup {x}
    BY SMT, <1>1, <1>2, <1>5, <2>1
  <2>2. ASSUME NEW y \in Range(s) PROVE y \in Range(a)
    BY SMT, <1>1, <1>2, <1>5, <2>2
  <2>3. x \in Range(a)
    BY SMT, <1>1, <1>5
  <2> QED BY <2>1, <2>2, <2>3
<1> QED BY SMT, <1>1, <1>4, <1>6

\* Unlinking the first entry.
LEMMA TailList ==
  ASSUME NEW S, NEW s \in Seq(S), NoDup(s), s # <<>>
  PROVE  /\ Head(s) \in Range(s)
         /\ Tail(s) \in Seq(S)
         /\ NoDup(Tail(s))
         /\ Range(Tail(s)) = Range(s) \ {Head(s)}
<1> DEFINE a == Tail(s)
<1>1. a \in Seq(S) /\ Len(a) = Len(s) - 1 /\ Len(s) \in Nat /\ Len(s) > 0
  BY SMT
<1>2. Head(s) = s[1] /\ \A i \in 1..Len(a) : a[i] = s[i + 1]
  BY SMT
<1>3. NoDup(a)
  BY SMT, <1>1, <1>2 DEF NoDup
<1>4. Range(a) = {a[i] : i \in 1..Len(a)} /\ Range(s) = {s[i] : i \in 1..Len(s)}
  BY <1>1, RangeSeq
<1>5. ASSUME NEW y \in Range(a) PROVE y \in Range(s) \ {Head(s)}
  <2>1. PICK i \in 1..Len(a) : y = a[i]
    BY <1>4, <1>5
  <2>2. i + 1 \in 1..Len(s) /\ y = s[i + 1] /\ i + 1 # 1 /\ 1 \in 1..Len(s)
    BY SMT, <1>1, <1>2, <2>1
  <2> QED BY <1>2, <1>4, <2>2 DEF NoDup
<1>6. ASSUME NEW y \in Range(s) \ {Head(s)} PROVE y \in Range(a)
  <2>1. PICK i \in 1..Len(s) : y = s[i]
    BY <1>4, <1>6
  <2>2. i - 1 \in 1..Len(a) /\ y = a[i - 1]
    BY SMT, <1>1, <1>2, <1>6, <2>1
  <2> QED BY <1>4, <2>2
<1>7. Head(s) \in Range(s)
  BY SMT, <1>1, <1>2, <1>4
<1> QED BY <1>1, <1>3, <1>5, <1>6, <1>7

\* a is s without its k-th entry.
Closed(a, s, k) == \A i \in 1..(Len(s) - 1) : a[i] = IF i < k THEN s[i] ELSE s[i + 1]

\* list_del takes the entry out and closes the gap.
LEMMA DelShape ==
  ASSUME NEW S, NEW s \in Seq(S), NEW x \in Range(s)
  PROVE  \E k \in 1..Len(s) :
           /\ s[k] = x
           /\ list_del(s, x) \in Seq(S) /\ Len(list_del(s, x)) = Len(s) - 1
           /\ Closed(list_del(s, x), s, k)
<1> DEFINE k == ListPos(s, x)
           b == SubSeq(s, 1, k - 1)
           c == SubSeq(s, k + 1, Len(s))
           a == list_del(s, x)
<1>1. Range(s) = {s[i] : i \in 1..Len(s)} /\ Len(s) \in Nat
  BY SMT, RangeSeq
<1>2. k \in 1..Len(s) /\ s[k] = x
  BY <1>1 DEF ListPos
<1>3. b \in Seq(S) /\ Len(b) = k - 1 /\ \A i \in 1..(k - 1) : b[i] = s[i]
  BY SMT, <1>1, <1>2
<1>4. c \in Seq(S) /\ Len(c) = Len(s) - k
      /\ \A i \in 1..(Len(s) - k) : c[i] = s[k + i]
  BY SMT, <1>1, <1>2
<1>5. a = b \o c
  BY DEF list_del
<1> HIDE DEF k, b, c, a
<1>6. a \in Seq(S) /\ Len(a) = Len(s) - 1
  <2>1. a \in Seq(S) /\ Len(a) = Len(b) + Len(c)
    BY <1>3, <1>4, <1>5, ConcatSeq
  <2> QED BY SMT, <1>1, <1>2, <1>3, <1>4, <2>1
<1>7. ASSUME NEW i \in 1..(Len(s) - 1)
      PROVE  a[i] = IF i < k THEN s[i] ELSE s[i + 1]
  <2>1. CASE i < k
    BY SMT, <1>1, <1>2, <1>3, <1>4, <1>5, <2>1
  <2>2. CASE i >= k
    <3>1. a[i] = c[i - (k - 1)] /\ i - (k - 1) \in 1..(Len(s) - k)
      <4>1. i \in Nat /\ ~(i <= Len(b)) /\ i \in 1..(Len(b) + Len(c))
            /\ i - (k - 1) \in 1..(Len(s) - k)
        BY SMT, <1>1, <1>2, <1>3, <1>4, <2>2
      <4>2. (b \o c)[i] = c[i - Len(b)]
        BY SMT, <1>3, <1>4, <4>1
      <4> QED BY <1>3, <1>5, <4>1, <4>2
    <3>2. k + (i - (k - 1)) = i + 1
      BY SMT, <1>1, <1>2
    <3>3. c[i - (k - 1)] = s[k + (i - (k - 1))]
      BY <1>4, <3>1
    <3>4. ~(i < k)
      BY SMT, <1>2, <2>2
    <3> QED BY <3>1, <3>2, <3>3, <3>4
  <2>3. i < k \/ i >= k
    BY SMT, <1>2
  <2> QED BY <2>1, <2>2, <2>3
<1>8. Closed(a, s, k)
  BY <1>7 DEF Closed
<1> QED BY <1>2, <1>6, <1>8 DEF a

\* list_del unlinks exactly the given entry, wherever it stands.
LEMMA DelList ==
  ASSUME NEW S, NEW s \in Seq(S), NEW x \in Range(s), NoDup(s)
  PROVE  /\ list_del(s, x) \in Seq(S)
         /\ NoDup(list_del(s, x))
         /\ Range(list_del(s, x)) = Range(s) \ {x}
<1> DEFINE a == list_del(s, x)
<1>1. Range(s) = {s[i] : i \in 1..Len(s)} /\ Len(s) \in Nat
  BY SMT, RangeSeq
<1>2. PICK k \in 1..Len(s) :
        /\ s[k] = x
        /\ a \in Seq(S) /\ Len(a) = Len(s) - 1
        /\ Closed(a, s, k)
  BY DelShape
<1> HIDE DEF a
<1>6. a \in Seq(S) /\ Len(a) = Len(s) - 1
  BY <1>2
<1>7. \A i \in 1..(Len(s) - 1) : a[i] = IF i < k THEN s[i] ELSE s[i + 1]
  BY <1>2 DEF Closed
<1>8. NoDup(a)
  <2> DEFINE up(i) == IF i < k THEN i ELSE i + 1
  <2>1. \A i \in 1..(Len(s) - 1) : up(i) \in 1..Len(s) /\ a[i] = s[up(i)]
    <3>1. \A i \in 1..(Len(s) - 1) : i \in 1..Len(s) /\ i + 1 \in 1..Len(s)
      BY SMT, <1>1
    <3> QED BY <1>7, <3>1
  <2>2. \A i, j \in 1..(Len(s) - 1) : up(i) = up(j) => i = j
    BY SMT, <1>1
  <2> HIDE DEF up
  <2>3. \A i, j \in 1..(Len(s) - 1) : a[i] = a[j] => up(i) = up(j)
    BY <2>1 DEF NoDup
  <2> QED BY <1>6, <2>2, <2>3 DEF NoDup
<1>9. Range(a) = {a[i] : i \in 1..Len(a)}
  BY <1>6, RangeSeq
<1>10. ASSUME NEW y \in Range(a) PROVE y \in Range(s) \ {x}
  <2>1. PICK i \in 1..(Len(s) - 1) : y = a[i]
    BY <1>6, <1>9, <1>10
  <2>2. y = IF i < k THEN s[i] ELSE s[i + 1]
    BY <1>7, <2>1
  <2> DEFINE j == IF i < k THEN i ELSE i + 1
  <2>3. j \in 1..Len(s) /\ j # k /\ y = s[j]
    BY SMT, <1>1, <1>2, <2>2
  <2> HIDE DEF j
  <2> QED BY <1>1, <1>2, <2>3 DEF NoDup
<1>11. ASSUME NEW y \in Range(s) \ {x} PROVE y \in Range(a)
  <2>1. PICK j \in 1..Len(s) : y = s[j] /\ j # k
    BY <1>1, <1>2, <1>11
  <2>2. CASE j < k
    <3>1. j \in 1..(Len(s) - 1)
      BY SMT, <1>1, <2>2
    <3>2. a[j] = s[j]
      BY <1>7, <2>2, <3>1
    <3> QED BY <1>6, <1>9, <2>1, <3>1, <3>2
  <2>3. CASE j > k
    <3>1. j - 1 \in 1..(Len(s) - 1) /\ ~(j - 1 < k) /\ (j - 1) + 1 = j
      BY SMT, <1>1, <2>3
    <3>2. a[j - 1] = s[j]
      BY <1>7, <3>1
    <3> QED BY <1>6, <1>9, <2>1, <3>1, <3>2
  <2>4. j < k \/ j > k
    BY SMT, <2>1
  <2> QED BY <2>2, <2>3, <2>4
<1> QED BY <1>6, <1>8, <1>10, <1>11 DEF a

\* The others keep their order.
LEMMA DelOrder ==
  ASSUME NEW S, NEW s \in Seq(S), NEW x \in Range(s), NoDup(s),
         NEW y, NEW z, Precedes(s, y, z), y # x, z # x
  PROVE  Precedes(list_del(s, x), y, z)
<1> DEFINE a == list_del(s, x)
<1>1. Len(s) \in Nat
  BY SMT
<1>2. PICK k \in 1..Len(s) :
        /\ s[k] = x
        /\ a \in Seq(S) /\ Len(a) = Len(s) - 1
        /\ Closed(a, s, k)
  BY DelShape
<1>3. PICK i \in 1..Len(s), j \in 1..Len(s) : i < j /\ s[i] = y /\ s[j] = z
  BY DEF Precedes
<1> HIDE DEF a
<1>4. i # k /\ j # k
  BY <1>2, <1>3
<1> DEFINE b == IF i < k THEN i ELSE i - 1
           c == IF j < k THEN j ELSE j - 1
<1>5. b \in 1..(Len(s) - 1) /\ c \in 1..(Len(s) - 1) /\ b < c
  BY SMT, <1>1, <1>3, <1>4
<1>6. a[b] = y /\ a[c] = z
  <2>1. (b = i /\ b < k) \/ (b + 1 = i /\ ~(b < k))
    BY SMT, <1>1, <1>4
  <2>2. (c = j /\ c < k) \/ (c + 1 = j /\ ~(c < k))
    BY SMT, <1>1, <1>4
  <2> HIDE DEF b, c
  <2> QED BY <1>2, <1>3, <1>5, <2>1, <2>2 DEF Closed
<1> HIDE DEF b, c
<1>7. Precedes(a, y, z)
  BY <1>2, <1>5, <1>6 DEF Precedes
<1> QED BY <1>7 DEF a

\* Queueing behind somebody leaves the first entry alone.
LEMMA HeadAppend ==
  ASSUME NEW S, NEW s \in Seq(S), NEW x \in S
  PROVE  Head(Append(s, x)) = IF s = <<>> THEN x ELSE Head(s)
BY SMT

\* So does unlinking an entry that is not the first one.
LEMMA HeadDel ==
  ASSUME NEW S, NEW s \in Seq(S), NEW x \in Range(s), NoDup(s), x # Head(s)
  PROVE  s # <<>> /\ list_del(s, x) # <<>> /\ Head(list_del(s, x)) = Head(s)
<1> DEFINE k == ListPos(s, x)
           b == SubSeq(s, 1, k - 1)
           c == SubSeq(s, k + 1, Len(s))
<1>1. Range(s) = {s[i] : i \in 1..Len(s)} /\ Len(s) \in Nat
  BY SMT, RangeSeq
<1>2. k \in 1..Len(s) /\ s[k] = x
  BY <1>1 DEF ListPos
<1>3. Head(s) = s[1] /\ k > 1
  BY SMT, <1>1, <1>2
<1>4. b \in Seq(S) /\ Len(b) = k - 1 /\ \A i \in 1..(k - 1) : b[i] = s[i]
  BY SMT, <1>1, <1>2
<1>5. c \in Seq(S) /\ Len(c) \in Nat
  BY SMT, <1>1, <1>2
<1>6. list_del(s, x) = b \o c
  BY DEF list_del
<1> HIDE DEF k, b, c
<1>7. b[1] = s[1] /\ Len(b) > 0
  BY SMT, <1>2, <1>3, <1>4
<1>8. b \o c # <<>> /\ Head(b \o c) = b[1]
  BY SMT, <1>4, <1>5, <1>7
<1> QED BY SMT, <1>1, <1>2, <1>3, <1>6, <1>7, <1>8
-----------------------------------------------------------------------------
\* Counting up: a set that holds 0, and k + 1 with every k below n, holds n.  (If
\* not, k |-> k - 1 maps the numbers up to n that are missing one to one to those
\* that are missing without n, which are fewer.)
LEMMA Reaches ==
  ASSUME NEW n \in Nat, NEW T, 0 \in T, \A k \in 0..n : k \in T /\ k < n => k + 1 \in T
  PROVE  n \in T
<1> SUFFICES ASSUME n \notin T PROVE FALSE
  OBVIOUS
<1> DEFINE B == {k \in 0..n : k \notin T}
           f == [k \in B |-> k - 1]
<1>1. ASSUME NEW k \in B PROVE k - 1 \in B \ {n}
  <2>1. k \in 1..n /\ k - 1 \in 0..n /\ k - 1 < n /\ (k - 1) + 1 = k
    BY SMT, <1>1
  <2> QED BY SMT, <1>1, <2>1
<1>2. f \in Injection(B, B \ {n})
  BY SMT, <1>1 DEF Injection, IsInjective
<1>3. n \in B /\ B \in SUBSET (0..n)
  BY SMT
<1> HIDE DEF B, f
<1>4. ExistsBijection(1..(n + 1), 0..n)
  <2>1. n - 0 + 1 = n + 1 /\ 0 <= n /\ 0 \in Int /\ n \in Int
    BY SMT
  <2>2. ExistsBijection(1..(n - 0 + 1), 0..n)
    BY <2>1, Fun_ExistsBijInterval
  <2> QED BY <2>1, <2>2
<1>5. PICK m \in Nat : ExistsBijection(1..m, B)
  <2>1. n + 1 \in Nat
    BY SMT
  <2> QED BY <1>3, <1>4, <2>1, Fun_NatBijSubset
<1>6. m # 0
  BY <1>3, <1>5, Fun_NatBijEmpty
<1>7. ExistsBijection(1..(m - 1), B \ {n}) /\ m - 1 \in Nat
  BY SMT, <1>3, <1>5, <1>6, Fun_NatBijSubElem
<1>8. ExistsInjection(1..m, B)
  BY <1>5 DEF ExistsInjection, ExistsBijection, Bijection
<1>9. ExistsInjection(B \ {n}, 1..(m - 1))
  <2>1. ExistsBijection(B \ {n}, 1..(m - 1))
    BY <1>7, Fun_ExistsBijSymmetric
  <2> QED BY <2>1 DEF ExistsInjection, ExistsBijection, Bijection
<1>10. ExistsInjection(1..m, 1..(m - 1))
  <2>1. ExistsInjection(1..m, B \ {n})
    BY <1>2, <1>8, Fun_ExistsInjTransitive DEF ExistsInjection
  <2> QED BY <1>9, <2>1, Fun_ExistsInjTransitive
<1>11. m <= m - 1
  BY <1>5, <1>7, <1>10, Fun_NatInjLeq
<1> QED BY SMT, <1>11

\* A set of numbers has a least one ...
LEMMA Least ==
  ASSUME NEW T \in SUBSET Nat, T # {}
  PROVE  \E k \in T : \A j \in T : k <= j
<1> SUFFICES ASSUME \A k \in T : \E j \in T : ~(k <= j) PROVE FALSE
  OBVIOUS
<1>1. PICK n \in Nat : n \in T
  OBVIOUS
<1> DEFINE R == {k \in Nat : \A j \in 0..k : j \notin T}
<1>2. 0 \in R
  BY SMT
<1>3. ASSUME NEW k \in 0..n, k \in R PROVE k + 1 \in R
  <2>1. \A j \in T : j >= k + 1
    BY SMT, <1>3
  <2>2. k + 1 \notin T
    BY SMT, <2>1
  <2> QED BY SMT, <2>1, <2>2
<1> HIDE DEF R
<1>4. n \in R
  BY <1>2, <1>3, Reaches
<1>5. n \in 0..n
  BY SMT
<1> QED BY <1>1, <1>4, <1>5 DEF R

\* ... and a greatest one if it is bounded.
LEMMA Greatest ==
  ASSUME NEW m \in Nat, NEW T \in SUBSET (0..m), T # {}
  PROVE  \E k \in T : \A j \in T : j <= k
<1> DEFINE U == {k \in Nat : k <= m /\ m - k \in T}
<1>1. U \in SUBSET Nat
  OBVIOUS
<1>2. PICK i \in T : TRUE
  OBVIOUS
<1>3. m - i \in U
  BY SMT, <1>2
<1>4. PICK k \in U : \A j \in U : k <= j
  BY <1>1, <1>3, Least
<1>5. \A j \in T : m - j \in U /\ m - j \in Nat /\ j \in Nat
  BY SMT
<1>6. \A j \in T : k <= m - j
  BY <1>4, <1>5
<1>7. m - k \in T /\ k \in Nat
  BY <1>4
<1> HIDE DEF U
<1>8. \A j \in T : j <= m - k
  BY SMT, <1>5, <1>6, <1>7
<1> QED BY <1>7, <1>8

\* A finite set has a number of elements, and so has every subset.
LEMMA Counted ==
  ASSUME NEW S, IsFiniteSet(S)
  PROVE  \E m \in Nat : \A s \in SUBSET S : \E k \in 0..m : ExistsBijection(1..k, s)
<1>1. PICK q \in Seq(S) : \A s \in S : \E n \in 1..Len(q) : q[n] = s
  BY DEF IsFiniteSet
<1>2. q \in Surjection(1..Len(q), S) /\ Len(q) \in Nat
  BY SMT, <1>1 DEF Surjection
<1>3. PICK m \in Nat : ExistsBijection(1..m, S)
  BY <1>2, Fun_NatSurjImpliesNatBij DEF ExistsSurjection
<1>4. ASSUME NEW s \in SUBSET S PROVE \E k \in 0..m : ExistsBijection(1..k, s)
  <2>1. PICK k \in Nat : ExistsBijection(1..k, s) /\ k <= m
    BY <1>3, Fun_NatBijSubset
  <2> QED BY SMT, <2>1
<1> QED BY <1>4

\* Taking an element away.
LEMMA CountDown ==
  ASSUME NEW s, NEW k \in Nat, ExistsBijection(1..k, s), NEW x \in s
  PROVE  k - 1 \in Nat /\ ExistsBijection(1..(k - 1), s \ {x})
<1>1. k # 0
  BY Fun_NatBijEmpty
<1>2. ExistsBijection(1..(k - 1), s \ {x})
  BY Fun_NatBijSubElem
<1> QED BY SMT, <1>1, <1>2

\* Building up: a set of sets that holds {}, and every s once it holds the sets
\* with one element of s less, holds all subsets of a finite set.
LEMMA SubsetInduction ==
  ASSUME NEW S, IsFiniteSet(S), NEW T, {} \in T,
         \A s \in SUBSET S : s # {} /\ (\A x \in s : s \ {x} \in T) => s \in T
  PROVE  SUBSET S \subseteq T
<1> DEFINE R == {n \in Nat : \A s \in SUBSET S : ExistsBijection(1..n, s) => s \in T}
<1>1. 0 \in R
  BY Fun_NatBijEmpty
<1>2. ASSUME NEW k \in Nat, k \in R PROVE k + 1 \in R
  <2> SUFFICES ASSUME NEW s \in SUBSET S, ExistsBijection(1..(k + 1), s) PROVE s \in T
    BY SMT
  <2>1. ASSUME NEW x \in s PROVE s \ {x} \in T
    <3>1. k + 1 \in Nat /\ (k + 1) - 1 = k
      BY SMT
    <3>2. ExistsBijection(1..((k + 1) - 1), s \ {x})
      BY <3>1, CountDown
    <3> QED BY <1>2, <3>1, <3>2
  <2> QED BY <2>1
<1>3. \A n \in Nat : n \in R
  <2> HIDE DEF R
  <2> SUFFICES ASSUME NEW n \in Nat PROVE n \in R
    OBVIOUS
  <2>1. \A k \in 0..n : k \in R /\ k < n => k + 1 \in R
    BY SMT, <1>2
  <2> QED BY <1>1, <2>1, Reaches
<1>4. \A s \in SUBSET S : \E k \in Nat : ExistsBijection(1..k, s)
  BY SMT, Counted
<1> QED BY <1>3, <1>4

-----------------------------------------------------------------------------
\* What has a number of elements is finite.
LEMMA Enumerated ==
  ASSUME NEW S, NEW n \in Nat, ExistsBijection(1..n, S)
  PROVE  IsFiniteSet(S)
<1>1. PICK f \in [1..n -> S] : \A x \in S : \E k \in 1..n : f[k] = x
  BY DEF ExistsBijection, Bijection, Surjection
<1>2. f \in Seq(S) /\ Len(f) = n
  BY SMT
<1> QED BY <1>1, <1>2 DEF IsFiniteSet

\* Cardinality counts the elements.
LEMMA Sized ==
  ASSUME NEW S, NEW n \in Nat, ExistsBijection(1..n, S)
  PROVE  Cardinality(S) = n
<1> DEFINE G == [T \in SUBSET S |-> CHOOSE k \in Nat : ExistsBijection(1..k, T)]
           Some(T) == CHOOSE x : x \in T
           CS == CHOOSE CS : CS = [T \in SUBSET S |-> IF T = {} THEN 0 ELSE 1 + CS[T \ {Some(T)}]]
<1>1. \A T \in SUBSET S : G[T] \in Nat /\ ExistsBijection(1..G[T], T)
  <2> TAKE T \in SUBSET S
  <2>1. \E k \in Nat : ExistsBijection(1..k, T)
    BY Zenon, Fun_NatBijSubset
  <2> QED BY <2>1
<1>2. \A T \in SUBSET S : \A k \in Nat : ExistsBijection(1..k, T) => G[T] = k
  BY <1>1, Fun_NatBijSame
<1> HIDE DEF G
<1>3. ASSUME NEW T \in SUBSET S, T # {}
      PROVE  Some(T) \in T /\ T \ {Some(T)} \in SUBSET S /\ G[T] = 1 + G[T \ {Some(T)}]
  <2>1. Some(T) \in T
    BY <1>3
  <2>2. G[T] \in Nat /\ ExistsBijection(1..G[T], T) /\ T \ {Some(T)} \in SUBSET S
    BY <1>1
  <2> HIDE DEF Some
  <2>3. G[T] - 1 \in Nat /\ ExistsBijection(1..(G[T] - 1), T \ {Some(T)})
    BY <2>1, <2>2, CountDown
  <2>4. G[T \ {Some(T)}] = G[T] - 1
    BY <1>2, <2>2, <2>3
  <2>5. 1 + (G[T] - 1) = G[T]
    BY SMT, <2>2
  <2> QED BY <2>1, <2>2, <2>4, <2>5
<1>4. G[{}] = 0
  <2>1. ExistsBijection(1..0, {}) /\ {} \in SUBSET S /\ 0 \in Nat
    BY Fun_NatBijEmpty
  <2> QED BY <1>2, <2>1
<1> HIDE DEF Some
<1>5. G = [T \in SUBSET S |-> IF T = {} THEN 0 ELSE 1 + G[T \ {Some(T)}]]
  BY <1>3, <1>4 DEF G
<1>6. CS = [T \in SUBSET S |-> IF T = {} THEN 0 ELSE 1 + CS[T \ {Some(T)}]]
  BY <1>5
<1> HIDE DEF CS
<1>7. \A T \in SUBSET S : CS[T] = G[T]
  <2> DEFINE R == {T \in SUBSET S : CS[T] = G[T]}
  <2>1. {} \in R
    BY <1>4, <1>6
  <2>2. ASSUME NEW T \in SUBSET S, T # {}, \A x \in T : T \ {x} \in R PROVE T \in R
    BY <1>3, <1>6, <2>2
  <2>3. IsFiniteSet(S)
    BY Enumerated
  <2> HIDE DEF R
  <2>4. SUBSET S \subseteq R
    BY <2>1, <2>2, <2>3, SubsetInduction
  <2> QED BY <2>4 DEF R
<1>8. Cardinality(S) = CS[S]
  BY DEF Cardinality, CS, Some
<1> QED BY <1>2, <1>7, <1>8

\* A finite set has a size, its subsets are finite and no larger, and only the
\* empty one has size zero.
LEMMA CardSubset ==
  ASSUME NEW S, IsFiniteSet(S), NEW T \in SUBSET S
  PROVE  /\ Cardinality(S) \in Nat /\ IsFiniteSet(T)
         /\ Cardinality(T) \in Nat /\ Cardinality(T) <= Cardinality(S)
         /\ Cardinality(T) = 0 <=> T = {}
<1>1. PICK m \in Nat : ExistsBijection(1..m, S)
  <2>1. PICK k \in Nat : \A s \in SUBSET S : \E j \in 0..k : ExistsBijection(1..j, s)
    BY Counted
  <2>2. PICK j \in 0..k : ExistsBijection(1..j, S)
    BY <2>1
  <2>3. j \in Nat
    BY SMT
  <2> QED BY <2>2, <2>3
<1>2. PICK j \in Nat : ExistsBijection(1..j, T) /\ j <= m
  BY <1>1, Fun_NatBijSubset
<1>3. Cardinality(S) = m /\ Cardinality(T) = j /\ IsFiniteSet(T)
  BY <1>1, <1>2, Sized, Enumerated
<1>4. j = 0 <=> T = {}
  <2>1. CASE T = {}
    <3>1. ExistsBijection(1..0, T) /\ 0 \in Nat
      BY <2>1, Fun_NatBijEmpty
    <3> QED BY <1>2, <2>1, <3>1, Fun_NatBijSame
  <2>2. CASE T # {}
    BY <1>2, <2>2, Fun_NatBijEmpty
  <2> QED BY <2>1, <2>2
<1> QED BY <1>1, <1>2, <1>3, <1>4

\* The empty set.
LEMMA CardEmpty == Cardinality({}) = 0
<1>1. ExistsBijection(1..0, {}) /\ 0 \in Nat
  BY Fun_NatBijEmpty
<1> QED BY <1>1, Sized

\* A set, its number and the bijection that counts it.
LEMMA CardCounts ==
  ASSUME NEW S, IsFiniteSet(S)
  PROVE  Cardinality(S) \in Nat /\ ExistsBijection(1..Cardinality(S), S)
<1>1. PICK k \in Nat : \A s \in SUBSET S : \E j \in 0..k : ExistsBijection(1..j, s)
  BY Counted
<1>2. PICK j \in 0..k : ExistsBijection(1..j, S)
  BY <1>1
<1>3. j \in Nat
  BY SMT
<1> QED BY <1>2, <1>3, Sized

\* One element more.
LEMMA CardMore ==
  ASSUME NEW S, IsFiniteSet(S), NEW x, x \notin S
  PROVE  IsFiniteSet(S \cup {x}) /\ Cardinality(S \cup {x}) = Cardinality(S) + 1
<1>1. Cardinality(S) \in Nat /\ ExistsBijection(1..Cardinality(S), S)
  BY CardCounts
<1>2. ExistsBijection(1..(Cardinality(S) + 1), S \cup {x})
  BY <1>1, Fun_NatBijAddElem
<1>3. Cardinality(S) + 1 \in Nat
  BY SMT, <1>1
<1> QED BY <1>2, <1>3, Sized, Enumerated

\* One element less.
LEMMA CardLess ==
  ASSUME NEW S, IsFiniteSet(S), NEW x \in S
  PROVE  Cardinality(S \ {x}) = Cardinality(S) - 1 /\ Cardinality(S) - 1 \in Nat
<1>1. Cardinality(S) \in Nat /\ ExistsBijection(1..Cardinality(S), S)
  BY CardCounts
<1>2. Cardinality(S) - 1 \in Nat /\ ExistsBijection(1..(Cardinality(S) - 1), S \ {x})
  BY <1>1, CountDown
<1> QED BY <1>2, Sized

\* Two sets that share no element.
LEMMA CardUnion ==
  ASSUME NEW S, IsFiniteSet(S), NEW A \in SUBSET S, NEW B \in SUBSET S, A \cap B = {}
  PROVE  Cardinality(A \cup B) = Cardinality(A) + Cardinality(B)
<1> DEFINE R == {b \in SUBSET B : Cardinality(A \cup b) = Cardinality(A) + Cardinality(b)}
<1>1. IsFiniteSet(A) /\ IsFiniteSet(B) /\ Cardinality(A) \in Nat
  BY CardSubset
<1>2. {} \in R
  <2>1. A \cup {} = A /\ {} \in SUBSET B
    OBVIOUS
  <2>2. Cardinality(A) = Cardinality(A) + 0
    BY SMT, <1>1
  <2> QED BY <2>1, <2>2, CardEmpty
<1>3. ASSUME NEW b \in SUBSET B, b # {}, \A x \in b : b \ {x} \in R PROVE b \in R
  <2>1. PICK x \in b : b \ {x} \in R
    BY <1>3
  <2> DEFINE c == b \ {x}
  <2>2. /\ c \in SUBSET B /\ Cardinality(A \cup c) = Cardinality(A) + Cardinality(c)
        /\ A \cup c \in SUBSET S
    BY <2>1
  <2>3. x \notin c /\ x \notin A \cup c /\ b = c \cup {x} /\ A \cup b = (A \cup c) \cup {x}
    OBVIOUS
  <2>4. IsFiniteSet(c) /\ Cardinality(c) \in Nat /\ IsFiniteSet(A \cup c)
    BY <1>1, <2>2, CardSubset
  <2> HIDE DEF c
  <2>5. Cardinality(b) = Cardinality(c) + 1 /\ Cardinality(A \cup b) = Cardinality(A \cup c) + 1
    BY <2>3, <2>4, CardMore
  <2>6. Cardinality(A \cup b) = Cardinality(A) + Cardinality(b)
    BY SMT, <1>1, <2>2, <2>4, <2>5
  <2> QED BY <2>6
<1> HIDE DEF R
<1>4. SUBSET B \subseteq R
  BY <1>1, <1>2, <1>3, SubsetInduction
<1> QED BY <1>4 DEF R

\* The numbers up to n.
LEMMA UpTo ==
  ASSUME NEW n \in Nat
  PROVE  IsFiniteSet(1..n)
<1>1. ExistsBijection(1..n, 1..n)
  <2> DEFINE f == [k \in 1..n |-> k]
  <2>1. f \in Bijection(1..n, 1..n)
    BY DEF Bijection, Injection, Surjection, IsInjective
  <2> QED BY <2>1 DEF ExistsBijection
<1> QED BY <1>1, Enumerated
-----------------------------------------------------------------------------
\* The sums over the subsets of S, by taking an element away.
SumOver(f, g, s) == IF s = {} THEN 0 ELSE LET x == CHOOSE x \in s : TRUE IN f[x] + g[s \ {x}]

\* There is such a function: for the empty set, and from the sets of up to k
\* elements on to those of k + 1.
LEMMA SumsExist ==
  ASSUME NEW S, IsFiniteSet(S), NEW f
  PROVE  \E g : g = [s \in SUBSET S |-> SumOver(f, g, s)]
<1> DEFINE Sub(n) == {s \in SUBSET S : \E k \in 0..n : ExistsBijection(1..k, s)}
           R == {n \in Nat : \E g : g = [s \in Sub(n) |-> SumOver(f, g, s)]}
<1>1. ASSUME NEW k \in Nat, NEW s \in Sub(k + 1), s # {}
      PROVE  (CHOOSE x \in s : TRUE) \in s /\ s \ {CHOOSE x \in s : TRUE} \in Sub(k)
  <2>1. (CHOOSE x \in s : TRUE) \in s
    BY <1>1
  <2>2. PICK j \in 0..(k + 1) : ExistsBijection(1..j, s)
    OBVIOUS
  <2>3. j - 1 \in Nat /\ ExistsBijection(1..(j - 1), s \ {CHOOSE x \in s : TRUE})
    <3>1. j \in Nat
      BY SMT, <2>2
    <3> QED BY <2>1, <2>2, <3>1, CountDown
  <2>4. j - 1 \in 0..k
    BY SMT, <2>2, <2>3
  <2> QED BY <2>1, <2>3, <2>4
<1>2. 0 \in R
  <2> DEFINE g == [s \in Sub(0) |-> 0]
  <2>1. \A s \in Sub(0) : s = {}
    BY SMT, Fun_NatBijEmpty
  <2>2. g = [s \in Sub(0) |-> SumOver(f, g, s)]
    BY <2>1 DEF SumOver
  <2> QED BY <2>2
<1>3. ASSUME NEW k \in Nat, k \in R PROVE k + 1 \in R
  <2>1. PICK g : g = [s \in Sub(k) |-> SumOver(f, g, s)]
    BY <1>3
  <2> DEFINE h == [s \in Sub(k + 1) |-> SumOver(f, g, s)]
  <2>2. \A s \in Sub(k) : s \in Sub(k + 1)
    BY SMT
  <2>3. \A s \in Sub(k) : h[s] = g[s]
    <3> HIDE DEF Sub
    <3> QED BY <2>1, <2>2
  <2>4. \A s \in Sub(k + 1) : SumOver(f, g, s) = SumOver(f, h, s)
    <3> SUFFICES ASSUME NEW s \in Sub(k + 1), s # {} PROVE SumOver(f, g, s) = SumOver(f, h, s)
      BY DEF SumOver
    <3>1. s \ {CHOOSE x \in s : TRUE} \in Sub(k)
      BY <1>1
    <3> HIDE DEF h, Sub
    <3>2. g[s \ {CHOOSE x \in s : TRUE}] = h[s \ {CHOOSE x \in s : TRUE}]
      BY <2>3, <3>1
    <3> QED BY <3>2 DEF SumOver
  <2>5. h = [s \in Sub(k + 1) |-> SumOver(f, h, s)]
    <3> HIDE DEF Sub
    <3> QED BY <2>4
  <2>6. \E g1 : g1 = [s \in Sub(k + 1) |-> SumOver(f, g1, s)]
    <3> HIDE DEF h
    <3> QED BY <2>5
  <2> QED
    <3> HIDE DEF Sub
    <3> QED BY SMT, <2>6
<1>4. PICK m \in Nat : Sub(m) = SUBSET S
  BY Counted
<1>5. m \in R
  <2> HIDE DEF R
  <2>1. \A k \in 0..m : k \in R /\ k < m => k + 1 \in R
    BY SMT, <1>3
  <2> QED BY <1>2, <2>1, Reaches
<1> QED BY <1>4, <1>5

\* It is the one SumFunctionOnSet adds up with.
LEMMA SumStep ==
  ASSUME NEW S, IsFiniteSet(S), NEW f
  PROVE  \E g : /\ g = [s \in SUBSET S |-> SumOver(f, g, s)]
                /\ SumFunctionOnSet(f, S) = g[S]
<1> DEFINE g == CHOOSE g : g = [s \in SUBSET S |-> SumOver(f, g, s)]
<1>1. g = [s \in SUBSET S |-> SumOver(f, g, s)]
  BY SMT, SumsExist
<1>2. SumFunctionOnSet(f, S) = g[S]
  BY DEF SumFunctionOnSet, FoldFunctionOnSet, MapThenFoldSet, SumOver
<1> QED BY <1>1, <1>2

\* A sum of integers is an integer.
LEMMA SumType ==
  ASSUME NEW S, IsFiniteSet(S), NEW f \in [S -> Int]
  PROVE  SumFunction(f) \in Int
<1>1. PICK g : g = [s \in SUBSET S |-> SumOver(f, g, s)] /\ SumFunctionOnSet(f, S) = g[S]
  BY SumStep
<1> DEFINE T == {s \in SUBSET S : g[s] \in Int}
<1>2. {} \in T
  BY SMT, <1>1 DEF SumOver
<1>3. ASSUME NEW s \in SUBSET S, s # {}, \A x \in s : s \ {x} \in T PROVE s \in T
  <2>1. PICK x \in s : g[s] = f[x] + g[s \ {x}]
    BY <1>1, <1>3 DEF SumOver
  <2>2. s \ {x} \in T /\ f[x] \in Int
    BY <1>3
  <2> QED BY SMT, <2>1, <2>2
<1>4. SUBSET S \subseteq T
  <2> HIDE DEF T
  <2> QED BY <1>2, <1>3, SubsetInduction
<1> QED BY <1>1, <1>4 DEF SumFunction

\* A sum changes by as much as one of its terms.
LEMMA SumChange ==
  ASSUME NEW S, IsFiniteSet(S), NEW f \in [S -> Int], NEW e \in [S -> Int], NEW c \in S,
         \A x \in S \ {c} : e[x] = f[x]
  PROVE  SumFunction(e) = SumFunction(f) - f[c] + e[c]
<1>1. PICK g : g = [s \in SUBSET S |-> SumOver(f, g, s)] /\ SumFunctionOnSet(f, S) = g[S]
  BY SumStep
<1>2. PICK h : h = [s \in SUBSET S |-> SumOver(e, h, s)] /\ SumFunctionOnSet(e, S) = h[S]
  BY SumStep
<1> DEFINE T == {s \in SUBSET S : /\ g[s] \in Int
                                /\ h[s] = IF c \in s THEN g[s] - f[c] + e[c] ELSE g[s]}
<1>3. {} \in T
  BY SMT, <1>1, <1>2 DEF SumOver
<1>4. ASSUME NEW s \in SUBSET S, s # {}, \A x \in s : s \ {x} \in T PROVE s \in T
  <2> DEFINE x == CHOOSE x \in s : TRUE
  <2>0. x \in s
    BY <1>4
  <2>1. g[s] = f[x] + g[s \ {x}] /\ h[s] = e[x] + h[s \ {x}]
    <3>1. g[s] = SumOver(f, g, s) /\ h[s] = SumOver(e, h, s)
      BY <1>1, <1>2
    <3> QED BY <1>4, <3>1 DEF SumOver
  <2> HIDE DEF x
  <2>2. s \ {x} \in T
    BY <1>4, <2>0
  <2>3. x \in S /\ f[x] \in Int /\ f[c] \in Int /\ e[c] \in Int
    BY <2>0
  <2>4. CASE x = c
    BY SMT, <2>0, <2>1, <2>2, <2>3, <2>4
  <2>5. CASE x # c
    BY SMT, <2>0, <2>1, <2>2, <2>3, <2>5
  <2> QED BY <2>4, <2>5
<1>5. SUBSET S \subseteq T
  <2> HIDE DEF T
  <2> QED BY <1>3, <1>4, SubsetInduction
<1> QED BY <1>1, <1>2, <1>5 DEF SumFunction

\* No term exceeds the sum of natural numbers.
LEMMA SumNat ==
  ASSUME NEW S, IsFiniteSet(S), NEW f \in [S -> Nat]
  PROVE  /\ SumFunction(f) \in Nat
         /\ \A c \in S : f[c] <= SumFunction(f)
<1>1. PICK g : g = [s \in SUBSET S |-> SumOver(f, g, s)] /\ SumFunctionOnSet(f, S) = g[S]
  BY SumStep
<1> DEFINE T == {s \in SUBSET S : g[s] \in Nat /\ \A c \in s : f[c] <= g[s]}
<1>2. {} \in T
  BY SMT, <1>1 DEF SumOver
<1>3. ASSUME NEW s \in SUBSET S, s # {}, \A x \in s : s \ {x} \in T PROVE s \in T
  <2>1. PICK x \in s : g[s] = f[x] + g[s \ {x}]
    BY <1>1, <1>3 DEF SumOver
  <2>2. s \ {x} \in T /\ f[x] \in Nat
    BY <1>3
  <2>3. g[s] \in Nat /\ g[s \ {x}] <= g[s] /\ f[x] <= g[s]
    BY SMT, <2>1, <2>2
  <2>4. ASSUME NEW c \in s PROVE f[c] <= g[s]
    <3>1. CASE c = x
      BY <3>1, <2>3
    <3>2. CASE c # x
      <4>1. f[c] <= g[s \ {x}] /\ f[c] \in Nat /\ g[s \ {x}] \in Nat
        BY <3>2, <2>2
      <4> QED BY SMT, <4>1, <2>3
    <3> QED BY <3>1, <3>2
  <2> QED BY <2>3, <2>4
<1>4. SUBSET S \subseteq T
  <2> HIDE DEF T
  <2> QED BY <1>2, <1>3, SubsetInduction
<1>5. g[S] \in Nat /\ \A c \in S : f[c] <= g[S]
  BY <1>4
<1>6. SumFunction(f) = g[S]
  BY <1>1 DEF SumFunction
<1> QED BY <1>5, <1>6

\* The sum of natural numbers is zero just when all are.
LEMMA SumZero ==
  ASSUME NEW S, IsFiniteSet(S), NEW f \in [S -> Nat]
  PROVE  SumFunction(f) = 0 <=> \A c \in S : f[c] = 0
<1>1. PICK g : g = [s \in SUBSET S |-> SumOver(f, g, s)] /\ SumFunctionOnSet(f, S) = g[S]
  BY SumStep
<1>2. SUFFICES ASSUME \A c \in S : f[c] = 0 PROVE SumFunction(f) = 0
  BY SMT, SumNat
<1> DEFINE T == {s \in SUBSET S : g[s] = 0}
<1>3. {} \in T
  BY <1>1 DEF SumOver
<1>4. ASSUME NEW s \in SUBSET S, s # {}, \A x \in s : s \ {x} \in T PROVE s \in T
  <2>1. PICK x \in s : g[s] = f[x] + g[s \ {x}]
    BY <1>1, <1>4 DEF SumOver
  <2> QED BY SMT, <1>2, <1>4, <2>1
<1>5. SUBSET S \subseteq T
  <2> HIDE DEF T
  <2> QED BY <1>3, <1>4, SubsetInduction
<1> QED BY <1>1, <1>5 DEF SumFunction

\* Sums add up.
LEMMA SumAdd ==
  ASSUME NEW S, IsFiniteSet(S), NEW f \in [S -> Int], NEW e \in [S -> Int]
  PROVE  SumFunction([x \in S |-> f[x] + e[x]]) = SumFunction(f) + SumFunction(e)
<1> DEFINE b == [x \in S |-> f[x] + e[x]]
<1>0. DOMAIN b = S /\ \A x \in S : b[x] = f[x] + e[x]
  OBVIOUS
<1> HIDE DEF b
<1>1. PICK g : g = [s \in SUBSET S |-> SumOver(f, g, s)] /\ SumFunctionOnSet(f, S) = g[S]
  BY SumStep
<1>2. PICK h : h = [s \in SUBSET S |-> SumOver(e, h, s)] /\ SumFunctionOnSet(e, S) = h[S]
  BY SumStep
<1>3. PICK k : k = [s \in SUBSET S |-> SumOver(b, k, s)] /\ SumFunctionOnSet(b, S) = k[S]
  BY SumStep
<1> DEFINE T == {s \in SUBSET S : g[s] \in Int /\ h[s] \in Int /\ k[s] = g[s] + h[s]}
<1>4. {} \in T
  BY SMT, <1>1, <1>2, <1>3 DEF SumOver
<1>5. ASSUME NEW s \in SUBSET S, s # {}, \A x \in s : s \ {x} \in T PROVE s \in T
  <2> DEFINE x == CHOOSE x \in s : TRUE
  <2>0. x \in s
    BY <1>5
  <2>1. g[s] = f[x] + g[s \ {x}] /\ h[s] = e[x] + h[s \ {x}] /\ k[s] = b[x] + k[s \ {x}]
    <3>1. g[s] = SumOver(f, g, s) /\ h[s] = SumOver(e, h, s) /\ k[s] = SumOver(b, k, s)
      BY <1>1, <1>2, <1>3
    <3> QED BY <1>5, <3>1 DEF SumOver
  <2> HIDE DEF x
  <2>2. s \ {x} \in T /\ f[x] \in Int /\ e[x] \in Int /\ b[x] = f[x] + e[x]
    BY <1>0, <1>5, <2>0
  <2> QED BY SMT, <2>1, <2>2
<1>6. SUBSET S \subseteq T
  <2> HIDE DEF T
  <2> QED BY <1>4, <1>5, SubsetInduction
<1>7. SumFunction(b) = k[S] /\ SumFunction(f) = g[S] /\ SumFunction(e) = h[S]
  BY <1>0, <1>1, <1>2, <1>3 DEF SumFunction
<1>8. SumFunction(b) = SumFunction(f) + SumFunction(e)
  BY <1>6, <1>7
<1> QED BY <1>8 DEF b

\* Larger numbers have a larger sum.
LEMMA SumBound ==
  ASSUME NEW S, IsFiniteSet(S), NEW f \in [S -> Int], NEW e \in [S -> Int],
         \A x \in S : f[x] <= e[x]
  PROVE  SumFunction(f) <= SumFunction(e)
<1> DEFINE d == [x \in S |-> e[x] - f[x]]
<1>1. d \in [S -> Nat] /\ d \in [S -> Int]
  BY SMT
<1>2. e = [x \in S |-> f[x] + d[x]]
  BY SMT
<1> HIDE DEF d
<1>3. SumFunction(e) = SumFunction(f) + SumFunction(d)
  BY ZenonT(30), <1>1, <1>2, SumAdd
<1>4. SumFunction(d) \in Nat /\ SumFunction(f) \in Int
  BY <1>1, SumNat, SumType
<1> QED BY SMT, <1>3, <1>4
-----------------------------------------------------------------------------
\* Quotient and remainder.
LEMMA Quotient ==
  ASSUME NEW m \in Nat \ {0}, NEW n \in Int
  PROVE  \E q \in Int : n = q * m + (n % m)
<1>1. n \div m \in Int /\ n = (n \div m) * m + (n % m)
  BY SMT
<1> QED BY <1>1

\* There is only one remainder.
LEMMA Remainder ==
  ASSUME NEW m \in Nat \ {0}, NEW n \in Int, NEW q \in Int, NEW r \in 0..(m - 1), n = q * m + r
  PROVE  r = n % m
BY SMT

\* Whatever wraps on the way, the remainder of a sum is that of the remainders.
LEMMA ModAdd ==
  ASSUME NEW m \in Nat \ {0}, NEW a \in Int, NEW b \in Int
  PROVE  ((a % m) + b) % m = (a + b) % m
<1>1. PICK p \in Int : a = p * m + (a % m)
  BY Quotient
<1>2. a % m \in Int /\ (a % m) + b \in Int /\ a + b \in Int
  BY SMT
<1>3. PICK q \in Int : (a % m) + b = q * m + (((a % m) + b) % m)
  BY <1>2, Quotient
<1>4. ((a % m) + b) % m \in 0..(m - 1) /\ p + q \in Int
  BY SMT, <1>2
<1> DEFINE r == ((a % m) + b) % m
<1>5. a + b = (p + q) * m + r
  <2>1. a + b = p * m + ((a % m) + b)
    BY SMT, <1>1, <1>2
  <2>2. (a % m) + b = q * m + r /\ r \in Int
    BY SMT, <1>3, <1>4
  <2>3. p * m \in Int /\ q * m \in Int /\ (p + q) * m = p * m + q * m
    BY SMT
  <2> DEFINE u == p * m
             v == q * m
             w == (p + q) * m
             x == (a % m) + b
  <2>4. u \in Int /\ v \in Int /\ w = u + v /\ r \in Int /\ x = v + r /\ a + b = u + x
    BY <2>1, <2>2, <2>3
  <2> HIDE DEF r, u, v, w, x
  <2>5. a + b = w + r
    BY SMT, <2>4
  <2> QED BY <2>5 DEF w
<1> HIDE DEF r
<1> QED BY <1>2, <1>4, <1>5, Remainder DEF r
=============================================================================
