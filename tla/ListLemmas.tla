------------------------------ MODULE ListLemmas ------------------------------
(***************************************************************************)
(* Facts about numbers and lists that the proofs of several components     *)
(* rest on: least elements, and what removing and inserting one element    *)
(* does to the places and to the members of the others.                    *)
(***************************************************************************)
EXTENDS Integers, Sequences, SequencesExt, TLAPS, SequenceTheorems, WellFoundedInduction

Less == {ss \in Nat \X Nat : ss[1] < ss[2]}

LEMMA LessWellFounded == IsWellFoundedOn(Less, Nat)
  BY NatLessThanWellFounded, Zenon DEF Less, OpToRel

\* Every non-empty set of naturals has a least element.
LEMMA NatMin ==
  ASSUME NEW T, T \subseteq Nat, T # {}
  PROVE  \E x \in T : \A y \in T : ~ (y < x)
<1>1. PICK x \in T : \A y \in T : ~ (<<y, x>> \in Less)
  BY LessWellFounded, WFMin, Zenon
<1>2. ASSUME NEW y \in T, y < x PROVE <<y, x>> \in Less
  BY <1>2 DEF Less
<1>3. QED BY <1>1, <1>2

LEMMA RemoveAtElements ==
  ASSUME NEW S, NEW s \in Seq(S), NEW i \in 1..Len(s)
  PROVE  /\ RemoveAt(s, i) \in Seq(S)
         /\ Len(RemoveAt(s, i)) = Len(s) - 1
         /\ \A j \in 1..(Len(s) - 1) : RemoveAt(s, i)[j] = IF j < i THEN s[j] ELSE s[j + 1]
<1>1. SubSeq(s, 1, i - 1) \in Seq(S) /\ Len(SubSeq(s, 1, i - 1)) = i - 1
  OBVIOUS
<1>2. SubSeq(s, i + 1, Len(s)) \in Seq(S) /\ Len(SubSeq(s, i + 1, Len(s))) = Len(s) - i
  OBVIOUS
<1> DEFINE a == SubSeq(s, 1, i - 1)
           b == SubSeq(s, i + 1, Len(s))
<1>3. /\ \A j \in 1..(i - 1) : a[j] = s[j]
      /\ \A j \in 1..(Len(s) - i) : b[j] = s[j + i]
  BY <1>1, <1>2
<1>4. a \in Seq(S) /\ b \in Seq(S) /\ Len(a) = i - 1 /\ Len(b) = Len(s) - i
  BY <1>1, <1>2
<1>5. RemoveAt(s, i) = a \o b
  BY DEF RemoveAt
<1> HIDE DEF a, b
<1>6. /\ a \o b \in Seq(S) /\ Len(a \o b) = Len(a) + Len(b)
      /\ \A j \in 1..(Len(a) + Len(b)) :
           (a \o b)[j] = IF j <= Len(a) THEN a[j] ELSE b[j - Len(a)]
  BY <1>4, ConcatProperties
<1>7. Len(a) + Len(b) = Len(s) - 1 /\ Len(s) \in Nat
  BY <1>4
<1>8. ASSUME NEW j \in 1..(Len(s) - 1)
      PROVE  (a \o b)[j] = IF j < i THEN s[j] ELSE s[j + 1]
  <2>1. CASE j < i
    BY <1>3, <1>4, <1>6, <1>7, <2>1
  <2>2. CASE ~ (j < i)
    <3>1. (a \o b)[j] = b[j - (i - 1)]
      BY <1>4, <1>6, <1>7, <2>2
    <3>2. j - (i - 1) \in 1..(Len(s) - i) /\ (j - (i - 1)) + i = j + 1
      BY <1>7, <2>2
    <3>3. QED BY <1>3, <2>2, <3>1, <3>2
  <2>3. QED BY <2>1, <2>2
<1>9. QED BY <1>5, <1>6, <1>7, <1>8

LEMMA InsertAtElements ==
  ASSUME NEW S, NEW s \in Seq(S), NEW i \in 1..(Len(s) + 1), NEW n \in S
  PROVE  /\ InsertAt(s, i, n) \in Seq(S)
         /\ Len(InsertAt(s, i, n)) = Len(s) + 1
         /\ \A j \in 1..(Len(s) + 1) :
              InsertAt(s, i, n)[j] = IF j < i THEN s[j] ELSE IF j = i THEN n ELSE s[j - 1]
<1>0. PICK k \in Nat : k <= Len(s) /\ i = k + 1
  <2>1. i - 1 \in Nat /\ i - 1 <= Len(s) /\ i = (i - 1) + 1
    OBVIOUS
  <2>2. QED BY <2>1
<1> DEFINE a == SubSeq(s, 1, k)
           b == SubSeq(s, k + 1, Len(s))
           c == a \o <<n>>
<1>1. Len(s) \in Nat /\ k \in Nat /\ k <= Len(s)
  BY <1>0
<1>2. a \in Seq(S) /\ Len(a) = k /\ \A j \in 1..k : a[j] = s[j]
  BY <1>1
<1>3. b \in Seq(S) /\ Len(b) = Len(s) - k /\ \A j \in 1..(Len(s) - k) : b[j] = s[j + k]
  BY <1>1
<1>4. InsertAt(s, i, n) = c \o b
  <2>1. i - 1 = k
    BY <1>0
  <2>2. QED BY <1>0, <2>1 DEF InsertAt
<1> HIDE DEF a, b
<1>5. /\ c \in Seq(S) /\ Len(c) = k + 1
      /\ \A j \in 1..(k + 1) : c[j] = IF j <= k THEN s[j] ELSE n
  BY <1>1, <1>2
<1> HIDE DEF c
<1>6. /\ c \o b \in Seq(S) /\ Len(c \o b) = Len(c) + Len(b)
      /\ \A j \in 1..(Len(c) + Len(b)) :
           (c \o b)[j] = IF j <= Len(c) THEN c[j] ELSE b[j - Len(c)]
  BY <1>3, <1>5, ConcatProperties
<1>7. Len(c) + Len(b) = Len(s) + 1
  BY <1>1, <1>3, <1>5
<1>8. ASSUME NEW j \in 1..(Len(s) + 1)
      PROVE  (c \o b)[j] = IF j <= k THEN s[j] ELSE IF j = k + 1 THEN n ELSE s[j - 1]
  <2>1. CASE j <= k + 1
    <3>1. j \in 1..(k + 1)
      BY <1>1, <2>1
    <3>2. (c \o b)[j] = c[j]
      BY <1>1, <1>5, <1>6, <1>7, <2>1
    <3>3. QED BY <1>1, <1>5, <3>1, <3>2
  <2>2. CASE ~ (j <= k + 1)
    <3>1. (c \o b)[j] = b[j - (k + 1)]
      BY <1>1, <1>5, <1>6, <1>7, <2>2
    <3>2. j - (k + 1) \in 1..(Len(s) - k) /\ (j - (k + 1)) + k = j - 1
      BY <1>1, <2>2
    <3>3. QED BY <1>1, <1>3, <2>2, <3>1, <3>2
  <2>3. QED BY <2>1, <2>2
<1>9. \A j \in 1..(Len(s) + 1) : (j <= k <=> j < i) /\ (j = k + 1 <=> j = i)
  BY <1>0
<1>10. QED BY <1>4, <1>6, <1>7, <1>8, <1>9

-----------------------------------------------------------------------------
(* Members of lists that hold every element once.                          *)

LEMMA TailMembers ==
  ASSUME NEW S, NEW s \in Seq(S), s # << >>, IsInjective(s)
  PROVE  /\ IsInjective(Tail(s))
         /\ \A u : Contains(Tail(s), u) <=> Contains(s, u) /\ u # Head(s)
<1>1. /\ Tail(s) \in Seq(S) /\ Len(Tail(s)) = Len(s) - 1 /\ Len(s) \in Nat \ {0}
      /\ \A j \in 1..(Len(s) - 1) : Tail(s)[j] = s[j + 1]
      /\ Head(s) = s[1]
  OBVIOUS
<1>2. DOMAIN s = 1..Len(s) /\ DOMAIN Tail(s) = 1..Len(Tail(s))
  BY <1>1
<1>3. IsInjective(Tail(s))
  BY <1>1, <1>2 DEF IsInjective
<1>4. ASSUME NEW u, Contains(Tail(s), u) PROVE Contains(s, u) /\ u # Head(s)
  BY <1>1, <1>2, <1>4 DEF Contains, IsInjective
<1>5. ASSUME NEW u, Contains(s, u), u # Head(s) PROVE Contains(Tail(s), u)
  <2>1. PICK i \in 1..Len(s) : s[i] = u
    BY <1>5 DEF Contains
  <2>2. i - 1 \in 1..Len(Tail(s)) /\ Tail(s)[i - 1] = u
    BY <1>1, <1>5, <2>1
  <2>3. QED BY <2>2 DEF Contains
<1>6. QED BY <1>3, <1>4, <1>5

LEMMA RemoveMembers ==
  ASSUME NEW S, NEW s \in Seq(S), IsInjective(s), NEW k \in 1..Len(s)
  PROVE  /\ RemoveAt(s, k) \in Seq(S) /\ IsInjective(RemoveAt(s, k))
         /\ \A u : Contains(RemoveAt(s, k), u) <=> Contains(s, u) /\ u # s[k]
<1> DEFINE t == s[k]
           r == RemoveAt(s, k)
<1>3. /\ r \in Seq(S) /\ Len(r) = Len(s) - 1 /\ Len(s) \in Nat
      /\ \A j \in 1..(Len(s) - 1) : r[j] = IF j < k THEN s[j] ELSE s[j + 1]
  BY RemoveAtElements
<1> HIDE DEF r
<1>4. DOMAIN s = 1..Len(s) /\ DOMAIN r = 1..Len(r)
  BY <1>3
<1>5. \A i, j \in 1..Len(s) : s[i] = s[j] => i = j
  BY <1>4 DEF IsInjective
<1>6. IsInjective(r)
  BY <1>3, <1>4, <1>5 DEF IsInjective
<1>7. ASSUME NEW u, Contains(r, u) PROVE Contains(s, u) /\ u # t
  <2>1. PICK j \in 1..Len(r) : r[j] = u
    BY <1>7 DEF Contains
  <2>2. CASE j < k
    BY <1>3, <1>5, <2>1, <2>2 DEF Contains
  <2>3. CASE ~ (j < k)
    <3>1. j + 1 \in 1..Len(s) /\ s[j + 1] = u /\ j + 1 # k
      BY <1>3, <2>1, <2>3
    <3>2. QED BY <1>5, <3>1 DEF Contains
  <2>4. QED BY <2>2, <2>3
<1>8. ASSUME NEW u, Contains(s, u), u # t PROVE Contains(r, u)
  <2>1. PICK i \in 1..Len(s) : s[i] = u
    BY <1>8 DEF Contains
  <2>2. i # k
    BY <1>8, <2>1
  <2>3. CASE i < k
    <3>1. i \in 1..Len(r) /\ r[i] = u
      BY <1>3, <2>1, <2>3
    <3>2. QED BY <3>1 DEF Contains
  <2>4. CASE k < i
    <3>1. i - 1 \in 1..Len(r) /\ r[i - 1] = u
      BY <1>3, <2>1, <2>4
    <3>2. QED BY <3>1 DEF Contains
  <2>5. QED BY <2>1, <2>2, <2>3, <2>4
<1>9. QED BY <1>3, <1>6, <1>7, <1>8 DEF r

LEMMA AppendMembers ==
  ASSUME NEW S, NEW s \in Seq(S), IsInjective(s), NEW t \in S, ~ Contains(s, t)
  PROVE  /\ IsInjective(Append(s, t))
         /\ \A u : Contains(Append(s, t), u) <=> Contains(s, u) \/ u = t
<1> DEFINE r == Append(s, t)
<1>1. /\ r \in Seq(S) /\ Len(r) = Len(s) + 1 /\ Len(s) \in Nat
      /\ \A j \in 1..Len(s) : r[j] = s[j]
      /\ r[Len(s) + 1] = t
  OBVIOUS
<1> HIDE DEF r
<1>2. DOMAIN s = 1..Len(s) /\ DOMAIN r = 1..Len(r)
  BY <1>1
<1>3. \A i \in 1..Len(r) : i = Len(s) + 1 \/ i \in 1..Len(s)
  BY <1>1
<1>4. IsInjective(r)
  BY <1>1, <1>2, <1>3 DEF IsInjective, Contains
<1>5. ASSUME NEW u, Contains(r, u) PROVE Contains(s, u) \/ u = t
  BY <1>1, <1>3, <1>5 DEF Contains
<1>6. ASSUME NEW u, Contains(s, u) \/ u = t PROVE Contains(r, u)
  <2>1. CASE u = t
    BY <1>1, <2>1 DEF Contains
  <2>2. CASE Contains(s, u)
    <3>1. PICK i \in 1..Len(s) : s[i] = u
      BY <2>2 DEF Contains
    <3>2. i \in 1..Len(r) /\ r[i] = u
      BY <1>1, <3>1
    <3>3. QED BY <3>2 DEF Contains
  <2>3. QED BY <1>6, <2>1, <2>2
<1>7. QED BY <1>4, <1>5, <1>6 DEF r

LEMMA ConsMembers ==
  ASSUME NEW S, NEW s \in Seq(S), IsInjective(s), NEW t \in S, ~ Contains(s, t)
  PROVE  /\ IsInjective(Cons(t, s))
         /\ \A u : Contains(Cons(t, s), u) <=> Contains(s, u) \/ u = t
<1> DEFINE r == Cons(t, s)
<1>1. /\ r \in Seq(S) /\ Len(r) = Len(s) + 1 /\ Len(s) \in Nat
      /\ \A j \in 1..Len(s) : r[j + 1] = s[j]
      /\ r[1] = t
  BY DEF Cons
<1> HIDE DEF r
<1>2. DOMAIN s = 1..Len(s) /\ DOMAIN r = 1..Len(r)
  BY <1>1
<1>3. \A i \in 1..Len(r) : i = 1 \/ (i - 1 \in 1..Len(s) /\ r[i] = s[i - 1])
  <2> SUFFICES ASSUME NEW i \in 1..Len(r), i # 1 PROVE i - 1 \in 1..Len(s) /\ r[i] = s[i - 1]
    OBVIOUS
  <2>1. i - 1 \in 1..Len(s) /\ (i - 1) + 1 = i
    BY <1>1
  <2>2. QED BY <1>1, <2>1
<1>4. IsInjective(r)
  <2> SUFFICES ASSUME NEW i \in 1..Len(r), NEW j \in 1..Len(r), r[i] = r[j] PROVE i = j
    BY <1>2 DEF IsInjective
  <2>1. CASE i # 1 /\ j # 1
    <3>1. i - 1 \in DOMAIN s /\ j - 1 \in DOMAIN s /\ s[i - 1] = s[j - 1]
      BY <1>2, <1>3, <2>1
    <3>2. i - 1 = j - 1
      BY <3>1 DEF IsInjective
    <3>3. QED BY <1>1, <3>2
  <2>2. CASE i = 1 \/ j = 1
    BY <1>1, <1>3, <2>2 DEF Contains
  <2>3. QED BY <2>1, <2>2
<1>5. ASSUME NEW u, Contains(r, u) PROVE Contains(s, u) \/ u = t
  BY <1>1, <1>3, <1>5 DEF Contains
<1>6. ASSUME NEW u, Contains(s, u) \/ u = t PROVE Contains(r, u)
  <2>1. CASE u = t
    BY <1>1, <2>1 DEF Contains
  <2>2. CASE Contains(s, u)
    <3>1. PICK i \in 1..Len(s) : s[i] = u
      BY <2>2 DEF Contains
    <3>2. i + 1 \in 1..Len(r) /\ r[i + 1] = u
      BY <1>1, <3>1
    <3>3. QED BY <3>2 DEF Contains
  <2>3. QED BY <1>6, <2>1, <2>2
<1>7. QED BY <1>4, <1>5, <1>6 DEF r

LEMMA InsertMembers ==
  ASSUME NEW S, NEW s \in Seq(S), IsInjective(s), NEW t \in S, ~ Contains(s, t),
         NEW k \in 1..(Len(s) + 1)
  PROVE  /\ InsertAt(s, k, t) \in Seq(S) /\ IsInjective(InsertAt(s, k, t))
         /\ \A u : Contains(InsertAt(s, k, t), u) <=> Contains(s, u) \/ u = t
<1> DEFINE r == InsertAt(s, k, t)
<1>1. /\ r \in Seq(S) /\ Len(r) = Len(s) + 1 /\ Len(s) \in Nat
      /\ \A j \in 1..(Len(s) + 1) : r[j] = IF j < k THEN s[j] ELSE IF j = k THEN t ELSE s[j - 1]
  BY InsertAtElements
<1> HIDE DEF r
<1>2. DOMAIN s = 1..Len(s) /\ DOMAIN r = 1..Len(r)
  BY <1>1
<1>3. ASSUME NEW j \in 1..Len(r)
      PROVE  \/ j = k /\ r[j] = t
             \/ j < k /\ j \in 1..Len(s) /\ r[j] = s[j]
             \/ j > k /\ j - 1 \in 1..Len(s) /\ r[j] = s[j - 1]
  <2>1. r[j] = IF j < k THEN s[j] ELSE IF j = k THEN t ELSE s[j - 1]
    BY <1>1
  <2>2. CASE j < k
    BY <1>1, <2>1, <2>2
  <2>3. CASE j = k
    BY <2>1, <2>3
  <2>4. CASE j > k
    BY <1>1, <2>1, <2>4
  <2>5. QED BY <1>1, <2>2, <2>3, <2>4
<1>4. \A i \in 1..Len(s) : s[i] # t
  BY DEF Contains
<1>5. \A i, j \in 1..Len(s) : s[i] = s[j] => i = j
  BY <1>2 DEF IsInjective
<1>6. IsInjective(r)
  <2> SUFFICES ASSUME NEW i \in 1..Len(r), NEW j \in 1..Len(r), r[i] = r[j] PROVE i = j
    BY <1>2 DEF IsInjective
  <2>1. CASE i = k \/ j = k
    BY <1>3, <1>4, <2>1
  <2>2. CASE i < k /\ j < k
    BY <1>1, <1>3, <1>5, <2>2
  <2>3. CASE i > k /\ j > k
    <3>1. i - 1 \in 1..Len(s) /\ j - 1 \in 1..Len(s) /\ s[i - 1] = s[j - 1]
      BY <1>3, <2>3
    <3>2. i - 1 = j - 1
      BY <1>5, <3>1
    <3>3. QED BY <1>1, <3>2
  <2>4. CASE i < k /\ j > k
    <3>1. i \in 1..Len(s) /\ j - 1 \in 1..Len(s) /\ s[i] = s[j - 1]
      BY <1>3, <2>4
    <3>2. i = j - 1
      BY <1>5, <3>1
    <3>3. QED BY <1>1, <2>4, <3>2
  <2>5. CASE i > k /\ j < k
    <3>1. i - 1 \in 1..Len(s) /\ j \in 1..Len(s) /\ s[i - 1] = s[j]
      BY <1>3, <2>5
    <3>2. i - 1 = j
      BY <1>5, <3>1
    <3>3. QED BY <1>1, <2>5, <3>2
  <2>6. QED BY <1>1, <2>1, <2>2, <2>3, <2>4, <2>5
<1>7. ASSUME NEW u, Contains(r, u) PROVE Contains(s, u) \/ u = t
  <2>1. PICK j \in 1..Len(r) : r[j] = u
    BY <1>7 DEF Contains
  <2>2. QED BY <1>3, <2>1 DEF Contains
<1>8. ASSUME NEW u, Contains(s, u) \/ u = t PROVE Contains(r, u)
  <2>1. CASE u = t
    <3>1. k \in 1..Len(r) /\ r[k] = t
      BY <1>1
    <3>2. QED BY <2>1, <3>1 DEF Contains
  <2>2. CASE Contains(s, u)
    <3>1. PICK i \in 1..Len(s) : s[i] = u
      BY <2>2 DEF Contains
    <3>2. CASE i < k
      <4>1. i \in 1..Len(r) /\ r[i] = u
        BY <1>1, <3>1, <3>2
      <4>2. QED BY <4>1 DEF Contains
    <3>3. CASE ~(i < k)
      <4>1. i + 1 \in 1..Len(r) /\ (i + 1) - 1 = i /\ ~(i + 1 < k) /\ i + 1 # k
        BY <1>1, <3>1, <3>3
      <4>2. i + 1 \in 1..Len(r) /\ r[i + 1] = u
        BY <1>1, <3>1, <4>1
      <4>3. QED BY <4>2 DEF Contains
    <3>4. QED BY <3>2, <3>3
  <2>3. QED BY <1>8, <2>1, <2>2
<1>9. QED BY <1>1, <1>6, <1>7, <1>8 DEF r
=============================================================================
