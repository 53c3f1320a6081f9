-------------------------- MODULE WakeupLine_proofs --------------------------
(***************************************************************************)
(* What the operations of the wake-up line do to the nodes on it: facts    *)
(* for every user of a line.                                               *)
(***************************************************************************)
EXTENDS WakeupLine, ListLemmas

-----------------------------------------------------------------------------
(* The ticks to each place.                                                *)

\* There is a function that sums up the counters from the left.
SumTo(w, len, f) ==
  /\ f \in [0..len -> Nat]
  /\ f = [i \in 0..len |-> IF i = 0 THEN 0 ELSE f[i - 1] + w.counter[w.list[i]]]

LEMMA SumExists ==
  ASSUME NEW w, LineType(w), NEW len \in 0..Len(w.list)
  PROVE  \E f : SumTo(w, len, f)
<1> DEFINE T == {k \in 0..Len(w.list) : ~ \E f : SumTo(w, k, f)}
<1> SUFFICES ASSUME T # {} PROVE FALSE
  OBVIOUS
<1>1. Len(w.list) \in Nat /\ \A i \in 1..Len(w.list) : w.counter[w.list[i]] \in Nat
  BY DEF LineType
<1>2. PICK k \in T : \A y \in T : ~ (y < k)
  <2>1. T \subseteq Nat
    BY <1>1
  <2>2. QED BY <2>1, NatMin
<1>3. CASE k = 0
  <2>1. SumTo(w, 0, [i \in 0..0 |-> 0])
    BY DEF SumTo
  <2>2. QED BY <1>2, <1>3, <2>1
<1>4. CASE k # 0
  <2>1. k - 1 \in 0..Len(w.list) /\ k - 1 \notin T /\ k \in Nat \ {0}
    BY <1>1, <1>2, <1>4
  <2>2. PICK f : SumTo(w, k - 1, f)
    BY <2>1
  <2> DEFINE g == [i \in 0..k |-> IF i = k THEN f[k - 1] + w.counter[w.list[k]] ELSE f[i]]
  <2>3. f \in [0..(k - 1) -> Nat]
    BY <2>2 DEF SumTo
  <2>4. \A i \in 0..(k - 1) : f[i] = IF i = 0 THEN 0 ELSE f[i - 1] + w.counter[w.list[i]]
    BY <2>2 DEF SumTo
  <2>5. g \in [0..k -> Nat]
    BY <1>1, <1>2, <2>1, <2>3
  <2>6. ASSUME NEW i \in 0..k
        PROVE  g[i] = IF i = 0 THEN 0 ELSE g[i - 1] + w.counter[w.list[i]]
    <3>1. CASE i = k
      BY <2>1, <3>1
    <3>2. CASE i # k
      BY <2>1, <2>4, <3>2
    <3>3. QED BY <3>1, <3>2
  <2>7. SumTo(w, k, g)
    BY <2>5, <2>6 DEF SumTo
  <2>8. QED BY <1>2, <2>7
<1>5. QED BY <1>3, <1>4

LEMMA SumsStep ==
  ASSUME NEW w, LineType(w)
  PROVE  /\ Sums(w) \in [0..Len(w.list) -> Nat]
         /\ Sums(w)[0] = 0
         /\ \A i \in 1..Len(w.list) : Sums(w)[i] = Sums(w)[i - 1] + w.counter[w.list[i]]
<1>1. Len(w.list) \in Nat /\ Len(w.list) \in 0..Len(w.list)
  BY DEF LineType
<1>2. PICK f : SumTo(w, Len(w.list), f)
  BY <1>1, SumExists
<1> DEFINE Sum(g) == g = [i \in 0..Len(w.list) |->
                            IF i = 0 THEN 0 ELSE g[i - 1] + w.counter[w.list[i]]]
<1>3. Sum(f)
  BY <1>2 DEF SumTo
<1>4. Sums(w) = CHOOSE g : Sum(g)
  BY DEF Sums
<1>5. Sum(Sums(w))
  BY <1>3, <1>4
<1> DEFINE s == Sums(w)
<1> HIDE DEF s
<1>6. s = [i \in 0..Len(w.list) |-> IF i = 0 THEN 0 ELSE s[i - 1] + w.counter[w.list[i]]]
  BY <1>5 DEF s
<1>7. /\ s[0] = 0
      /\ \A i \in 1..Len(w.list) : s[i] = s[i - 1] + w.counter[w.list[i]]
  BY <1>1, <1>6
<1> DEFINE T == {k \in 0..Len(w.list) : s[k] \notin Nat}
<1>8. T = {}
  <2> SUFFICES ASSUME T # {} PROVE FALSE
    OBVIOUS
  <2>1. T \subseteq Nat
    BY <1>1
  <2>2. PICK k \in T : \A y \in T : ~ (y < k)
    BY <2>1, NatMin
  <2>3. k # 0 /\ k \in 1..Len(w.list)
    BY <1>1, <1>7, <2>2
  <2>4. k - 1 \in 0..Len(w.list) /\ k - 1 \notin T
    BY <1>1, <2>2, <2>3
  <2>5. w.counter[w.list[k]] \in Nat
    BY <2>3 DEF LineType
  <2>6. s[k - 1] \in Nat
    BY <2>4
  <2>7. s[k] \in Nat
    BY <1>7, <2>3, <2>5, <2>6
  <2>8. QED BY <2>2, <2>7
<1>9. s \in [0..Len(w.list) -> Nat]
  BY <1>6, <1>8
<1>10. QED BY <1>7, <1>9 DEF s

\* _WakeupAdd stops at the place where its ticks run out.
AddPlace(w, n) ==
  LET sum    == Sums(w)
      places == {i \in 0..Len(w.list) : sum[i] <= w.counter[n]}
  IN  CHOOSE i \in places : i + 1 \notin places

LEMMA AddPlaceFound ==
  ASSUME NEW w, LineType(w), NEW n \in Nodes
  PROVE  /\ AddPlace(w, n) \in 0..Len(w.list)
         /\ Sums(w)[AddPlace(w, n)] <= w.counter[n]
         /\ AddPlace(w, n) < Len(w.list) => w.counter[n] < Sums(w)[AddPlace(w, n) + 1]
<1> DEFINE sum    == Sums(w)
           places == {i \in 0..Len(w.list) : sum[i] <= w.counter[n]}
           beyond == {i \in 0..(Len(w.list) + 1) : i \notin places}
<1>1. Len(w.list) \in Nat /\ w.counter[n] \in Nat
  BY DEF LineType
<1>2. sum \in [0..Len(w.list) -> Nat] /\ sum[0] = 0
  BY SumsStep
<1> HIDE DEF sum
<1>3. 0 \in places
  BY <1>1, <1>2
<1>4. Len(w.list) + 1 \in beyond /\ beyond \subseteq Nat
  BY <1>1
<1>5. PICK k \in beyond : \A y \in beyond : ~ (y < k)
  BY <1>4, NatMin
<1>6. k # 0 /\ k \in Nat
  BY <1>3, <1>4, <1>5
<1>7. k - 1 \in places /\ (k - 1) + 1 \notin places
  BY <1>1, <1>5, <1>6
<1>8. AddPlace(w, n) \in places /\ AddPlace(w, n) + 1 \notin places
  BY <1>7, Zenon DEF AddPlace, sum
<1> DEFINE a == AddPlace(w, n)
<1> HIDE DEF a
<1>9. a \in places /\ a + 1 \notin places
  BY <1>8 DEF a
<1>10. a < Len(w.list) => w.counter[n] < sum[a + 1]
  <2> HAVE a < Len(w.list)
  <2>1. a + 1 \in 0..Len(w.list)
    BY <1>1, <1>9
  <2>2. QED BY <1>1, <1>2, <1>9, <2>1
<1>11. QED BY <1>9, <1>10 DEF a, sum

-----------------------------------------------------------------------------
(* The nodes on the line.                                                  *)

\* Each node is on the line at most once, and so is the scan's pointer.
LineOK(w) ==
  /\ LineType(w)
  /\ IsInjective(w.list)
  /\ w.op # NULL => OnLine(w, w.op)

LEMMA InjectiveList ==
  ASSUME NEW s \in Seq(Nodes)
  PROVE  IsInjective(s) <=> \A i, j \in 1..Len(s) : s[i] = s[j] => i = j
<1>1. DOMAIN s = 1..Len(s)
  OBVIOUS
<1>2. QED BY <1>1 DEF IsInjective

LEMMA PlaceFound ==
  ASSUME NEW w, LineOK(w), NEW i \in 1..Len(w.list)
  PROVE  PlaceOf(w, w.list[i]) = i
<1>1. \A j, k \in 1..Len(w.list) : w.list[j] = w.list[k] => j = k
  BY InjectiveList DEF LineOK, LineType
<1>2. QED BY <1>1 DEF PlaceOf

LEMMA PlaceType ==
  ASSUME NEW w, NEW n, OnLine(w, n)
  PROVE  PlaceOf(w, n) \in 1..Len(w.list) /\ w.list[PlaceOf(w, n)] = n
  BY DEF OnLine, PlaceOf

LEMMA NextType ==
  ASSUME NEW w, LineOK(w), NEW n, OnLine(w, n), NextOf(w, n) # NULL
  PROVE  OnLine(w, NextOf(w, n)) /\ NextOf(w, n) \in Nodes /\ NextOf(w, n) # n
<1> DEFINE i == PlaceOf(w, n)
<1>1. i \in 1..Len(w.list) /\ w.list[i] = n
  BY PlaceType
<1>2. Len(w.list) \in Nat /\ w.list \in Seq(Nodes)
  BY DEF LineOK, LineType
<1> HIDE DEF i
<1>3. NextOf(w, n) = IF i < Len(w.list) THEN w.list[i + 1] ELSE NULL
  BY DEF NextOf, i
<1>4. i < Len(w.list) /\ i + 1 \in 1..Len(w.list) /\ NextOf(w, n) = w.list[i + 1]
  BY <1>1, <1>2, <1>3
<1>5. w.list[i + 1] # w.list[i]
  BY <1>1, <1>2, <1>4, InjectiveList DEF LineOK
<1>6. QED BY <1>1, <1>2, <1>4, <1>5 DEF OnLine

\* _WakeupDel takes one node off the line, whatever the scan is about to look at.
LEMMA WakeupDelNodes ==
  ASSUME NEW w, LineOK(w), NEW n, OnLine(w, n)
  PROVE  /\ LineOK(WakeupDel(w, n))
         /\ \A m : OnLine(WakeupDel(w, n), m) <=> OnLine(w, m) /\ m # n
<1> DEFINE k == PlaceOf(w, n)
           r == RemoveAt(w.list, k)
           v == WakeupDel(w, n)
<1>1. k \in 1..Len(w.list) /\ w.list[k] = n
  BY PlaceType
<1>2. w.list \in Seq(Nodes) /\ Len(w.list) \in Nat /\ n \in Nodes
  BY <1>1 DEF LineOK, LineType
<1> HIDE DEF k
<1>3. /\ r \in Seq(Nodes) /\ Len(r) = Len(w.list) - 1
      /\ \A j \in 1..(Len(w.list) - 1) : r[j] = IF j < k THEN w.list[j] ELSE w.list[j + 1]
  BY <1>1, <1>2, RemoveAtElements
<1> HIDE DEF r
<1>4. \A i, j \in 1..Len(w.list) : w.list[i] = w.list[j] => i = j
  BY <1>2, InjectiveList DEF LineOK
<1> DEFINE c == [m \in Nodes |-> IF m = NextOf(w, n) THEN w.counter[m] + w.counter[n]
                                ELSE w.counter[m]]
           o == IF w.op = n THEN NextOf(w, n) ELSE w.op
<1>5. v = [list |-> r, counter |-> c, op |-> o]
  BY Zenon DEF WakeupDel, k, r
<1> HIDE DEF v
<1>6. IsInjective(r)
  <2> SUFFICES ASSUME NEW i \in 1..Len(r), NEW j \in 1..Len(r), r[i] = r[j] PROVE i = j
    BY <1>3, InjectiveList
  <2>1. i \in 1..Len(w.list) /\ i + 1 \in 1..Len(w.list) /\ j \in 1..Len(w.list) /\ j + 1 \in 1..Len(w.list)
    BY <1>2, <1>3
  <2>2. QED BY <1>1, <1>2, <1>3, <1>4, <2>1
<1>7. ASSUME NEW m PROVE OnLine(v, m) <=> OnLine(w, m) /\ m # n
  <2>1. ASSUME OnLine(v, m) PROVE OnLine(w, m) /\ m # n
    <3>1. PICK j \in 1..Len(r) : r[j] = m
      BY <1>5, <2>1 DEF OnLine
    <3>2. PICK i \in 1..Len(w.list) : i # k /\ w.list[i] = m
      <4>1. /\ j \in 1..Len(w.list) /\ j + 1 \in 1..Len(w.list)
            /\ j \in Int /\ k \in Int
        BY <1>1, <1>2, <1>3, <3>1
      <4>2. m = IF j < k THEN w.list[j] ELSE w.list[j + 1]
        BY <1>2, <1>3, <3>1
      <4>3. CASE j < k
        BY <4>1, <4>2, <4>3
      <4>4. CASE ~ (j < k)
        BY <4>1, <4>2, <4>4
      <4>5. QED BY <4>3, <4>4
    <3>3. QED BY <1>1, <1>4, <3>2 DEF OnLine
  <2>2. ASSUME OnLine(w, m), m # n PROVE OnLine(v, m)
    <3>1. PICK i \in 1..Len(w.list) : w.list[i] = m /\ i # k
      BY <1>1, <2>2 DEF OnLine
    <3>2. CASE i < k
      <4>1. i \in 1..Len(r) /\ r[i] = m
        BY <1>1, <1>2, <1>3, <3>1, <3>2
      <4>2. QED BY <1>5, <4>1 DEF OnLine
    <3>3. CASE k < i
      <4>1. i - 1 \in 1..Len(r) /\ r[i - 1] = m
        BY <1>1, <1>2, <1>3, <3>1, <3>3
      <4>2. QED BY <1>5, <4>1 DEF OnLine
    <3>4. QED BY <1>1, <3>1, <3>2, <3>3
  <2>3. QED BY <2>1, <2>2
<1>8. v.op # NULL => OnLine(v, v.op) /\ v.op \in Nodes
  <2> HAVE v.op # NULL
  <2>1. CASE w.op = n
    BY <1>5, <1>7, <2>1, NextType
  <2>2. CASE w.op # n
    BY <1>5, <1>7, <2>2 DEF LineOK, LineType
  <2>3. QED BY <2>1, <2>2
<1>9. v.counter \in [Nodes -> Nat]
  BY <1>2, <1>5 DEF LineOK, LineType
<1>10. LineOK(v)
  BY <1>3, <1>5, <1>6, <1>8, <1>9 DEF LineOK, LineType
<1>11. QED BY <1>7, <1>10 DEF v

LEMMA InsertNode ==
  ASSUME NEW s \in Seq(Nodes), NEW i \in 1..(Len(s) + 1), NEW n \in Nodes
  PROVE  /\ InsertAt(s, i, n) \in Seq(Nodes)
         /\ Len(InsertAt(s, i, n)) = Len(s) + 1
         /\ \A j \in 1..(Len(s) + 1) :
              InsertAt(s, i, n)[j] = IF j < i THEN s[j] ELSE IF j = i THEN n ELSE s[j - 1]
  BY InsertAtElements

\* _WakeupAdd puts one node on it.
LEMMA WakeupAddNodes ==
  ASSUME NEW w, LineOK(w), NEW n \in Nodes, ~ OnLine(w, n)
  PROVE  /\ LineOK(WakeupAdd(w, n))
         /\ \A m : OnLine(WakeupAdd(w, n), m) <=> OnLine(w, m) \/ m = n
<1> DEFINE k == AddPlace(w, n)
           d == w.counter[n] - Sums(w)[k]
           i == k + 1
           r == InsertAt(w.list, i, n)
           v == WakeupAdd(w, n)
<1>1. w.list \in Seq(Nodes) /\ Len(w.list) \in Nat /\ LineType(w) /\ w.counter \in [Nodes -> Nat]
  BY DEF LineOK, LineType
<1>2. /\ k \in 0..Len(w.list)
      /\ Sums(w)[k] <= w.counter[n]
      /\ k < Len(w.list) => w.counter[n] < Sums(w)[k + 1]
  BY <1>1, AddPlaceFound
<1>3. /\ Sums(w) \in [0..Len(w.list) -> Nat]
      /\ \A j \in 1..Len(w.list) : Sums(w)[j] = Sums(w)[j - 1] + w.counter[w.list[j]]
  BY <1>1, SumsStep
<1> DEFINE c == [m \in Nodes |-> IF m = n THEN d
                                ELSE IF k < Len(w.list) /\ m = w.list[k + 1] THEN w.counter[m] - d
                                ELSE w.counter[m]]
<1>4. v = [list |-> r, counter |-> c, op |-> w.op]
  BY Zenon DEF WakeupAdd, AddPlace
<1> HIDE DEF k, v
<1>5. /\ r \in Seq(Nodes) /\ Len(r) = Len(w.list) + 1
      /\ \A j \in 1..(Len(w.list) + 1) :
           r[j] = IF j <= k THEN w.list[j] ELSE IF j = k + 1 THEN n ELSE w.list[j - 1]
      /\ k \in Nat /\ k <= Len(w.list)
  <2>1. k \in Nat /\ k <= Len(w.list) /\ i \in 1..(Len(w.list) + 1)
    BY <1>1, <1>2
  <2>2. \A j \in 1..(Len(w.list) + 1) : (j < i <=> j <= k) /\ (j = i <=> j = k + 1)
    BY <2>1 DEF i
  <2> HIDE DEF i
  <2>3. /\ r \in Seq(Nodes) /\ Len(r) = Len(w.list) + 1
        /\ \A j \in 1..(Len(w.list) + 1) :
             r[j] = IF j < i THEN w.list[j] ELSE IF j = i THEN n ELSE w.list[j - 1]
    BY <1>1, <2>1, InsertNode
  <2>4. QED BY <2>1, <2>2, <2>3
<1> HIDE DEF i, r
<1>6. d \in Nat
  BY <1>1, <1>2, <1>3
<1>7. k < Len(w.list) => w.counter[w.list[k + 1]] - d \in Nat
  <2> HAVE k < Len(w.list)
  <2>1. k + 1 \in 1..Len(w.list) /\ (k + 1) - 1 = k
    BY <1>1, <1>2
  <2>2. Sums(w)[k + 1] = Sums(w)[k] + w.counter[w.list[k + 1]]
    BY <1>3, <2>1
  <2>3. Sums(w)[k] \in Nat /\ w.counter[w.list[k + 1]] \in Nat /\ w.counter[n] \in Nat
    BY <1>1, <1>2, <1>3, <2>1
  <2>4. QED BY <1>2, <2>2, <2>3
<1> HIDE DEF d
<1>8. v.counter \in [Nodes -> Nat]
  BY <1>1, <1>4, <1>6, <1>7
<1>9. \A h, j \in 1..Len(w.list) : w.list[h] = w.list[j] => h = j
  BY <1>1, InjectiveList DEF LineOK
<1>10. \A j \in 1..Len(w.list) : w.list[j] # n
  BY DEF OnLine
<1>11. ASSUME NEW j \in 1..Len(r)
       PROVE  \/ j <= k /\ j \in 1..Len(w.list) /\ r[j] = w.list[j]
              \/ j = k + 1 /\ r[j] = n
              \/ k + 1 < j /\ j - 1 \in 1..Len(w.list) /\ r[j] = w.list[j - 1]
  <2>1. j \in 1..(Len(w.list) + 1) /\ j \in Int /\ k \in Int
    BY <1>1, <1>5
  <2>2. r[j] = IF j <= k THEN w.list[j] ELSE IF j = k + 1 THEN n ELSE w.list[j - 1]
    BY <1>5, <2>1
  <2>3. CASE j <= k
    BY <1>1, <1>5, <2>1, <2>2, <2>3
  <2>4. CASE j = k + 1
    BY <2>1, <2>2, <2>4
  <2>5. CASE k + 1 < j
    BY <1>1, <1>5, <2>1, <2>2, <2>5
  <2>6. QED BY <2>1, <2>3, <2>4, <2>5
<1>12. IsInjective(r)
  <2> SUFFICES ASSUME NEW h \in 1..Len(r), NEW j \in 1..Len(r), r[h] = r[j] PROVE h = j
    BY <1>5, InjectiveList
  <2>1. h \in Int /\ j \in Int /\ k \in Int
    BY <1>2
  <2>2. QED BY <1>9, <1>10, <1>11, <2>1
<1>13. ASSUME NEW m PROVE OnLine(v, m) <=> OnLine(w, m) \/ m = n
  <2>1. ASSUME OnLine(v, m) PROVE OnLine(w, m) \/ m = n
    BY <1>4, <1>11, <2>1 DEF OnLine
  <2>2. ASSUME m = n PROVE OnLine(v, m)
    <3>1. k + 1 \in 1..(Len(w.list) + 1) /\ ~ (k + 1 <= k)
      BY <1>1, <1>5
    <3>2. k + 1 \in 1..Len(r) /\ r[k + 1] = n
      BY <1>5, <3>1
    <3>3. QED BY <1>4, <2>2, <3>2 DEF OnLine
  <2>3. ASSUME OnLine(w, m) PROVE OnLine(v, m)
    <3>1. PICK j \in 1..Len(w.list) : w.list[j] = m
      BY <2>3 DEF OnLine
    <3>2. CASE j <= k
      <4>1. j \in 1..Len(r) /\ r[j] = m
        BY <1>1, <1>2, <1>5, <3>1, <3>2
      <4>2. QED BY <1>4, <4>1 DEF OnLine
    <3>3. CASE ~ (j <= k)
      <4> DEFINE h == j + 1
      <4>1. /\ h \in 1..(Len(w.list) + 1) /\ h - 1 = j
            /\ ~ (h <= k) /\ h # k + 1
        BY <1>1, <1>5, <3>3
      <4> HIDE DEF h
      <4>2. h \in 1..Len(r) /\ r[h] = m
        BY <1>5, <3>1, <4>1
      <4>3. QED BY <1>4, <4>2 DEF OnLine
    <3>4. QED BY <3>2, <3>3
  <2>4. QED BY <2>1, <2>2, <2>3
<1>14. LineOK(v)
  BY <1>4, <1>5, <1>8, <1>12, <1>13 DEF LineOK, LineType
<1>15. QED BY <1>13, <1>14 DEF v

\* Setting a counter leaves the nodes where they are.
LEMMA SetCounterNodes ==
  ASSUME NEW w, LineOK(w), NEW n, NEW ticks \in Nat
  PROVE  /\ LineOK(SetCounter(w, n, ticks))
         /\ \A m : OnLine(SetCounter(w, n, ticks), m) <=> OnLine(w, m)
<1> DEFINE v == SetCounter(w, n, ticks)
<1>1. v.list = w.list /\ v.op = w.op /\ v.counter = [w.counter EXCEPT ![n] = ticks]
  BY DEF SetCounter
<1>2. LineType(v)
  <2>1. [w.counter EXCEPT ![n] = ticks] \in [Nodes -> Nat]
    BY DEF LineOK, LineType
  <2>2. QED BY <2>1 DEF LineOK, LineType, SetCounter
<1> HIDE DEF v
<1>3. \A m : OnLine(v, m) <=> OnLine(w, m)
  BY <1>1 DEF OnLine
<1>4. LineOK(v)
  BY <1>1, <1>2, <1>3 DEF LineOK
<1>5. QED BY <1>3, <1>4 DEF v

\* A scan starts at a node that is on the line.
LEMMA ScanStartNodes ==
  ASSUME NEW w, LineOK(w)
  PROVE  /\ LineOK(ScanStart(w))
         /\ \A m : OnLine(ScanStart(w), m) <=> OnLine(w, m)
<1> DEFINE v == ScanStart(w)
<1>1. v.list = w.list /\ v.op = First(w) /\ v.counter = w.counter
  BY DEF ScanStart
<1>2. w.list \in Seq(Nodes)
  BY DEF LineOK, LineType
<1>3. First(w) # NULL => First(w) \in Nodes /\ OnLine(w, First(w))
  <2> SUFFICES ASSUME w.list # << >> PROVE w.list[1] \in Nodes /\ 1 \in 1..Len(w.list)
    BY DEF First, OnLine
  <2>1. QED BY <1>2
<1>4. LineType(v)
  BY <1>3 DEF LineOK, LineType, ScanStart
<1> HIDE DEF v
<1>5. \A m : OnLine(v, m) <=> OnLine(w, m)
  BY <1>1 DEF OnLine
<1>6. LineOK(v)
  BY <1>1, <1>3, <1>4, <1>5 DEF LineOK
<1>7. QED BY <1>5, <1>6 DEF v

\* It looks at a node, charges it, and goes on to one that is on the line.
LEMMA ScanStepNodes ==
  ASSUME NEW w, LineOK(w), w.op # NULL, NEW ticks \in Nat,
         NEW v, v = [list    |-> w.list,
                     counter |-> [w.counter EXCEPT ![w.op] = ticks],
                     op      |-> NextOf(w, w.op)]
  PROVE  LineOK(v) /\ \A m : OnLine(v, m) <=> OnLine(w, m)
<1>1. v.list = w.list /\ v.op = NextOf(w, w.op)
  OBVIOUS
<1>2. OnLine(w, w.op)
  BY DEF LineOK
<1>3. NextOf(w, w.op) # NULL => NextOf(w, w.op) \in Nodes /\ OnLine(w, NextOf(w, w.op))
  BY <1>2, NextType
<1>4. LineType(v)
  <2>1. [w.counter EXCEPT ![w.op] = ticks] \in [Nodes -> Nat]
    BY DEF LineOK, LineType
  <2>2. QED BY <1>3, <2>1 DEF LineOK, LineType
<1>5. \A m : OnLine(v, m) <=> OnLine(w, m)
  BY <1>1 DEF OnLine
<1>6. QED BY <1>1, <1>3, <1>4, <1>5 DEF LineOK

LEMMA StopAtNodes ==
  ASSUME NEW w, LineOK(w), NEW remaining \in Nat, ScanStops(w, remaining)
  PROVE  /\ LineOK(StopAt(w, remaining))
         /\ \A m : OnLine(StopAt(w, remaining), m) <=> OnLine(w, m)
<1>1. w.op \in Nodes /\ w.counter \in [Nodes -> Nat] /\ w.op # NULL
  BY DEF LineOK, LineType, ScanStops
<1>2. w.counter[w.op] - remaining \in Nat
  BY <1>1 DEF ScanStops
<1>3. QED BY <1>1, <1>2, ScanStepNodes DEF StopAt

LEMMA ExpireAtNodes ==
  ASSUME NEW w, LineOK(w), w.op # NULL
  PROVE  /\ LineOK(ExpireAt(w))
         /\ \A m : OnLine(ExpireAt(w), m) <=> OnLine(w, m)
  BY ScanStepNodes DEF ExpireAt

-----------------------------------------------------------------------------
(* The time that is left.                                                  *)

\* The list after _WakeupDel, place by place.
LEMMA DelPlaces ==
  ASSUME NEW w, LineOK(w), NEW n, OnLine(w, n), NEW k, k = PlaceOf(w, n),
         NEW v, v = WakeupDel(w, n)
  PROVE  /\ k \in 1..Len(w.list) /\ w.list[k] = n /\ Len(w.list) \in Nat
         /\ Len(v.list) = Len(w.list) - 1
         /\ \A j \in 1..(Len(w.list) - 1) :
              v.list[j] = IF j < k THEN w.list[j] ELSE w.list[j + 1]
         /\ \A j \in 1..Len(w.list) :
              j # k => v.counter[w.list[j]] = IF j = k + 1
                                              THEN w.counter[w.list[j]] + w.counter[n]
                                              ELSE w.counter[w.list[j]]
<1>1. k \in 1..Len(w.list) /\ w.list[k] = n
  BY PlaceType
<1>2. w.list \in Seq(Nodes) /\ Len(w.list) \in Nat
  BY DEF LineOK, LineType
<1>3. \A i, j \in 1..Len(w.list) : w.list[i] = w.list[j] => i = j
  BY <1>2, InjectiveList DEF LineOK
<1> DEFINE r == RemoveAt(w.list, k)
<1>4. v.list = r
  BY DEF WakeupDel
<1>5. /\ Len(r) = Len(w.list) - 1
      /\ \A j \in 1..(Len(w.list) - 1) : r[j] = IF j < k THEN w.list[j] ELSE w.list[j + 1]
  BY <1>1, <1>2, RemoveAtElements
<1>6. NextOf(w, n) = IF k < Len(w.list) THEN w.list[k + 1] ELSE NULL
  BY DEF NextOf
<1>7. ASSUME NEW j \in 1..Len(w.list), j # k
      PROVE  v.counter[w.list[j]] = IF j = k + 1
                                    THEN w.counter[w.list[j]] + w.counter[n]
                                    ELSE w.counter[w.list[j]]
  <2>1. w.list[j] \in Nodes /\ w.list[j] # NULL
    BY <1>2, WakeupLineAssumption
  <2>2. v.counter[w.list[j]] = IF w.list[j] = NextOf(w, n)
                               THEN w.counter[w.list[j]] + w.counter[n]
                               ELSE w.counter[w.list[j]]
    BY <2>1 DEF WakeupDel
  <2>3. w.list[j] = NextOf(w, n) <=> j = k + 1
    <3>1. CASE k < Len(w.list)
      <4>1. k + 1 \in 1..Len(w.list) /\ NextOf(w, n) = w.list[k + 1]
        BY <1>1, <1>2, <1>6, <3>1
      <4>2. QED BY <1>3, <4>1
    <3>2. CASE ~ (k < Len(w.list))
      <4>1. NextOf(w, n) = NULL /\ j # k + 1
        BY <1>1, <1>2, <1>6, <3>2
      <4>2. QED BY <2>1, <4>1
    <3>3. QED BY <3>1, <3>2
  <2>4. QED BY <2>2, <2>3
<1> HIDE DEF r
<1>8. QED BY <1>1, <1>2, <1>4, <1>5, <1>7

\* So the sums before the place are what they were, and those behind it too.
LEMMA DelSums ==
  ASSUME NEW w, LineOK(w), NEW n, OnLine(w, n), NEW k, k = PlaceOf(w, n),
         NEW v, v = WakeupDel(w, n), NEW i \in 0..(Len(w.list) - 1)
  PROVE  Sums(v)[i] = IF i < k THEN Sums(w)[i] ELSE Sums(w)[i + 1]
<1>1. PICK s, t : s = Sums(w) /\ t = Sums(v)
  OBVIOUS
<1> DEFINE len == Len(w.list)
           T   == {j \in 0..(len - 1) : t[j] # IF j < k THEN s[j] ELSE s[j + 1]}
<1> SUFFICES ASSUME T # {} PROVE FALSE
  BY <1>1
<1>2. /\ k \in 1..len /\ w.list[k] = n /\ len \in Nat
      /\ Len(v.list) = len - 1
      /\ \A j \in 1..(len - 1) : v.list[j] = IF j < k THEN w.list[j] ELSE w.list[j + 1]
      /\ \A j \in 1..len : j # k => v.counter[w.list[j]] = IF j = k + 1
                                                           THEN w.counter[w.list[j]] + w.counter[n]
                                                           ELSE w.counter[w.list[j]]
  BY DelPlaces
<1>3. /\ s \in [0..len -> Nat] /\ s[0] = 0
      /\ \A j \in 1..len : s[j] = s[j - 1] + w.counter[w.list[j]]
  BY <1>1, SumsStep DEF LineOK
<1>4. /\ t[0] = 0
      /\ \A j \in 1..(len - 1) : t[j] = t[j - 1] + v.counter[v.list[j]]
  BY <1>1, <1>2, SumsStep, WakeupDelNodes DEF LineOK
<1>5. \A j \in 1..len : w.counter[w.list[j]] \in Nat
  BY DEF LineOK, LineType
<1> HIDE DEF len
<1>6. PICK j \in T : \A y \in T : ~ (y < j)
  <2>1. T \subseteq Nat
    BY <1>2
  <2>2. QED BY <2>1, NatMin
<1>7. j # 0 /\ j \in Nat /\ j <= len - 1
  BY <1>2, <1>3, <1>4, <1>6
<1>8. j - 1 \in 0..(len - 1) /\ j \in 1..(len - 1) /\ j \in 1..len /\ j + 1 \in 1..len
  BY <1>2, <1>7
<1>9. t[j - 1] = IF j - 1 < k THEN s[j - 1] ELSE s[j]
  <2>1. j - 1 \notin T /\ (j - 1) + 1 = j
    BY <1>6, <1>7, <1>8
  <2>2. QED BY <1>8, <2>1
<1>10. t[j] = t[j - 1] + v.counter[v.list[j]] /\ s[j] = s[j - 1] + w.counter[w.list[j]]
  BY <1>3, <1>4, <1>8
<1>11. s[j + 1] = s[j] + w.counter[w.list[j + 1]]
  BY <1>3, <1>7, <1>8
<1> DEFINE h == j + 1
<1> HIDE DEF h
<1>12. /\ h \in 1..len /\ h = j + 1
       /\ ~ (j < k) => v.list[j] = w.list[h]
       /\ h # k => v.counter[w.list[h]] = IF h = k + 1 THEN w.counter[w.list[h]] + w.counter[n]
                                          ELSE w.counter[w.list[h]]
  BY <1>2, <1>8 DEF h
<1>13. CASE j < k
  <2>1. v.counter[v.list[j]] = w.counter[w.list[j]]
    BY <1>2, <1>7, <1>8, <1>13
  <2>2. j - 1 < k
    BY <1>2, <1>7, <1>13
  <2>3. QED BY <1>6, <1>9, <1>10, <1>13, <2>1, <2>2
<1>14. CASE j = k
  <2>1. v.list[j] = w.list[h] /\ v.counter[w.list[h]] = w.counter[w.list[h]] + w.counter[n]
    BY <1>7, <1>14, <1>12
  <2>2. t[j - 1] = s[j - 1] /\ w.list[j] = n
    BY <1>2, <1>7, <1>9, <1>14
  <2>3. s[j - 1] \in Nat /\ w.counter[n] \in Nat /\ w.counter[w.list[h]] \in Nat
    <3>1. j - 1 \in 0..len
      BY <1>2, <1>7, <1>8
    <3>2. QED BY <1>3, <1>5, <1>8, <1>12, <2>2, <3>1
  <2>4. t[j] = s[j + 1]
    BY <1>10, <1>11, <1>12, <2>1, <2>2, <2>3
  <2>5. QED BY <1>6, <1>7, <1>14, <2>4
<1>15. CASE k < j
  <2>1. v.list[j] = w.list[h] /\ v.counter[w.list[h]] = w.counter[w.list[h]]
    BY <1>2, <1>7, <1>15, <1>12
  <2>2. t[j - 1] = s[j]
    BY <1>2, <1>7, <1>9, <1>15
  <2>3. t[j] = s[j + 1]
    BY <1>10, <1>11, <1>12, <2>1, <2>2
  <2>4. QED BY <1>2, <1>6, <1>7, <1>15, <2>3
<1>16. QED BY <1>2, <1>7, <1>13, <1>14, <1>15

\* Taking a node off the line with its ticks still in its counter changes nobody
\* else's time: what _WakeupDel is for, and what the callers that clear the counter
\* first (TimerCancel.c, TimerDelete.c) break.
THEOREM WakeupDelKeepsTimes ==
  ASSUME NEW w, LineOK(w), NEW n, OnLine(w, n), NEW m, OnLine(w, m), m # n
  PROVE  TimeLeft(WakeupDel(w, n), m) = TimeLeft(w, m)
<1>1. PICK v, k, j : v = WakeupDel(w, n) /\ k = PlaceOf(w, n) /\ j = PlaceOf(w, m)
  OBVIOUS
<1>2. /\ k \in 1..Len(w.list) /\ w.list[k] = n /\ Len(w.list) \in Nat
      /\ Len(v.list) = Len(w.list) - 1
      /\ \A i \in 1..(Len(w.list) - 1) :
           v.list[i] = IF i < k THEN w.list[i] ELSE w.list[i + 1]
  BY <1>1, DelPlaces
<1>3. j \in 1..Len(w.list) /\ w.list[j] = m /\ j # k
  BY <1>1, <1>2, PlaceType
<1>4. LineOK(v) /\ OnLine(v, m)
  BY <1>1, WakeupDelNodes
<1>5. TimeLeft(w, m) = Sums(w)[j] /\ TimeLeft(v, m) = Sums(v)[PlaceOf(v, m)]
  BY <1>1, <1>4 DEF TimeLeft
<1>6. CASE j < k
  <2>1. j \in 1..(Len(w.list) - 1) /\ v.list[j] = m /\ j \in 0..(Len(w.list) - 1)
    BY <1>2, <1>3, <1>6
  <2>2. PlaceOf(v, m) = j
    BY <1>2, <1>4, <2>1, PlaceFound
  <2>3. Sums(v)[j] = Sums(w)[j]
    BY <1>1, <1>6, <2>1, DelSums
  <2>4. QED BY <1>1, <1>5, <2>2, <2>3
<1>7. CASE k < j
  <2>1. PICK i \in 1..(Len(w.list) - 1) : i = j - 1 /\ i + 1 = j /\ ~ (i < k)
    <3>1. j - 1 \in 1..(Len(w.list) - 1) /\ (j - 1) + 1 = j /\ ~ (j - 1 < k)
      BY <1>2, <1>3, <1>7
    <3>2. QED BY <3>1
  <2>2. v.list[i] = m /\ i \in 0..(Len(w.list) - 1)
    BY <1>2, <1>3, <2>1
  <2>3. PlaceOf(v, m) = i
    BY <1>2, <1>4, <2>2, PlaceFound
  <2>4. Sums(v)[i] = Sums(w)[i + 1]
    BY <1>1, <2>1, <2>2, DelSums
  <2>5. QED BY <1>1, <1>5, <2>1, <2>3, <2>4
<1>8. QED BY <1>2, <1>3, <1>6, <1>7

\* The list after _WakeupAdd, place by place.
LEMMA AddPlaces ==
  ASSUME NEW w, LineOK(w), NEW n \in Nodes, ~ OnLine(w, n), NEW k, k = AddPlace(w, n),
         NEW v, v = WakeupAdd(w, n), NEW d, d = w.counter[n] - Sums(w)[k]
  PROVE  /\ k \in Nat /\ k <= Len(w.list) /\ Len(w.list) \in Nat
         /\ w.counter[n] \in Nat
         /\ Len(v.list) = Len(w.list) + 1
         /\ \A j \in 1..(Len(w.list) + 1) :
              v.list[j] = IF j <= k THEN w.list[j] ELSE IF j = k + 1 THEN n ELSE w.list[j - 1]
         /\ v.counter[n] = d
         /\ \A j \in 1..Len(w.list) :
              v.counter[w.list[j]] = IF j = k + 1 THEN w.counter[w.list[j]] - d
                                     ELSE w.counter[w.list[j]]
<1>1. /\ w.list \in Seq(Nodes) /\ Len(w.list) \in Nat /\ LineType(w)
      /\ w.counter \in [Nodes -> Nat]
  BY DEF LineOK, LineType
<1>2. k \in Nat /\ k <= Len(w.list) /\ k \in Int
  BY <1>1, AddPlaceFound
<1>3. \A i, j \in 1..Len(w.list) : w.list[i] = w.list[j] => i = j
  BY <1>1, InjectiveList DEF LineOK
<1> DEFINE i == k + 1
           r == InsertAt(w.list, i, n)
           c == [m \in Nodes |-> IF m = n THEN d
                                 ELSE IF k < Len(w.list) /\ m = w.list[k + 1] THEN w.counter[m] - d
                                 ELSE w.counter[m]]
<1>4. v.list = r /\ v.counter = c
  <2> DEFINE a == AddPlace(w, n)
             e == w.counter[n] - Sums(w)[a]
  <2>1. WakeupAdd(w, n)
          = [list    |-> InsertAt(w.list, a + 1, n),
             counter |-> [m \in Nodes |->
                 IF m = n THEN e
                 ELSE IF a < Len(w.list) /\ m = w.list[a + 1] THEN w.counter[m] - e
                 ELSE w.counter[m]],
             op      |-> w.op]
    BY Zenon DEF WakeupAdd, AddPlace
  <2>2. a = k /\ e = d
    OBVIOUS
  <2> HIDE DEF a, e
  <2>3. QED BY <2>1, <2>2
<1>5. i \in 1..(Len(w.list) + 1)
  BY <1>1, <1>2
<1>6. \A j \in 1..(Len(w.list) + 1) : (j < i <=> j <= k) /\ (j = i <=> j = k + 1)
  BY <1>2
<1> HIDE DEF i
<1>7. /\ Len(r) = Len(w.list) + 1
      /\ \A j \in 1..(Len(w.list) + 1) :
           r[j] = IF j < i THEN w.list[j] ELSE IF j = i THEN n ELSE w.list[j - 1]
  BY <1>1, <1>5, InsertNode
<1> HIDE DEF r
<1>8. ASSUME NEW j \in 1..Len(w.list)
      PROVE  v.counter[w.list[j]] = IF j = k + 1 THEN w.counter[w.list[j]] - d
                                    ELSE w.counter[w.list[j]]
  <2>1. w.list[j] \in Nodes /\ w.list[j] # n
    BY <1>1 DEF OnLine
  <2>2. v.counter[w.list[j]] = IF k < Len(w.list) /\ w.list[j] = w.list[k + 1]
                               THEN w.counter[w.list[j]] - d ELSE w.counter[w.list[j]]
    BY <1>4, <2>1
  <2>3. (k < Len(w.list) /\ w.list[j] = w.list[k + 1]) <=> j = k + 1
    <3>1. CASE k < Len(w.list)
      <4>1. k + 1 \in 1..Len(w.list)
        BY <1>1, <1>2, <3>1
      <4>2. QED BY <1>3, <3>1, <4>1
    <3>2. CASE ~ (k < Len(w.list))
      BY <1>1, <1>2, <3>2
    <3>3. QED BY <3>1, <3>2
  <2>4. QED BY <2>2, <2>3
<1>9. v.counter[n] = d
  BY <1>4
<1>10. QED BY <1>1, <1>2, <1>4, <1>6, <1>7, <1>8, <1>9

LEMMA AddSums ==
  ASSUME NEW w, LineOK(w), NEW n \in Nodes, ~ OnLine(w, n), NEW k, k = AddPlace(w, n),
         NEW v, v = WakeupAdd(w, n), NEW i \in 0..(Len(w.list) + 1)
  PROVE  Sums(v)[i] = IF i <= k THEN Sums(w)[i]
                      ELSE IF i = k + 1 THEN w.counter[n] ELSE Sums(w)[i - 1]
<1>1. PICK s, t, d : s = Sums(w) /\ t = Sums(v) /\ d = w.counter[n] - s[k]
  OBVIOUS
<1> DEFINE len == Len(w.list)
           T   == {j \in 0..(len + 1) :
                     t[j] # IF j <= k THEN s[j] ELSE IF j = k + 1 THEN w.counter[n] ELSE s[j - 1]}
<1> SUFFICES ASSUME T # {} PROVE FALSE
  BY <1>1
<1>2. /\ k \in Nat /\ k <= len /\ len \in Nat
      /\ w.counter[n] \in Nat
      /\ Len(v.list) = len + 1
      /\ \A j \in 1..(len + 1) :
           v.list[j] = IF j <= k THEN w.list[j] ELSE IF j = k + 1 THEN n ELSE w.list[j - 1]
      /\ v.counter[n] = d
      /\ \A j \in 1..len : v.counter[w.list[j]] = IF j = k + 1 THEN w.counter[w.list[j]] - d
                                                  ELSE w.counter[w.list[j]]
  BY <1>1, AddPlaces
<1>3. /\ s \in [0..len -> Nat] /\ s[0] = 0
      /\ \A j \in 1..len : s[j] = s[j - 1] + w.counter[w.list[j]]
  BY <1>1, SumsStep DEF LineOK
<1>4. /\ t[0] = 0
      /\ \A j \in 1..(len + 1) : t[j] = t[j - 1] + v.counter[v.list[j]]
  <2>1. LineType(v)
    BY WakeupAddNodes DEF LineOK
  <2>2. /\ Sums(v)[0] = 0
        /\ \A j \in 1..Len(v.list) : Sums(v)[j] = Sums(v)[j - 1] + v.counter[v.list[j]]
    BY <2>1, SumsStep
  <2>3. QED BY <1>1, <1>2, <2>2
<1>5. \A j \in 1..len : w.counter[w.list[j]] \in Nat
  BY DEF LineOK, LineType
<1> HIDE DEF len
<1>6. PICK j \in T : \A y \in T : ~ (y < j)
  <2>1. T \subseteq Nat
    BY <1>2
  <2>2. QED BY <2>1, NatMin
<1>7. j # 0 /\ j \in Nat /\ j <= len + 1
  BY <1>2, <1>3, <1>4, <1>6
<1> DEFINE h == j - 1
<1> HIDE DEF h
<1>8. h \in Nat /\ h \in 0..len /\ h \in 0..(len + 1) /\ j = h + 1 /\ h = j - 1 /\ j \in 1..(len + 1)
  BY <1>2, <1>7 DEF h
<1>9. t[h] = IF h <= k THEN s[h] ELSE IF h = k + 1 THEN w.counter[n] ELSE s[h - 1]
  <2>1. h \notin T
    BY <1>6, <1>7, <1>8
  <2>2. QED BY <1>8, <2>1
<1>10. t[j] = t[h] + v.counter[v.list[j]]
  BY <1>4, <1>8
<1>11. s[k] \in Nat /\ (h # 0 => h \in 1..len /\ s[h] = s[h - 1] + w.counter[w.list[h]])
  BY <1>2, <1>3, <1>8
<1>12. CASE j <= k
  <2>1. j \in 1..len /\ h <= k /\ j # k + 1
    BY <1>2, <1>7, <1>8, <1>12
  <2>2. v.counter[v.list[j]] = w.counter[w.list[j]] /\ s[j] = s[h] + w.counter[w.list[j]]
    BY <1>2, <1>3, <1>8, <1>12, <2>1
  <2>3. QED BY <1>6, <1>9, <1>10, <1>12, <2>1, <2>2
<1>13. CASE j = k + 1
  <2>1. h = k /\ ~ (j <= k) /\ v.list[j] = n
    BY <1>2, <1>7, <1>8, <1>13
  <2>2. t[j] = s[k] + (w.counter[n] - s[k])
    BY <1>1, <1>2, <1>9, <1>10, <2>1
  <2>3. t[j] = w.counter[n]
    BY <1>2, <1>11, <2>2
  <2>4. QED BY <1>6, <1>13, <2>1, <2>3
<1>14. CASE k + 1 < j
  <2>1. /\ h # 0 /\ h \in 1..len /\ ~ (h <= k) /\ ~ (j <= k) /\ j # k + 1
        /\ v.list[j] = w.list[h]
    BY <1>2, <1>7, <1>8, <1>14
  <2>2. w.counter[w.list[h]] \in Nat /\ s[h] \in Nat /\ s[h - 1] \in Nat
    <3>1. h - 1 \in 0..len
      BY <1>2, <2>1
    <3>2. QED BY <1>3, <1>5, <1>8, <2>1, <3>1
  <2>3. CASE h = k + 1
    <3>1. v.counter[v.list[j]] = w.counter[w.list[h]] - d /\ t[h] = w.counter[n] /\ h - 1 = k
      BY <1>2, <1>9, <2>1, <2>3
    <3>2. t[j] = w.counter[n] + (w.counter[w.list[h]] - (w.counter[n] - s[h - 1]))
      BY <1>1, <1>10, <3>1
    <3>3. s[h] = s[h - 1] + w.counter[w.list[h]] /\ w.counter[n] \in Nat
      BY <1>2, <1>11, <2>1
    <3>4. t[j] = s[h]
      BY <2>2, <3>2, <3>3
    <3>5. QED BY <1>6, <1>8, <2>1, <3>4
  <2>4. CASE h # k + 1
    <3>1. v.counter[v.list[j]] = w.counter[w.list[h]] /\ t[h] = s[h - 1]
      BY <1>2, <1>9, <2>1, <2>4
    <3>2. t[j] = s[h]
      BY <1>10, <1>11, <2>1, <3>1
    <3>3. QED BY <1>6, <1>8, <2>1, <3>2
  <2>5. QED BY <2>3, <2>4
<1>15. QED BY <1>2, <1>7, <1>12, <1>13, <1>14

\* A node that is added expires when it should, and everybody else does as before.
THEOREM WakeupAddKeepsTimes ==
  ASSUME NEW w, LineOK(w), NEW n \in Nodes, ~ OnLine(w, n)
  PROVE  /\ TimeLeft(WakeupAdd(w, n), n) = w.counter[n]
         /\ \A m : OnLine(w, m) => TimeLeft(WakeupAdd(w, n), m) = TimeLeft(w, m)
<1>1. PICK v, k, len : v = WakeupAdd(w, n) /\ k = AddPlace(w, n) /\ len = Len(w.list)
  OBVIOUS
<1>2. /\ k \in Nat /\ k <= len /\ len \in Nat
      /\ Len(v.list) = len + 1
      /\ \A i \in 1..(len + 1) :
           v.list[i] = IF i <= k THEN w.list[i] ELSE IF i = k + 1 THEN n ELSE w.list[i - 1]
  <2>1. PICK d : d = w.counter[n] - Sums(w)[k]
    OBVIOUS
  <2>2. QED BY <1>1, <2>1, AddPlaces
<1>3. LineOK(v) /\ \A m : OnLine(v, m) <=> OnLine(w, m) \/ m = n
  BY <1>1, WakeupAddNodes
<1>4. \A i \in 0..(len + 1) :
        Sums(v)[i] = IF i <= k THEN Sums(w)[i]
                     ELSE IF i = k + 1 THEN w.counter[n] ELSE Sums(w)[i - 1]
  BY <1>1, AddSums
<1>5. ASSUME NEW m, OnLine(v, m), NEW i \in 1..(len + 1), v.list[i] = m
      PROVE  TimeLeft(v, m) = Sums(v)[i]
  <2>1. PlaceOf(v, m) = i
    BY <1>2, <1>3, <1>5, PlaceFound
  <2>2. QED BY <1>5, <2>1 DEF TimeLeft
<1>6. TimeLeft(v, n) = w.counter[n]
  <2>1. PICK i \in 1..(len + 1) : i = k + 1 /\ ~ (i <= k)
    <3>1. k + 1 \in 1..(len + 1) /\ ~ (k + 1 <= k)
      BY <1>2
    <3>2. QED BY <3>1
  <2>2. v.list[i] = n /\ OnLine(v, n) /\ i \in 0..(len + 1)
    BY <1>2, <1>3, <2>1
  <2>3. TimeLeft(v, n) = Sums(v)[i]
    BY <1>5, <2>2
  <2>4. QED BY <1>4, <2>1, <2>2, <2>3
<1>7. ASSUME NEW m, OnLine(w, m) PROVE TimeLeft(v, m) = TimeLeft(w, m)
  <2>1. PICK j : j = PlaceOf(w, m)
    OBVIOUS
  <2>2. j \in 1..len /\ w.list[j] = m
    BY <1>1, <1>7, <2>1, PlaceType
  <2>3. TimeLeft(w, m) = Sums(w)[j] /\ OnLine(v, m)
    BY <1>3, <1>7, <2>1 DEF TimeLeft
  <2>4. CASE j <= k
    <3>1. v.list[j] = m /\ j \in 1..(len + 1) /\ j \in 0..(len + 1)
      BY <1>2, <2>2, <2>4
    <3>2. QED BY <1>4, <1>5, <2>3, <2>4, <3>1
  <2>5. CASE ~ (j <= k)
    <3>1. PICK i \in 1..(len + 1) : i - 1 = j /\ ~ (i <= k) /\ i # k + 1 /\ i \in 0..(len + 1)
      <4>1. /\ j + 1 \in 1..(len + 1) /\ (j + 1) - 1 = j /\ ~ (j + 1 <= k) /\ j + 1 # k + 1
            /\ j + 1 \in 0..(len + 1)
        BY <1>2, <2>2, <2>5
      <4>2. QED BY <4>1
    <3>2. v.list[i] = m
      BY <1>2, <2>2, <3>1
    <3>3. Sums(v)[i] = Sums(w)[j]
      BY <1>4, <3>1
    <3>4. QED BY <1>5, <2>3, <3>2, <3>3
  <2>6. QED BY <2>4, <2>5
<1>8. QED BY <1>1, <1>6, <1>7

-----------------------------------------------------------------------------
(* The order of the nodes, and what the scan has charged.                  *)

\* The time to a node is the sum of the counters up to it.
LEMMA TimeAt ==
  ASSUME NEW w, LineOK(w), NEW m, OnLine(w, m)
  PROVE  /\ PlaceOf(w, m) \in 1..Len(w.list) /\ w.list[PlaceOf(w, m)] = m
         /\ Len(w.list) \in Nat
         /\ TimeLeft(w, m) = Sums(w)[PlaceOf(w, m)]
         /\ TimeLeft(w, m) \in Nat
         /\ m \in Nodes /\ m # NULL /\ w.counter[m] \in Nat
<1>1. w.list \in Seq(Nodes) /\ Len(w.list) \in Nat /\ w.counter \in [Nodes -> Nat]
  BY DEF LineOK, LineType
<1>2. PlaceOf(w, m) \in 1..Len(w.list) /\ w.list[PlaceOf(w, m)] = m
  BY PlaceType
<1>3. TimeLeft(w, m) = Sums(w)[PlaceOf(w, m)]
  BY DEF TimeLeft
<1>4. Sums(w) \in [0..Len(w.list) -> Nat]
  BY SumsStep DEF LineOK
<1>5. m \in Nodes /\ m # NULL
  BY <1>1, <1>2, WakeupLineAssumption
<1>6. PlaceOf(w, m) \in 0..Len(w.list)
  BY <1>1, <1>2
<1>7. QED BY <1>1, <1>2, <1>3, <1>4, <1>5, <1>6

\* Sums grow from left to right.
LEMMA SumsGrow ==
  ASSUME NEW w, LineType(w), NEW i \in 0..Len(w.list), NEW j \in 0..Len(w.list), i <= j
  PROVE  Sums(w)[i] <= Sums(w)[j]
<1>1. PICK s : s = Sums(w)
  OBVIOUS
<1> DEFINE T == {h \in 0..Len(w.list) : i <= h /\ ~ (s[i] <= s[h])}
<1> SUFFICES ASSUME T # {} PROVE FALSE
  BY <1>1
<1>2. /\ s \in [0..Len(w.list) -> Nat]
      /\ \A h \in 1..Len(w.list) : s[h] = s[h - 1] + w.counter[w.list[h]]
  BY <1>1, SumsStep
<1>3. Len(w.list) \in Nat /\ \A h \in 1..Len(w.list) : w.counter[w.list[h]] \in Nat
  BY DEF LineType
<1>4. PICK h \in T : \A y \in T : ~ (y < h)
  <2>1. T \subseteq Nat
    BY <1>3
  <2>2. QED BY <2>1, NatMin
<1>5. h # i /\ h \in 1..Len(w.list) /\ h - 1 \in 0..Len(w.list) /\ i <= h - 1
  BY <1>2, <1>3, <1>4
<1>6. s[i] <= s[h - 1]
  BY <1>4, <1>5
<1>7. s[h] = s[h - 1] + w.counter[w.list[h]] /\ s[h - 1] \in Nat /\ s[i] \in Nat
      /\ w.counter[w.list[h]] \in Nat
  BY <1>2, <1>3, <1>5
<1>8. s[i] <= s[h]
  BY <1>6, <1>7
<1>9. QED BY <1>4, <1>8

\* The line is in the order in which the nodes expire.
LEMMA TimeGrows ==
  ASSUME NEW w, LineOK(w), NEW m, OnLine(w, m), NEW n, OnLine(w, n),
         PlaceOf(w, m) <= PlaceOf(w, n)
  PROVE  TimeLeft(w, m) <= TimeLeft(w, n)
<1>1. PICK i, j : i = PlaceOf(w, m) /\ j = PlaceOf(w, n)
  OBVIOUS
<1>2. i \in 1..Len(w.list) /\ j \in 1..Len(w.list) /\ Len(w.list) \in Nat
  BY <1>1, TimeAt
<1>3. i \in 0..Len(w.list) /\ j \in 0..Len(w.list) /\ i <= j
  BY <1>1, <1>2
<1>4. Sums(w)[i] <= Sums(w)[j]
  BY <1>3, SumsGrow DEF LineOK
<1>5. QED BY <1>1, <1>4, TimeAt

\* The nodes that the scan has still to look at.
Uncharged(w) ==
  {m \in Nodes : OnLine(w, m) /\ w.op # NULL /\ PlaceOf(w, w.op) <= PlaceOf(w, m)}

\* If nobody is in front of the scan, then the node it looks at is the first.
LEMMA OpPlace ==
  ASSUME NEW w, LineOK(w), w.op # NULL, \A m \in Nodes : OnLine(w, m) => m \in Uncharged(w)
  PROVE  PlaceOf(w, w.op) = 1 /\ 1 \in 1..Len(w.list) /\ w.list[1] = w.op
<1>1. PICK k : k = PlaceOf(w, w.op)
  OBVIOUS
<1>2. OnLine(w, w.op) /\ w.list \in Seq(Nodes)
  BY DEF LineOK, LineType
<1>3. k \in 1..Len(w.list) /\ w.list[k] = w.op /\ Len(w.list) \in Nat
  BY <1>1, <1>2, TimeAt
<1>4. 1 \in 1..Len(w.list)
  BY <1>3
<1>5. OnLine(w, w.list[1]) /\ w.list[1] \in Nodes
  BY <1>2, <1>4 DEF OnLine
<1>6. PlaceOf(w, w.list[1]) = 1
  BY <1>4, PlaceFound
<1>7. k <= 1
  BY <1>1, <1>5, <1>6 DEF Uncharged
<1>8. k = 1
  BY <1>3, <1>7
<1>9. QED BY <1>1, <1>3, <1>4, <1>8

LEMMA OpIsFirst ==
  ASSUME NEW w, LineOK(w), w.op # NULL, \A m \in Nodes : OnLine(w, m) => m \in Uncharged(w)
  PROVE  First(w) = w.op
<1>1. 1 \in 1..Len(w.list) /\ w.list[1] = w.op
  BY OpPlace
<1>2. w.list # << >>
  BY <1>1
<1>3. QED BY <1>1, <1>2 DEF First

LEMMA OpFirst ==
  ASSUME NEW w, LineOK(w), w.op # NULL, \A m \in Nodes : OnLine(w, m) => m \in Uncharged(w)
  PROVE  TimeLeft(w, w.op) = w.counter[w.op]
<1>1. PICK k, o : k = PlaceOf(w, w.op) /\ o = w.op
  OBVIOUS
<1>2. OnLine(w, o) /\ LineType(w)
  BY <1>1 DEF LineOK
<1>3. k \in 1..Len(w.list) /\ w.list[k] = o /\ k = 1 /\ w.counter[o] \in Nat
  BY <1>1, <1>2, TimeAt, OpPlace
<1>4. Sums(w)[0] = 0 /\ Sums(w)[k] = Sums(w)[k - 1] + w.counter[w.list[k]]
  BY <1>2, <1>3, SumsStep
<1>5. TimeLeft(w, o) = Sums(w)[k]
  BY <1>1, <1>2, TimeAt
<1>6. Sums(w)[k] = w.counter[o]
  BY <1>3, <1>4
<1>7. QED BY <1>1, <1>5, <1>6

LEMMA FirstIsOp ==
  ASSUME NEW w, LineOK(w), w.op # NULL, First(w) = w.op
  PROVE  \A m \in Nodes : OnLine(w, m) => m \in Uncharged(w)
<1> SUFFICES ASSUME NEW m \in Nodes, OnLine(w, m) PROVE PlaceOf(w, w.op) <= PlaceOf(w, m)
  BY DEF Uncharged
<1>1. PICK k : k = PlaceOf(w, m)
  OBVIOUS
<1>2. k \in 1..Len(w.list) /\ Len(w.list) \in Nat
  BY <1>1, TimeAt
<1>3. 1 \in 1..Len(w.list) /\ w.op = w.list[1]
  BY <1>2 DEF First
<1>4. PlaceOf(w, w.op) = 1
  BY <1>3, PlaceFound
<1>5. QED BY <1>1, <1>2, <1>4

\* If somebody is in front of it, the last of these has the ticks up to its own.
LEMMA OpBehind ==
  ASSUME NEW w, LineOK(w), w.op # NULL,
         NEW m \in Nodes, OnLine(w, m), m \notin Uncharged(w)
  PROVE  \E h \in Nodes : /\ OnLine(w, h) /\ h \notin Uncharged(w)
                          /\ TimeLeft(w, w.op) = TimeLeft(w, h) + w.counter[w.op]
<1>1. PICK k, o, j : k = PlaceOf(w, w.op) /\ o = w.op /\ j = PlaceOf(w, m)
  OBVIOUS
<1>2. OnLine(w, o) /\ LineType(w) /\ w.list \in Seq(Nodes)
  BY <1>1 DEF LineOK, LineType
<1>3. /\ k \in 1..Len(w.list) /\ w.list[k] = o /\ Len(w.list) \in Nat
      /\ j \in 1..Len(w.list)
  BY <1>1, <1>2, TimeAt
<1>4. ~ (k <= j)
  BY <1>1 DEF Uncharged
<1>5. PICK i \in 1..Len(w.list) : i = k - 1
  BY <1>3, <1>4
<1>6. PICK h : h = w.list[i]
  OBVIOUS
<1>7. h \in Nodes /\ OnLine(w, h) /\ PlaceOf(w, h) = i
  BY <1>2, <1>5, <1>6, PlaceFound DEF OnLine
<1>8. h \notin Uncharged(w)
  BY <1>1, <1>3, <1>5, <1>7 DEF Uncharged
<1>9. Sums(w)[k] = Sums(w)[k - 1] + w.counter[w.list[k]]
  BY <1>2, <1>3, SumsStep
<1>10. TimeLeft(w, h) = Sums(w)[i] /\ TimeLeft(w, o) = Sums(w)[k]
  BY <1>1, <1>2, <1>7, TimeAt
<1>11. QED BY <1>1, <1>3, <1>5, <1>7, <1>8, <1>9, <1>10

\* The node that the scan looks at is the one that expires next of those.
LEMMA OpNext ==
  ASSUME NEW w, LineOK(w), NEW m \in Uncharged(w)
  PROVE  /\ w.op # NULL /\ w.op \in Uncharged(w)
         /\ w.counter[w.op] <= TimeLeft(w, w.op)
         /\ TimeLeft(w, w.op) <= TimeLeft(w, m)
<1>1. PICK k, o : k = PlaceOf(w, w.op) /\ o = w.op
  OBVIOUS
<1>2. o # NULL /\ OnLine(w, m) /\ OnLine(w, o) /\ LineType(w) /\ k <= PlaceOf(w, m)
  BY <1>1 DEF LineOK, Uncharged
<1>3. /\ k \in 1..Len(w.list) /\ w.list[k] = o /\ Len(w.list) \in Nat
      /\ w.counter[o] \in Nat /\ o \in Nodes
  BY <1>1, <1>2, TimeAt
<1>4. o \in Uncharged(w)
  BY <1>1, <1>2, <1>3 DEF Uncharged
<1>5. TimeLeft(w, o) <= TimeLeft(w, m)
  BY <1>1, <1>2, TimeGrows
<1>6. /\ Sums(w) \in [0..Len(w.list) -> Nat]
      /\ Sums(w)[k] = Sums(w)[k - 1] + w.counter[w.list[k]]
  BY <1>2, <1>3, SumsStep
<1>7. k - 1 \in 0..Len(w.list)
  BY <1>3
<1>8. Sums(w)[k - 1] \in Nat /\ TimeLeft(w, o) = Sums(w)[k]
  BY <1>1, <1>2, <1>6, <1>7, TimeAt
<1>9. QED BY <1>1, <1>2, <1>3, <1>4, <1>5, <1>6, <1>8

\* _WakeupDel moves the nodes behind the one it takes off by one place.
LEMMA DelPlaceOf ==
  ASSUME NEW w, LineOK(w), NEW n, OnLine(w, n), NEW m, OnLine(w, m), m # n,
         NEW v, v = WakeupDel(w, n)
  PROVE  /\ PlaceOf(w, m) # PlaceOf(w, n)
         /\ PlaceOf(v, m) = IF PlaceOf(w, m) < PlaceOf(w, n)
                            THEN PlaceOf(w, m) ELSE PlaceOf(w, m) - 1
<1>1. PICK k, j : k = PlaceOf(w, n) /\ j = PlaceOf(w, m)
  OBVIOUS
<1>2. /\ k \in 1..Len(w.list) /\ w.list[k] = n /\ Len(w.list) \in Nat
      /\ Len(v.list) = Len(w.list) - 1
      /\ \A i \in 1..(Len(w.list) - 1) :
           v.list[i] = IF i < k THEN w.list[i] ELSE w.list[i + 1]
  BY <1>1, DelPlaces
<1>3. j \in 1..Len(w.list) /\ w.list[j] = m /\ j # k
  BY <1>1, <1>2, PlaceType
<1>4. LineOK(v)
  BY WakeupDelNodes
<1>5. CASE j < k
  <2>1. j \in 1..Len(v.list) /\ v.list[j] = m
    BY <1>2, <1>3, <1>5
  <2>2. PlaceOf(v, m) = j
    BY <1>4, <2>1, PlaceFound
  <2>3. QED BY <1>1, <1>3, <1>5, <2>2
<1>6. CASE k < j
  <2>1. PICK i \in 1..(Len(w.list) - 1) : i = j - 1 /\ i + 1 = j /\ ~ (i < k)
    <3>1. j - 1 \in 1..(Len(w.list) - 1) /\ (j - 1) + 1 = j /\ ~ (j - 1 < k)
      BY <1>2, <1>3, <1>6
    <3>2. QED BY <3>1
  <2>2. i \in 1..Len(v.list) /\ v.list[i] = m
    BY <1>2, <1>3, <2>1
  <2>3. PlaceOf(v, m) = i
    BY <1>4, <2>2, PlaceFound
  <2>4. QED BY <1>1, <1>2, <1>3, <1>6, <2>1, <2>3
<1>7. QED BY <1>2, <1>3, <1>5, <1>6

LEMMA DelOrder ==
  ASSUME NEW w, LineOK(w), NEW n, OnLine(w, n), NEW v, v = WakeupDel(w, n),
         NEW a, OnLine(w, a), a # n, NEW b, OnLine(w, b), b # n
  PROVE  PlaceOf(v, a) <= PlaceOf(v, b) <=> PlaceOf(w, a) <= PlaceOf(w, b)
<1>1. PICK k, i, j, ii, jj : /\ k = PlaceOf(w, n) /\ i = PlaceOf(w, a) /\ j = PlaceOf(w, b)
                             /\ ii = PlaceOf(v, a) /\ jj = PlaceOf(v, b)
  OBVIOUS
<1>2. /\ k \in 1..Len(w.list) /\ i \in 1..Len(w.list) /\ j \in 1..Len(w.list)
      /\ Len(w.list) \in Nat
  BY <1>1, TimeAt
<1>3. i # k /\ ii = IF i < k THEN i ELSE i - 1
  BY <1>1, DelPlaceOf
<1>4. j # k /\ jj = IF j < k THEN j ELSE j - 1
  BY <1>1, DelPlaceOf
<1>5. ii <= jj <=> i <= j
  BY <1>2, <1>3, <1>4
<1>6. QED BY <1>1, <1>5

\* A scan that was about to look at the node looks at the next: nobody else is
\* passed over, and nobody is looked at again.
LEMMA DelUncharged ==
  ASSUME NEW w, LineOK(w), NEW n, OnLine(w, n), NEW v, v = WakeupDel(w, n)
  PROVE  Uncharged(v) = Uncharged(w) \ {n}
<1>1. LineOK(v) /\ \A m : OnLine(v, m) <=> OnLine(w, m) /\ m # n
  BY WakeupDelNodes
<1>2. v.op = IF w.op = n THEN NextOf(w, n) ELSE w.op
  BY DEF WakeupDel
<1>3. n \in Nodes /\ n # NULL
  BY TimeAt
<1> SUFFICES ASSUME NEW m \in Nodes, OnLine(w, m), m # n
             PROVE  m \in Uncharged(v) <=> m \in Uncharged(w)
  BY <1>1 DEF Uncharged
<1>4. OnLine(v, m)
  BY <1>1
<1>5. CASE w.op # NULL /\ w.op # n
  <2>1. OnLine(w, w.op) /\ v.op = w.op
    BY <1>2, <1>5 DEF LineOK
  <2>2. PlaceOf(v, w.op) <= PlaceOf(v, m) <=> PlaceOf(w, w.op) <= PlaceOf(w, m)
    BY <1>5, <2>1, DelOrder
  <2>3. QED BY <1>4, <1>5, <2>1, <2>2 DEF Uncharged
<1>6. CASE w.op = NULL
  BY <1>2, <1>3, <1>6 DEF Uncharged
<1>7. CASE w.op = n
  <2>1. PICK k, j, o : k = PlaceOf(w, n) /\ j = PlaceOf(w, m) /\ o = NextOf(w, n)
    OBVIOUS
  <2>2. /\ k \in 1..Len(w.list) /\ j \in 1..Len(w.list) /\ Len(w.list) \in Nat
        /\ w.list \in Seq(Nodes)
    BY <2>1, TimeAt DEF LineOK, LineType
  <2>3. j # k
    BY <2>1, DelPlaceOf
  <2>4. m \in Uncharged(w) <=> k <= j
    BY <1>3, <1>7, <2>1 DEF Uncharged
  <2>5. o = IF k < Len(w.list) THEN w.list[k + 1] ELSE NULL
    BY <2>1 DEF NextOf
  <2>6. CASE k < Len(w.list)
    <3>1. PICK i \in 1..Len(w.list) : i = k + 1
      <4>1. k + 1 \in 1..Len(w.list)
        BY <2>2, <2>6
      <4>2. QED BY <4>1
    <3>2. o = w.list[i] /\ o \in Nodes /\ o # NULL /\ OnLine(w, o) /\ PlaceOf(w, o) = i
      BY <2>2, <2>5, <2>6, <3>1, PlaceFound, WakeupLineAssumption DEF OnLine
    <3>3. o # n
      BY <2>1, <2>2, <3>1, <3>2
    <3>4. PlaceOf(v, o) <= PlaceOf(v, m) <=> PlaceOf(w, o) <= PlaceOf(w, m)
      BY <3>2, <3>3, DelOrder
    <3>5. v.op = o /\ v.op # NULL
      BY <1>2, <1>7, <2>1, <3>2
    <3>6. m \in Uncharged(v) <=> i <= j
      BY <1>4, <2>1, <3>2, <3>4, <3>5 DEF Uncharged
    <3>7. QED BY <2>2, <2>3, <2>4, <3>1, <3>6
  <2>7. CASE ~ (k < Len(w.list))
    <3>1. v.op = NULL
      BY <1>2, <1>7, <2>1, <2>5, <2>7
    <3>2. ~ (k <= j)
      BY <2>2, <2>3, <2>7
    <3>3. QED BY <2>4, <3>1, <3>2 DEF Uncharged
  <2>8. QED BY <2>6, <2>7
<1>8. QED BY <1>5, <1>6, <1>7

\* _WakeupAdd moves the nodes behind the new one by one place.
LEMMA AddPlaceOf ==
  ASSUME NEW w, LineOK(w), NEW n \in Nodes, ~ OnLine(w, n), NEW k, k = AddPlace(w, n),
         NEW v, v = WakeupAdd(w, n)
  PROVE  /\ k \in Nat /\ k <= Len(w.list) /\ Len(w.list) \in Nat
         /\ PlaceOf(v, n) = k + 1
         /\ \A m : OnLine(w, m) =>
              PlaceOf(v, m) = IF PlaceOf(w, m) <= k THEN PlaceOf(w, m) ELSE PlaceOf(w, m) + 1
<1>1. /\ k \in Nat /\ k <= Len(w.list) /\ Len(w.list) \in Nat
      /\ Len(v.list) = Len(w.list) + 1
      /\ \A i \in 1..(Len(w.list) + 1) :
           v.list[i] = IF i <= k THEN w.list[i] ELSE IF i = k + 1 THEN n ELSE w.list[i - 1]
  <2>1. PICK d : d = w.counter[n] - Sums(w)[k]
    OBVIOUS
  <2>2. QED BY <2>1, AddPlaces
<1>2. LineOK(v)
  BY WakeupAddNodes
<1>3. PlaceOf(v, n) = k + 1
  <2>1. PICK i \in 1..Len(v.list) : i = k + 1 /\ ~ (i <= k)
    <3>1. k + 1 \in 1..Len(v.list) /\ ~ (k + 1 <= k)
      BY <1>1
    <3>2. QED BY <3>1
  <2>2. v.list[i] = n
    BY <1>1, <2>1
  <2>3. QED BY <1>2, <2>1, <2>2, PlaceFound
<1>4. ASSUME NEW m, OnLine(w, m), NEW j, j = PlaceOf(w, m)
      PROVE  PlaceOf(v, m) = IF j <= k THEN j ELSE j + 1
  <2>1. j \in 1..Len(w.list) /\ w.list[j] = m
    BY <1>4, PlaceType
  <2>2. CASE j <= k
    <3>1. j \in 1..Len(v.list) /\ v.list[j] = m
      BY <1>1, <2>1, <2>2
    <3>2. QED BY <1>2, <2>2, <3>1, PlaceFound
  <2>3. CASE ~ (j <= k)
    <3>1. PICK i \in 1..Len(v.list) : i = j + 1 /\ i - 1 = j /\ ~ (i <= k) /\ i # k + 1
      <4>1. /\ j + 1 \in 1..Len(v.list) /\ (j + 1) - 1 = j /\ ~ (j + 1 <= k)
            /\ j + 1 # k + 1
        BY <1>1, <2>1, <2>3
      <4>2. QED BY <4>1
    <3>2. v.list[i] = m
      BY <1>1, <2>1, <3>1
    <3>3. QED BY <1>2, <2>3, <3>1, <3>2, PlaceFound
  <2>4. QED BY <2>2, <2>3
<1>5. QED BY <1>1, <1>3, <1>4

LEMMA AddUncharged ==
  ASSUME NEW w, LineOK(w), NEW n \in Nodes, ~ OnLine(w, n), NEW v, v = WakeupAdd(w, n)
  PROVE  /\ v.op = w.op
         /\ Uncharged(v) \ {n} = Uncharged(w)
<1>1. PICK k : k = AddPlace(w, n)
  OBVIOUS
<1>2. LineOK(v) /\ \A m : OnLine(v, m) <=> OnLine(w, m) \/ m = n
  BY WakeupAddNodes
<1>3. v.op = w.op
  BY DEF WakeupAdd
<1>4. n \notin Uncharged(w)
  BY DEF Uncharged
<1>5. ASSUME NEW m \in Nodes, OnLine(w, m)
      PROVE  m \in Uncharged(v) <=> m \in Uncharged(w)
  <2>1. CASE w.op = NULL
    BY <1>3, <2>1 DEF Uncharged
  <2>2. CASE w.op # NULL
    <3>1. PICK i, j : i = PlaceOf(w, w.op) /\ j = PlaceOf(w, m)
      OBVIOUS
    <3>2. OnLine(w, w.op)
      BY <2>2 DEF LineOK
    <3>3. i \in 1..Len(w.list) /\ j \in 1..Len(w.list)
      BY <1>5, <3>1, <3>2, TimeAt
    <3>4. /\ k \in Nat /\ Len(w.list) \in Nat
          /\ PlaceOf(v, w.op) = IF i <= k THEN i ELSE i + 1
          /\ PlaceOf(v, m) = IF j <= k THEN j ELSE j + 1
      BY <1>1, <1>5, <3>1, <3>2, AddPlaceOf
    <3>5. PlaceOf(v, w.op) <= PlaceOf(v, m) <=> i <= j
      BY <3>3, <3>4
    <3>6. QED BY <1>2, <1>3, <1>5, <2>2, <3>1, <3>5 DEF Uncharged
  <2>3. QED BY <2>1, <2>2
<1>6. QED BY <1>2, <1>3, <1>4, <1>5 DEF Uncharged

\* The new node is behind every node that expires with it.
LEMMA AddInFront ==
  ASSUME NEW w, LineOK(w), NEW n \in Nodes, ~ OnLine(w, n), NEW v, v = WakeupAdd(w, n),
         NEW m, OnLine(w, m), PlaceOf(v, n) <= PlaceOf(v, m)
  PROVE  w.counter[n] < TimeLeft(w, m)
<1>1. PICK k, j : k = AddPlace(w, n) /\ j = PlaceOf(w, m)
  OBVIOUS
<1>2. j \in 1..Len(w.list) /\ Len(w.list) \in Nat /\ TimeLeft(w, m) = Sums(w)[j]
  BY <1>1, TimeAt
<1>3. /\ k \in Nat /\ k <= Len(w.list)
      /\ PlaceOf(v, n) = k + 1
      /\ PlaceOf(v, m) = IF j <= k THEN j ELSE j + 1
  BY <1>1, AddPlaceOf
<1>4. PICK h \in 1..Len(w.list) : h = k + 1 /\ h <= j
  <2>1. k + 1 \in 1..Len(w.list) /\ k + 1 <= j
    BY <1>2, <1>3
  <2>2. QED BY <2>1
<1>5. w.counter[n] < Sums(w)[h]
  <2>1. AddPlace(w, n) < Len(w.list) => w.counter[n] < Sums(w)[AddPlace(w, n) + 1]
    BY AddPlaceFound DEF LineOK
  <2>2. k < Len(w.list) => w.counter[n] < Sums(w)[k + 1]
    BY <1>1, <2>1
  <2>3. QED BY <1>2, <1>3, <1>4, <2>2
<1>6. h \in 0..Len(w.list) /\ j \in 0..Len(w.list)
  BY <1>2
<1>7. Sums(w)[h] <= Sums(w)[j]
  BY <1>4, <1>6, SumsGrow DEF LineOK
<1>8. Sums(w) \in [0..Len(w.list) -> Nat] /\ w.counter[n] \in Nat
  BY SumsStep DEF LineOK, LineType
<1>9. QED BY <1>2, <1>5, <1>6, <1>7, <1>8

-----------------------------------------------------------------------------
(* What a changed counter does to the times.                               *)

\* The sums from the node on change with its counter.
LEMMA CounterSums ==
  ASSUME NEW w, LineOK(w), NEW n, OnLine(w, n), NEW k, k = PlaceOf(w, n), NEW ticks \in Nat,
         NEW v, LineType(v), v.list = w.list, v.counter = [w.counter EXCEPT ![n] = ticks],
         NEW i \in 0..Len(w.list)
  PROVE  Sums(v)[i] = IF i < k THEN Sums(w)[i] ELSE (Sums(w)[i] - w.counter[n]) + ticks
<1>1. PICK s, t, c : s = Sums(w) /\ t = Sums(v) /\ c = w.counter[n]
  OBVIOUS
<1> DEFINE len == Len(w.list)
           T   == {j \in 0..len : t[j] # IF j < k THEN s[j] ELSE (s[j] - c) + ticks}
<1> SUFFICES ASSUME T # {} PROVE FALSE
  BY <1>1
<1>2. /\ s \in [0..len -> Nat] /\ s[0] = 0
      /\ \A j \in 1..len : s[j] = s[j - 1] + w.counter[w.list[j]]
  BY <1>1, SumsStep DEF LineOK
<1>3. /\ t[0] = 0
      /\ \A j \in 1..len : t[j] = t[j - 1] + v.counter[w.list[j]]
  <2>1. /\ Sums(v)[0] = 0
        /\ \A j \in 1..Len(v.list) : Sums(v)[j] = Sums(v)[j - 1] + v.counter[v.list[j]]
    BY SumsStep
  <2>2. QED BY <1>1, <2>1
<1>4. /\ len \in Nat /\ k \in 1..len /\ w.list[k] = n
      /\ c \in Nat
      /\ \A j \in 1..len : w.counter[w.list[j]] \in Nat
  <2>1. len \in Nat /\ k \in 1..len /\ w.list[k] = n /\ w.counter[n] \in Nat
    BY TimeAt
  <2>2. \A j \in 1..len : w.counter[w.list[j]] \in Nat
    BY DEF LineOK, LineType
  <2>3. QED BY <1>1, <2>1, <2>2
<1>5. \A h, j \in 1..len : w.list[h] = w.list[j] => h = j
  BY InjectiveList DEF LineOK, LineType
<1>6. \A j \in 1..len : v.counter[w.list[j]] = IF j = k THEN ticks ELSE w.counter[w.list[j]]
  BY <1>4, <1>5 DEF LineOK, LineType
<1> HIDE DEF len
<1>7. PICK j \in T : \A y \in T : ~ (y < j)
  <2>1. T \subseteq Nat
    BY <1>4
  <2>2. QED BY <2>1, NatMin
<1>8. j # 0 /\ j \in 1..len
  <2>1. 0 < k
    BY <1>4
  <2>2. j # 0
    BY <1>2, <1>3, <1>7, <2>1
  <2>3. QED BY <1>4, <1>7, <2>2
<1> DEFINE h == j - 1
<1> HIDE DEF h
<1>9. h \in 0..len /\ h < j /\ j = h + 1 /\ h = j - 1
  BY <1>4, <1>8 DEF h
<1>10. t[h] = IF h < k THEN s[h] ELSE (s[h] - c) + ticks
  BY <1>4, <1>7, <1>9
<1>11. /\ t[j] = t[h] + v.counter[w.list[j]] /\ s[j] = s[h] + w.counter[w.list[j]]
       /\ s[h] \in Nat /\ w.counter[w.list[j]] \in Nat
  BY <1>2, <1>3, <1>4, <1>8, <1>9
<1>12. CASE j < k
  <2>1. h < k /\ v.counter[w.list[j]] = w.counter[w.list[j]]
    BY <1>4, <1>6, <1>8, <1>9, <1>12
  <2>2. QED BY <1>7, <1>10, <1>11, <1>12, <2>1
<1>13. CASE j = k
  <2>1. h < k /\ v.counter[w.list[j]] = ticks /\ w.counter[w.list[j]] = c
    BY <1>1, <1>4, <1>6, <1>8, <1>9, <1>13
  <2>2. t[j] = (s[j] - c) + ticks
    BY <1>4, <1>10, <1>11, <2>1
  <2>3. QED BY <1>4, <1>7, <1>13, <2>2
<1>14. CASE k < j
  <2>1. ~ (h < k) /\ v.counter[w.list[j]] = w.counter[w.list[j]]
    BY <1>4, <1>6, <1>8, <1>9, <1>14
  <2>2. t[j] = (s[j] - c) + ticks
    BY <1>4, <1>10, <1>11, <2>1
  <2>3. QED BY <1>4, <1>7, <1>8, <1>14, <2>2
<1>15. QED BY <1>4, <1>8, <1>12, <1>13, <1>14

\* So do the times of the node and of those behind it, and no other.
LEMMA CounterTimes ==
  ASSUME NEW w, LineOK(w), NEW n, OnLine(w, n), NEW ticks \in Nat,
         NEW v, LineType(v), v.list = w.list, v.counter = [w.counter EXCEPT ![n] = ticks],
         NEW m, OnLine(w, m)
  PROVE  /\ OnLine(v, m) /\ PlaceOf(v, m) = PlaceOf(w, m)
         /\ TimeLeft(v, m) = IF PlaceOf(w, n) <= PlaceOf(w, m)
                             THEN (TimeLeft(w, m) - w.counter[n]) + ticks
                             ELSE TimeLeft(w, m)
<1>1. OnLine(v, m) /\ PlaceOf(v, m) = PlaceOf(w, m)
  BY DEF OnLine, PlaceOf
<1>2. PICK k, i : k = PlaceOf(w, n) /\ i = PlaceOf(w, m)
  OBVIOUS
<1>3. k \in 1..Len(w.list) /\ i \in 1..Len(w.list) /\ Len(w.list) \in Nat
  BY <1>2, TimeAt
<1>4. i \in 0..Len(w.list)
  BY <1>3
<1>5. Sums(v)[i] = IF i < k THEN Sums(w)[i] ELSE (Sums(w)[i] - w.counter[n]) + ticks
  BY <1>2, <1>4, CounterSums
<1>6. TimeLeft(v, m) = Sums(v)[i] /\ TimeLeft(w, m) = Sums(w)[i]
  BY <1>1, <1>2 DEF TimeLeft
<1>7. QED BY <1>1, <1>2, <1>3, <1>5, <1>6

\* The counter of a node that is not on the line does not matter.
LEMMA CounterOffLine ==
  ASSUME NEW w, LineOK(w), NEW n, ~ OnLine(w, n), NEW ticks \in Nat,
         NEW v, v = SetCounter(w, n, ticks)
  PROVE  \A m : TimeLeft(v, m) = TimeLeft(w, m)
<1>1. v.list = w.list /\ v.counter = [w.counter EXCEPT ![n] = ticks]
  BY DEF SetCounter
<1>2. \A i \in 1..Len(w.list) : v.counter[w.list[i]] = w.counter[w.list[i]]
  <2> TAKE i \in 1..Len(w.list)
  <2>1. w.list[i] # n /\ w.list[i] \in Nodes
    BY DEF OnLine, LineOK, LineType
  <2>2. QED BY <1>1, <2>1 DEF LineOK, LineType
<1>3. Sums(v) = Sums(w)
  <2>1. PICK s, t : s = Sums(w) /\ t = Sums(v)
    OBVIOUS
  <2> DEFINE T == {j \in 0..Len(w.list) : t[j] # s[j]}
  <2>2. LineType(v)
    BY SetCounterNodes DEF LineOK
  <2>3. /\ s \in [0..Len(w.list) -> Nat] /\ s[0] = 0
        /\ \A j \in 1..Len(w.list) : s[j] = s[j - 1] + w.counter[w.list[j]]
    BY <2>1, SumsStep DEF LineOK
  <2>4. /\ t \in [0..Len(w.list) -> Nat] /\ t[0] = 0
        /\ \A j \in 1..Len(w.list) : t[j] = t[j - 1] + w.counter[w.list[j]]
    <3>1. /\ Sums(v) \in [0..Len(v.list) -> Nat] /\ Sums(v)[0] = 0
          /\ \A j \in 1..Len(v.list) : Sums(v)[j] = Sums(v)[j - 1] + v.counter[v.list[j]]
      BY <2>2, SumsStep
    <3>2. QED BY <1>1, <1>2, <2>1, <3>1
  <2>5. T = {}
    <3> SUFFICES ASSUME T # {} PROVE FALSE
      OBVIOUS
    <3>1. T \subseteq Nat /\ Len(w.list) \in Nat
      BY DEF LineOK, LineType
    <3>2. PICK j \in T : \A y \in T : ~ (y < j)
      BY <3>1, NatMin
    <3>3. j \in 1..Len(w.list) /\ j - 1 \in 0..Len(w.list) /\ j - 1 < j
      BY <2>3, <2>4, <3>1, <3>2
    <3>4. t[j - 1] = s[j - 1]
      BY <3>2, <3>3
    <3>5. QED BY <2>3, <2>4, <3>2, <3>3, <3>4
  <2>6. QED BY <2>1, <2>3, <2>4, <2>5
<1>4. QED BY <1>1, <1>3 DEF TimeLeft, OnLine, PlaceOf

\* And it does not change what the scan has still to look at.
LEMMA SameListUncharged ==
  ASSUME NEW w, NEW v, v.list = w.list, v.op = w.op
  PROVE  Uncharged(v) = Uncharged(w)
  BY DEF Uncharged, OnLine, PlaceOf

\* A node that is put on the line for so many ticks has so many left, and behaves to
\* the others as the scan and the order of times require.
THEOREM RequeueTimes ==
  ASSUME NEW w, LineOK(w), NEW n \in Nodes, ~ OnLine(w, n), NEW ticks \in Nat,
         NEW v, v = WakeupAdd(SetCounter(w, n, ticks), n)
  PROVE  /\ LineOK(v) /\ v.op = w.op
         /\ \A m : OnLine(v, m) <=> OnLine(w, m) \/ m = n
         /\ TimeLeft(v, n) = ticks
         /\ \A m : OnLine(w, m) => TimeLeft(v, m) = TimeLeft(w, m)
         /\ Uncharged(v) \ {n} = Uncharged(w)
         /\ \A m : OnLine(w, m) /\ PlaceOf(v, n) <= PlaceOf(v, m) => ticks < TimeLeft(v, m)
<1>1. PICK u : u = SetCounter(w, n, ticks)
  OBVIOUS
<1>2. /\ LineOK(u) /\ (\A m : OnLine(u, m) <=> OnLine(w, m)) /\ ~ OnLine(u, n)
  BY <1>1, SetCounterNodes
<1>3. u.list = w.list /\ u.op = w.op /\ u.counter[n] = ticks
  BY <1>1 DEF SetCounter, LineOK, LineType
<1>4. \A m : TimeLeft(u, m) = TimeLeft(w, m)
  BY <1>1, CounterOffLine
<1>5. Uncharged(u) = Uncharged(w)
  BY <1>3, SameListUncharged
<1>6. v = WakeupAdd(u, n)
  BY <1>1
<1>7. LineOK(v) /\ \A m : OnLine(v, m) <=> OnLine(u, m) \/ m = n
  BY <1>2, <1>6, WakeupAddNodes
<1>8. /\ TimeLeft(v, n) = u.counter[n]
      /\ \A m : OnLine(u, m) => TimeLeft(v, m) = TimeLeft(u, m)
  BY <1>2, <1>6, WakeupAddKeepsTimes
<1>9. v.op = u.op /\ Uncharged(v) \ {n} = Uncharged(u)
  BY <1>2, <1>6, AddUncharged
<1>10. ASSUME NEW m, OnLine(u, m), PlaceOf(v, n) <= PlaceOf(v, m)
       PROVE  u.counter[n] < TimeLeft(u, m)
  BY <1>2, <1>6, <1>10, AddInFront
<1>11. QED BY <1>2, <1>3, <1>4, <1>5, <1>7, <1>8, <1>9, <1>10

\* A timer that is cancelled keeps nobody waiting for longer; it keeps the times of
\* the others if it had no ticks in its counter or nobody is behind it.
LEMMA ZeroDelTimes ==
  ASSUME NEW w, LineOK(w), NEW n, OnLine(w, n), NEW v, v = WakeupDel(SetCounter(w, n, 0), n)
  PROVE  /\ LineOK(v)
         /\ \A m : OnLine(v, m) <=> OnLine(w, m) /\ m # n
         /\ Uncharged(v) = Uncharged(w) \ {n}
         /\ \A m : OnLine(w, m) /\ m # n =>
              /\ TimeLeft(v, m) <= TimeLeft(w, m)
              /\ w.counter[n] = 0 \/ NextOf(w, n) = NULL => TimeLeft(v, m) = TimeLeft(w, m)
<1>1. PICK u : u = SetCounter(w, n, 0)
  OBVIOUS
<1>2. LineOK(u) /\ \A m : OnLine(u, m) <=> OnLine(w, m)
  BY <1>1, SetCounterNodes
<1>3. u.list = w.list /\ u.op = w.op /\ u.counter = [w.counter EXCEPT ![n] = 0]
  BY <1>1 DEF SetCounter
<1>4. LineOK(v) /\ \A m : OnLine(v, m) <=> OnLine(u, m) /\ m # n
  BY <1>1, <1>2, WakeupDelNodes
<1>5. Uncharged(v) = Uncharged(w) \ {n}
  <2>1. Uncharged(v) = Uncharged(u) \ {n}
    BY <1>1, <1>2, DelUncharged
  <2>2. Uncharged(u) = Uncharged(w)
    BY <1>3, SameListUncharged
  <2>3. QED BY <2>1, <2>2
<1>6. ASSUME NEW m, OnLine(w, m), m # n
      PROVE  /\ TimeLeft(v, m) <= TimeLeft(w, m)
             /\ w.counter[n] = 0 \/ NextOf(w, n) = NULL => TimeLeft(v, m) = TimeLeft(w, m)
  <2>1. TimeLeft(v, m) = TimeLeft(u, m)
    BY <1>1, <1>2, <1>6, WakeupDelKeepsTimes
  <2>2. PICK k, i, c, l : /\ k = PlaceOf(w, n) /\ i = PlaceOf(w, m) /\ c = w.counter[n]
                          /\ l = TimeLeft(w, m)
    OBVIOUS
  <2>3. TimeLeft(u, m) = IF PlaceOf(w, n) <= PlaceOf(w, m)
                         THEN (TimeLeft(w, m) - w.counter[n]) + 0 ELSE TimeLeft(w, m)
    BY <1>2, <1>3, <1>6, CounterTimes DEF LineOK
  <2>4. /\ k \in 1..Len(w.list) /\ w.list[k] = n /\ Len(w.list) \in Nat
        /\ c \in Nat
    BY <2>2, TimeAt
  <2>5. i \in 1..Len(w.list) /\ w.list[i] = m /\ l \in Nat
    BY <1>6, <2>2, TimeAt
  <2>6. TimeLeft(v, m) = IF k <= i THEN (l - c) + 0 ELSE l
    BY <2>1, <2>2, <2>3
  <2>7. NextOf(w, n) = NULL => ~ (k <= i)
    <3>1. SUFFICES ASSUME k <= i PROVE NextOf(w, n) # NULL
      OBVIOUS
    <3>2. k < Len(w.list) /\ k + 1 \in 1..Len(w.list)
      BY <1>6, <2>4, <2>5, <3>1
    <3>3. NextOf(w, n) = w.list[k + 1]
      BY <2>2, <3>2 DEF NextOf
    <3>4. w.list[k + 1] \in Nodes
      BY <3>2 DEF LineOK, LineType
    <3>5. QED BY <3>3, <3>4, WakeupLineAssumption
  <2>8. QED BY <2>2, <2>4, <2>5, <2>6, <2>7
<1>7. QED BY <1>2, <1>4, <1>5, <1>6

\* The scan goes on to the next node.
LEMMA MoveOnUncharged ==
  ASSUME NEW w, LineOK(w), w.op # NULL, NEW v, v.list = w.list, v.op = NextOf(w, w.op)
  PROVE  Uncharged(v) = Uncharged(w) \ {w.op}
<1>1. PICK k, o, x : k = PlaceOf(w, w.op) /\ o = w.op /\ x = NextOf(w, w.op)
  OBVIOUS
<1>2. OnLine(w, o) /\ w.list \in Seq(Nodes)
  BY <1>1 DEF LineOK, LineType
<1>3. k \in 1..Len(w.list) /\ w.list[k] = o /\ Len(w.list) \in Nat /\ o \in Nodes
  BY <1>1, <1>2, TimeAt
<1>4. x = IF k < Len(w.list) THEN w.list[k + 1] ELSE NULL
  BY <1>1 DEF NextOf
<1>5. \A m : (OnLine(v, m) <=> OnLine(w, m)) /\ PlaceOf(v, m) = PlaceOf(w, m)
  BY DEF OnLine, PlaceOf
<1> SUFFICES ASSUME NEW m \in Nodes, OnLine(w, m), NEW j, j = PlaceOf(w, m)
             PROVE  m \in Uncharged(v) <=> m \in Uncharged(w) /\ m # w.op
  BY <1>5 DEF Uncharged
<1>6. j \in 1..Len(w.list) /\ w.list[j] = m
  BY TimeAt
<1>7. m \in Uncharged(w) /\ m # o <=> k < j
  <2>1. m \in Uncharged(w) <=> k <= j
    BY <1>1 DEF Uncharged
  <2>2. m = o <=> k = j
    BY <1>1, <1>3, <1>6
  <2>3. QED BY <1>3, <1>6, <2>1, <2>2
<1>8. CASE k < Len(w.list)
  <2>1. PICK i \in 1..Len(w.list) : i = k + 1
    <3>1. k + 1 \in 1..Len(w.list)
      BY <1>3, <1>8
    <3>2. QED BY <3>1
  <2>2. x = w.list[i] /\ x \in Nodes /\ x # NULL /\ PlaceOf(w, x) = i
    BY <1>2, <1>4, <1>8, <2>1, PlaceFound, WakeupLineAssumption
  <2>3. m \in Uncharged(v) <=> i <= j
    BY <1>1, <1>5, <2>2 DEF Uncharged
  <2>4. QED BY <1>1, <1>3, <1>6, <1>7, <2>1, <2>3
<1>9. CASE ~ (k < Len(w.list))
  <2>1. v.op = NULL /\ ~ (k < j)
    BY <1>1, <1>3, <1>4, <1>6, <1>9
  <2>2. QED BY <1>1, <1>7, <2>1 DEF Uncharged
<1>10. QED BY <1>8, <1>9

\* It charges the node it looks at, and so all that are behind it.
LEMMA ScanStepTimes ==
  ASSUME NEW w, LineOK(w), w.op # NULL, NEW ticks \in Nat,
         NEW v, v = [list    |-> w.list,
                     counter |-> [w.counter EXCEPT ![w.op] = ticks],
                     op      |-> NextOf(w, w.op)]
  PROVE  /\ LineOK(v)
         /\ \A m : OnLine(v, m) <=> OnLine(w, m)
         /\ Uncharged(v) = Uncharged(w) \ {w.op}
         /\ \A m \in Nodes : OnLine(w, m) =>
              TimeLeft(v, m) = IF m \in Uncharged(w)
                               THEN (TimeLeft(w, m) - w.counter[w.op]) + ticks
                               ELSE TimeLeft(w, m)
<1>1. LineOK(v) /\ \A m : OnLine(v, m) <=> OnLine(w, m)
  BY ScanStepNodes
<1>2. v.list = w.list /\ v.op = NextOf(w, w.op) /\ v.counter = [w.counter EXCEPT ![w.op] = ticks]
  OBVIOUS
<1>3. Uncharged(v) = Uncharged(w) \ {w.op}
  BY <1>2, MoveOnUncharged
<1>4. PICK o : o = w.op
  OBVIOUS
<1>5. OnLine(w, o) /\ v.counter = [w.counter EXCEPT ![o] = ticks]
  BY <1>2, <1>4 DEF LineOK
<1>6. ASSUME NEW m \in Nodes, OnLine(w, m)
      PROVE  TimeLeft(v, m) = IF m \in Uncharged(w)
                              THEN (TimeLeft(w, m) - w.counter[o]) + ticks
                              ELSE TimeLeft(w, m)
  <2>1. TimeLeft(v, m) = IF PlaceOf(w, o) <= PlaceOf(w, m)
                         THEN (TimeLeft(w, m) - w.counter[o]) + ticks ELSE TimeLeft(w, m)
    BY <1>1, <1>2, <1>5, <1>6, CounterTimes DEF LineOK
  <2>2. m \in Uncharged(w) <=> PlaceOf(w, o) <= PlaceOf(w, m)
    BY <1>4, <1>6 DEF Uncharged
  <2>3. QED BY <2>1, <2>2
<1>7. QED BY <1>1, <1>3, <1>4, <1>6

\* A scan that stops has charged what was left of it to every node that it has not
\* come to.
LEMMA StopAtTimes ==
  ASSUME NEW w, LineOK(w), NEW left \in Nat, ScanStops(w, left), NEW v, v = StopAt(w, left)
  PROVE  /\ LineOK(v)
         /\ \A m : OnLine(v, m) <=> OnLine(w, m)
         /\ \A m \in Nodes : OnLine(w, m) =>
              TimeLeft(v, m) = IF m \in Uncharged(w) THEN TimeLeft(w, m) - left
                               ELSE TimeLeft(w, m)
<1>1. PICK c : c = w.counter[w.op] - left
  OBVIOUS
<1>2. w.op \in Nodes /\ w.counter \in [Nodes -> Nat] /\ w.op # NULL /\ w.counter[w.op] > left
  BY DEF LineOK, LineType, ScanStops
<1>3. c \in Nat
  BY <1>1, <1>2
<1>4. v = [list    |-> w.list,
           counter |-> [w.counter EXCEPT ![w.op] = c],
           op      |-> NextOf(w, w.op)]
  BY <1>1 DEF StopAt
<1>5. /\ LineOK(v)
      /\ \A m : OnLine(v, m) <=> OnLine(w, m)
      /\ \A m \in Nodes : OnLine(w, m) =>
           TimeLeft(v, m) = IF m \in Uncharged(w)
                            THEN (TimeLeft(w, m) - w.counter[w.op]) + c
                            ELSE TimeLeft(w, m)
  BY <1>2, <1>3, <1>4, ScanStepTimes
<1>6. ASSUME NEW m \in Nodes, OnLine(w, m)
      PROVE  TimeLeft(v, m) = IF m \in Uncharged(w) THEN TimeLeft(w, m) - left
                              ELSE TimeLeft(w, m)
  <2>1. PICK l, d : l = TimeLeft(w, m) /\ d = w.counter[w.op]
    OBVIOUS
  <2>2. l \in Nat /\ d \in Nat
    BY <1>2, <1>6, <2>1, TimeAt
  <2>3. (l - d) + c = l - left
    BY <1>1, <1>2, <2>1, <2>2
  <2>4. QED BY <1>5, <1>6, <2>1, <2>3
<1>7. QED BY <1>5, <1>6

\* A node that has expired takes its ticks from all behind it, and leaves.
LEMMA ExpireDelTimes ==
  ASSUME NEW w, LineOK(w), NEW n, n = w.op, n # NULL, NEW v, v = WakeupDel(ExpireAt(w), n)
  PROVE  /\ LineOK(v)
         /\ \A m : OnLine(v, m) <=> OnLine(w, m) /\ m # n
         /\ Uncharged(v) = Uncharged(w) \ {n}
         /\ \A m \in Nodes : OnLine(w, m) /\ m # n =>
              TimeLeft(v, m) = IF m \in Uncharged(w) THEN TimeLeft(w, m) - w.counter[n]
                               ELSE TimeLeft(w, m)
<1>1. PICK u : u = ExpireAt(w)
  OBVIOUS
<1>2. /\ LineOK(u)
      /\ \A m : OnLine(u, m) <=> OnLine(w, m)
      /\ Uncharged(u) = Uncharged(w) \ {n}
      /\ \A m \in Nodes : OnLine(w, m) =>
           TimeLeft(u, m) = IF m \in Uncharged(w)
                            THEN (TimeLeft(w, m) - w.counter[n]) + 0
                            ELSE TimeLeft(w, m)
  <2>1. u = [list |-> w.list, counter |-> [w.counter EXCEPT ![w.op] = 0], op |-> NextOf(w, w.op)]
    BY <1>1 DEF ExpireAt
  <2>2. QED BY <2>1, ScanStepTimes
<1>3. OnLine(u, n)
  BY <1>2 DEF LineOK
<1>4. LineOK(v) /\ \A m : OnLine(v, m) <=> OnLine(u, m) /\ m # n
  BY <1>1, <1>2, <1>3, WakeupDelNodes
<1>5. Uncharged(v) = Uncharged(u) \ {n}
  BY <1>1, <1>2, <1>3, DelUncharged
<1>6. ASSUME NEW m \in Nodes, OnLine(w, m), m # n
      PROVE  TimeLeft(v, m) = IF m \in Uncharged(w) THEN TimeLeft(w, m) - w.counter[n]
                              ELSE TimeLeft(w, m)
  <2>1. TimeLeft(v, m) = TimeLeft(u, m)
    BY <1>1, <1>2, <1>3, <1>6, WakeupDelKeepsTimes
  <2>2. TimeLeft(w, m) \in Nat /\ w.counter[n] \in Nat
    <3>1. OnLine(w, n)
      BY DEF LineOK
    <3>2. QED BY <1>6, <3>1, TimeAt
  <2>3. QED BY <1>2, <1>6, <2>1, <2>2
<1>7. QED BY <1>2, <1>4, <1>5, <1>6

\* A scan has all nodes still to look at when it starts.
LEMMA ScanStartTimes ==
  ASSUME NEW w, LineOK(w), NEW v, v = ScanStart(w)
  PROVE  /\ LineOK(v)
         /\ \A m : OnLine(v, m) <=> OnLine(w, m)
         /\ \A m : TimeLeft(v, m) = TimeLeft(w, m)
         /\ \A m \in Nodes : OnLine(w, m) => m \in Uncharged(v)
<1>1. LineOK(v) /\ \A m : OnLine(v, m) <=> OnLine(w, m)
  BY ScanStartNodes
<1>2. v.list = w.list /\ v.counter = w.counter /\ v.op = First(w)
  BY DEF ScanStart
<1>3. \A m : TimeLeft(v, m) = TimeLeft(w, m)
  BY <1>2 DEF TimeLeft, Sums, OnLine, PlaceOf
<1>4. First(v) = v.op
  BY <1>2 DEF First
<1>5. ASSUME NEW m \in Nodes, OnLine(v, m) PROVE v.op # NULL
  <2>1. v.list \in Seq(Nodes) /\ v.list # << >>
    BY <1>1, <1>5 DEF OnLine, LineOK, LineType
  <2>2. v.list[1] \in Nodes
    BY <2>1
  <2>3. QED BY <1>4, <2>1, <2>2, WakeupLineAssumption DEF First
<1>6. \A m \in Nodes : OnLine(v, m) => m \in Uncharged(v)
  BY <1>1, <1>4, <1>5, FirstIsOp
<1>7. QED BY <1>1, <1>3, <1>6
=============================================================================
