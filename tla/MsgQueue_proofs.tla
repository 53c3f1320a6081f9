--------------------------- MODULE MsgQueue_proofs ---------------------------
(***************************************************************************)
(* Proofs about the message queue: types, the ring of slots, that no       *)
(* message lies in the ring while a thread waits for one, that the receive *)
(* buffers are valid, and that the queue implements its channel.           *)
(***************************************************************************)
EXTENDS MsgQueue, EventWait_proofs

-----------------------------------------------------------------------------
(* Arithmetic of the ring.                                                 *)

\* The slot of the i-th message from the output pointer o on.
Place(o, i) == (o + i) % MaxCounter

LEMMA ModWrap ==
  ASSUME NEW n \in Nat \ {0}, NEW a \in Nat, a < n + n
  PROVE  a % n = IF a < n THEN a ELSE a - n
  BY SMTT(30)

LEMMA PlaceIs ==
  ASSUME NEW o \in Slot, NEW i \in 0..MaxCounter
  PROVE  /\ Place(o, i) \in Slot
         /\ Place(o, i) = IF o + i < MaxCounter THEN o + i ELSE o + i - MaxCounter
<1>1. /\ MaxCounter \in Nat \ {0} /\ o \in Nat /\ i \in Nat /\ o < MaxCounter /\ i <= MaxCounter
  BY MsgQueueAssumption DEF Slot
<1> DEFINE a == o + i
           n == MaxCounter
<1>2. a \in Nat /\ n \in Nat \ {0} /\ a < n + n
  BY <1>1
<1>3. Place(o, i) = a % n
  BY DEF Place
<1> HIDE DEF a, n
<1>4. a % n = IF a < n THEN a ELSE a - n
  BY <1>2, ModWrap
<1>5. QED BY <1>1, <1>3, <1>4 DEF a, n, Slot

LEMMA AfterIs ==
  ASSUME NEW i \in Slot
  PROVE  /\ After(i) \in Slot
         /\ After(i) = IF i + 1 < MaxCounter THEN i + 1 ELSE 0
<1>1. 1 \in 0..MaxCounter /\ MaxCounter \in Nat \ {0}
  BY MsgQueueAssumption
<1>2. After(i) = Place(i, 1)
  BY DEF After, Place
<1>3. /\ Place(i, 1) \in Slot
      /\ Place(i, 1) = IF i + 1 < MaxCounter THEN i + 1 ELSE i + 1 - MaxCounter
  BY <1>1, PlaceIs
<1>4. i \in Nat /\ i < MaxCounter
  BY <1>1 DEF Slot
<1>5. QED BY <1>1, <1>2, <1>3, <1>4

LEMMA BeforeIs ==
  ASSUME NEW o \in Slot
  PROVE  Before(o) \in Slot /\ After(Before(o)) = o
<1>1. Before(o) \in Slot
  BY MsgQueueAssumption DEF Before, Slot
<1>2. After(Before(o)) = IF Before(o) + 1 < MaxCounter THEN Before(o) + 1 ELSE 0
  BY <1>1, AfterIs
<1>3. QED BY <1>1, <1>2, MsgQueueAssumption DEF Before, Slot

\* A step of the output pointer shifts all the places by one.
LEMMA PlaceShifts ==
  ASSUME NEW o \in Slot, NEW i \in 0..(MaxCounter - 1)
  PROVE  /\ Place(After(o), i) = Place(o, i + 1)
         /\ After(Place(o, i)) = Place(o, i + 1)
<1>1. MaxCounter \in Nat \ {0} /\ i \in 0..MaxCounter /\ i + 1 \in 0..MaxCounter
  BY MsgQueueAssumption
<1>2. After(o) \in Slot /\ Place(o, i) \in Slot
  BY <1>1, AfterIs, PlaceIs
<1>3. Place(o, i + 1) = IF o + (i + 1) < MaxCounter THEN o + (i + 1) ELSE o + (i + 1) - MaxCounter
  BY <1>1, PlaceIs
<1>4. Place(After(o), i) = IF After(o) + i < MaxCounter THEN After(o) + i
                           ELSE After(o) + i - MaxCounter
  BY <1>1, <1>2, PlaceIs
<1>5. After(o) = IF o + 1 < MaxCounter THEN o + 1 ELSE 0
  BY AfterIs
<1>6. Place(o, i) = IF o + i < MaxCounter THEN o + i ELSE o + i - MaxCounter
  BY <1>1, PlaceIs
<1>7. After(Place(o, i)) = IF Place(o, i) + 1 < MaxCounter THEN Place(o, i) + 1 ELSE 0
  BY <1>2, AfterIs
<1>8. o \in Nat /\ o < MaxCounter
  BY <1>1 DEF Slot
<1>9. Place(After(o), i) = Place(o, i + 1)
  BY <1>1, <1>3, <1>4, <1>5, <1>8
<1>10. After(Place(o, i)) = Place(o, i + 1)
  BY <1>1, <1>3, <1>6, <1>7, <1>8
<1>11. QED BY <1>9, <1>10

LEMMA PlacesDiffer ==
  ASSUME NEW o \in Slot, NEW i \in 0..(MaxCounter - 1), NEW j \in 0..(MaxCounter - 1), i # j
  PROVE  Place(o, i) # Place(o, j)
<1>1. MaxCounter \in Nat \ {0} /\ i \in 0..MaxCounter /\ j \in 0..MaxCounter
  BY MsgQueueAssumption
<1>2. Place(o, i) = IF o + i < MaxCounter THEN o + i ELSE o + i - MaxCounter
  BY <1>1, PlaceIs
<1>3. Place(o, j) = IF o + j < MaxCounter THEN o + j ELSE o + j - MaxCounter
  BY <1>1, PlaceIs
<1>4. o \in Nat /\ o < MaxCounter
  BY <1>1 DEF Slot
<1>5. QED BY <1>1, <1>2, <1>3, <1>4

-----------------------------------------------------------------------------
(* Messages in a ring s: c of them from the slot o on.                     *)

Filled(s, o, c) == \A i \in 0..(c - 1) : s[Place(o, i)] \in Messages

\* These messages in their order.
Contents(s, o, c) == [i \in 1..c |-> s[(o + i - 1) % MaxCounter]]

Ring == [Slot -> Messages \cup {NULL}]

Written(s, i, x) == [s EXCEPT ![i] = x]

LEMMA ContentsAre ==
  ASSUME NEW s, NEW o \in Slot, NEW c \in Nat, Filled(s, o, c)
  PROVE  /\ Contents(s, o, c) \in Seq(Messages)
         /\ Len(Contents(s, o, c)) = c
         /\ \A i \in 1..c : Contents(s, o, c)[i] = s[Place(o, i - 1)]
<1>1. \A i \in 1..c : i - 1 \in 0..(c - 1) /\ o + i - 1 = o + (i - 1)
  BY MsgQueueAssumption DEF Slot
<1>2. \A i \in 1..c : Contents(s, o, c)[i] = s[Place(o, i - 1)]
  BY <1>1 DEF Contents, Place
<1>3. \A i \in 1..c : Contents(s, o, c)[i] \in Messages
  BY <1>1, <1>2 DEF Filled
<1>4. Contents(s, o, c) \in [1..c -> Messages]
  BY <1>3 DEF Contents
<1>5. QED BY <1>2, <1>4

LEMMA EqualSeqs ==
  ASSUME NEW S, NEW p \in Seq(S), NEW q \in Seq(S), Len(p) = Len(q),
         \A i \in 1..Len(p) : p[i] = q[i]
  PROVE  p = q
  OBVIOUS

\* _MsgQueueSendMsg: a message is written behind the others.
LEMMA PutLast ==
  ASSUME NEW s \in Ring, NEW o \in Slot, NEW c \in 0..MaxCounter, NEW i \in Slot,
         Filled(s, o, c), i = Place(o, c), c < MaxCounter,
         NEW m \in Messages, NEW r, r = Written(s, i, m), NEW d, d = c + 1
  PROVE  /\ r \in Ring /\ Filled(r, o, d)
         /\ After(i) \in Slot /\ After(i) = Place(o, d)
         /\ Contents(r, o, d) = Append(Contents(s, o, c), m)
<1>1. /\ MaxCounter \in Nat \ {0} /\ c \in Nat /\ c \in 0..(MaxCounter - 1)
      /\ d \in Nat /\ 0..(c - 1) \subseteq 0..(MaxCounter - 1)
  BY MsgQueueAssumption
<1>2. r \in Ring /\ r[i] = m /\ \A k \in Slot : k # i => r[k] = s[k]
  BY DEF Ring, Written
<1>3. ASSUME NEW j \in 0..(c - 1) PROVE r[Place(o, j)] = s[Place(o, j)]
  <2>1. j \in 0..(MaxCounter - 1) /\ j # c /\ j \in 0..MaxCounter
    BY <1>1
  <2>2. Place(o, j) \in Slot
    BY <2>1, PlaceIs
  <2>3. Place(o, j) # i
    BY <1>1, <2>1, PlacesDiffer
  <2>4. QED BY <1>2, <2>2, <2>3
<1>4. r[Place(o, c)] = m
  BY <1>2
<1>5. Filled(r, o, d)
  <2> SUFFICES ASSUME NEW j \in 0..(d - 1) PROVE r[Place(o, j)] \in Messages
    BY DEF Filled
  <2>1. j \in 0..(c - 1) \/ j = c
    BY <1>1
  <2>2. QED BY <1>3, <1>4, <2>1 DEF Filled
<1>6. After(i) \in Slot /\ After(i) = Place(o, d)
  BY <1>1, AfterIs, PlaceShifts
<1> DEFINE p == Contents(r, o, d)
           q == Contents(s, o, c)
<1>7. /\ p \in Seq(Messages) /\ Len(p) = d /\ \A j \in 1..d : p[j] = r[Place(o, j - 1)]
      /\ q \in Seq(Messages) /\ Len(q) = c /\ \A j \in 1..c : q[j] = s[Place(o, j - 1)]
  <2>1. p \in Seq(Messages)
    BY <1>1, <1>5, ContentsAre
  <2>2. Len(p) = d
    BY <1>1, <1>5, ContentsAre
  <2>3. \A j \in 1..d : p[j] = r[Place(o, j - 1)]
    BY <1>1, <1>5, ContentsAre
  <2>4. q \in Seq(Messages) /\ Len(q) = c /\ \A j \in 1..c : q[j] = s[Place(o, j - 1)]
    BY <1>1, ContentsAre
  <2>5. QED BY <2>1, <2>2, <2>3, <2>4
<1> HIDE DEF p, q
<1>8. Append(q, m) \in Seq(Messages) /\ Len(Append(q, m)) = d
  BY <1>1, <1>7
<1>9. ASSUME NEW j \in 1..d PROVE p[j] = Append(q, m)[j]
  <2>1. j \in 1..c \/ j = d
    BY <1>1
  <2>2. CASE j \in 1..c
    <3>1. j - 1 \in 0..(c - 1) /\ j \in 1..d
      BY <1>1, <2>2
    <3>2. p[j] = q[j]
      BY <1>3, <1>7, <2>2, <3>1
    <3>3. QED BY <1>7, <2>2, <3>2
  <2>3. CASE j = d
    <3>1. j - 1 = c
      BY <1>1, <2>3
    <3>2. p[j] = m
      BY <1>4, <1>7, <3>1
    <3>3. QED BY <1>1, <1>7, <2>3, <3>2
  <2>4. QED BY <2>1, <2>2, <2>3
<1>10. p = Append(q, m)
  BY <1>7, <1>8, <1>9, EqualSeqs
<1>11. QED BY <1>2, <1>5, <1>6, <1>10 DEF p, q

\* _MsgQueueSendMsgUrgent: the output pointer moves back, to the message.
LEMMA PutFirst ==
  ASSUME NEW s \in Ring, NEW o \in Slot, NEW c \in 0..MaxCounter, NEW i \in Slot,
         Filled(s, o, c), i = Place(o, c), c < MaxCounter,
         NEW m \in Messages, NEW b, b = Before(o), NEW r, r = Written(s, b, m),
         NEW d, d = c + 1
  PROVE  /\ r \in Ring /\ Filled(r, b, d)
         /\ b \in Slot /\ i = Place(b, d)
         /\ Contents(r, b, d) = Cons(m, Contents(s, o, c))
<1>1. /\ MaxCounter \in Nat \ {0} /\ c \in Nat /\ c \in 0..(MaxCounter - 1)
      /\ d \in Nat /\ d \in 1..MaxCounter /\ 0 \in 0..MaxCounter /\ 0 \in 0..(MaxCounter - 1)
  BY MsgQueueAssumption
<1>2. b \in Slot /\ After(b) = o
  BY BeforeIs
<1>3. r \in Ring /\ r[b] = m /\ \A k \in Slot : k # b => r[k] = s[k]
  BY <1>2 DEF Ring, Written
<1>4. Place(b, 0) = b
  <2>1. Place(b, 0) = IF b + 0 < MaxCounter THEN b + 0 ELSE b + 0 - MaxCounter
    BY <1>1, <1>2, PlaceIs
  <2>2. b \in Nat /\ b < MaxCounter
    BY <1>1, <1>2 DEF Slot
  <2>3. QED BY <2>1, <2>2
<1>5. ASSUME NEW j \in 0..(MaxCounter - 1) PROVE Place(o, j) = Place(b, j + 1)
  BY <1>2, PlaceShifts
<1>6. ASSUME NEW j \in 1..c
      PROVE  r[Place(b, j)] = s[Place(o, j - 1)] /\ s[Place(o, j - 1)] \in Messages
  <2> DEFINE h == j - 1
  <2>1. /\ h \in 0..(MaxCounter - 1) /\ h \in 0..(c - 1) /\ h + 1 = j /\ j \in 0..MaxCounter
        /\ j \in 0..(MaxCounter - 1) /\ j # 0
    BY <1>1
  <2> HIDE DEF h
  <2>2. Place(o, h) = Place(b, j)
    BY <1>5, <2>1
  <2>3. Place(b, j) \in Slot /\ Place(b, j) # Place(b, 0)
    BY <1>1, <1>2, <2>1, PlaceIs, PlacesDiffer
  <2>4. r[Place(b, j)] = s[Place(o, h)]
    BY <1>3, <1>4, <2>2, <2>3
  <2>5. s[Place(o, h)] \in Messages
    BY <2>1 DEF Filled
  <2>6. QED BY <2>4, <2>5 DEF h
<1>7. Filled(r, b, d)
  <2> SUFFICES ASSUME NEW j \in 0..(d - 1) PROVE r[Place(b, j)] \in Messages
    BY DEF Filled
  <2>1. j \in 1..c \/ j = 0
    BY <1>1
  <2>2. QED BY <1>3, <1>4, <1>6, <2>1
<1>8. i = Place(b, d)
  BY <1>1, <1>5
<1> DEFINE p == Contents(r, b, d)
           q == Contents(s, o, c)
<1>9. /\ p \in Seq(Messages) /\ Len(p) = d /\ \A j \in 1..d : p[j] = r[Place(b, j - 1)]
      /\ q \in Seq(Messages) /\ Len(q) = c /\ \A j \in 1..c : q[j] = s[Place(o, j - 1)]
  <2>1. p \in Seq(Messages)
    BY <1>1, <1>2, <1>7, ContentsAre
  <2>2. Len(p) = d
    BY <1>1, <1>2, <1>7, ContentsAre
  <2>3. \A j \in 1..d : p[j] = r[Place(b, j - 1)]
    BY <1>1, <1>2, <1>7, ContentsAre
  <2>4. q \in Seq(Messages) /\ Len(q) = c /\ \A j \in 1..c : q[j] = s[Place(o, j - 1)]
    BY <1>1, ContentsAre
  <2>5. QED BY <2>1, <2>2, <2>3, <2>4
<1> HIDE DEF p, q
<1>10. Cons(m, q) \in Seq(Messages) /\ Len(Cons(m, q)) = d
  BY <1>1, <1>9 DEF Cons
<1>11. ASSUME NEW j \in 1..d PROVE p[j] = Cons(m, q)[j]
  <2>1. j = 1 \/ j - 1 \in 1..c
    BY <1>1
  <2>2. CASE j = 1
    <3>1. p[j] = m
      BY <1>3, <1>4, <1>9, <2>2
    <3>2. QED BY <1>9, <2>2, <3>1 DEF Cons
  <2>3. CASE j - 1 \in 1..c
    <3> DEFINE h == j - 1
    <3>1. h \in 1..c /\ j = h + 1 /\ h = j - 1
      BY <1>1, <2>3
    <3> HIDE DEF h
    <3>2. p[j] = r[Place(b, h)] /\ q[h] = s[Place(o, h - 1)]
      BY <1>9, <3>1
    <3>3. p[j] = q[h]
      BY <1>6, <3>1, <3>2
    <3>4. Cons(m, q)[j] = q[h]
      BY <1>1, <1>9, <3>1 DEF Cons
    <3>5. QED BY <3>3, <3>4
  <2>4. QED BY <2>1, <2>2, <2>3
<1>12. p = Cons(m, q)
  BY <1>9, <1>10, <1>11, EqualSeqs
<1>13. QED BY <1>2, <1>3, <1>7, <1>8, <1>12 DEF p, q

LEMMA FirstIs ==
  ASSUME NEW s \in Ring, NEW o \in Slot, NEW c \in 0..MaxCounter, Filled(s, o, c), c > 0
  PROVE  /\ s[o] \in Messages /\ Contents(s, o, c) # << >>
         /\ Head(Contents(s, o, c)) = s[o]
<1>1. MaxCounter \in Nat \ {0} /\ c \in Nat /\ 0 \in 0..MaxCounter /\ 0 \in 0..(c - 1)
  BY MsgQueueAssumption
<1>2. Place(o, 0) = o
  <2>1. Place(o, 0) = IF o + 0 < MaxCounter THEN o + 0 ELSE o + 0 - MaxCounter
    BY <1>1, PlaceIs
  <2>2. o \in Nat /\ o < MaxCounter
    BY <1>1 DEF Slot
  <2>3. QED BY <2>1, <2>2
<1>3. s[o] \in Messages
  BY <1>1, <1>2 DEF Filled
<1>4. /\ Contents(s, o, c) \in Seq(Messages) /\ Len(Contents(s, o, c)) = c
      /\ Contents(s, o, c)[1] = s[Place(o, 1 - 1)]
  BY <1>1, ContentsAre
<1>5. Contents(s, o, c) # << >> /\ Head(Contents(s, o, c)) = s[Place(o, 0)]
  BY <1>4
<1>6. QED BY <1>2, <1>3, <1>5

\* _MsgQueueGetMsg: the first message goes, and the output pointer moves on.
LEMMA TakeFirst ==
  ASSUME NEW s \in Ring, NEW o \in Slot, NEW c \in 0..MaxCounter, NEW i \in Slot,
         Filled(s, o, c), i = Place(o, c), c > 0,
         NEW a, a = After(o), NEW r, r = Written(s, o, NULL), NEW d, d = c - 1
  PROVE  /\ r \in Ring /\ Filled(r, a, d)
         /\ a \in Slot /\ i = Place(a, d)
         /\ Contents(r, a, d) = Tail(Contents(s, o, c))
<1>1. /\ MaxCounter \in Nat \ {0} /\ c \in Nat /\ c = d + 1 /\ d \in Nat
      /\ d \in 0..(MaxCounter - 1) /\ 0 \in 0..MaxCounter /\ 0 \in 0..(MaxCounter - 1)
  BY MsgQueueAssumption
<1>2. a \in Slot /\ i = Place(a, d)
  BY <1>1, AfterIs, PlaceShifts
<1>3. r \in Ring /\ \A k \in Slot : k # o => r[k] = s[k]
  BY DEF Ring, Written
<1>4. Place(o, 0) = o
  <2>1. Place(o, 0) = IF o + 0 < MaxCounter THEN o + 0 ELSE o + 0 - MaxCounter
    BY <1>1, PlaceIs
  <2>2. o \in Nat /\ o < MaxCounter
    BY <1>1 DEF Slot
  <2>3. QED BY <2>1, <2>2
<1>5. ASSUME NEW j \in 0..(d - 1)
      PROVE  r[Place(a, j)] = s[Place(o, j + 1)] /\ s[Place(o, j + 1)] \in Messages
  <2> DEFINE h == j + 1
  <2>1. /\ j \in 0..(MaxCounter - 1) /\ h \in 0..(MaxCounter - 1) /\ h \in 0..(c - 1) /\ h # 0
        /\ h \in 0..MaxCounter /\ h = j + 1
    BY <1>1
  <2> HIDE DEF h
  <2>2. Place(a, j) = Place(o, h)
    BY <2>1, PlaceShifts
  <2>3. Place(o, h) \in Slot /\ Place(o, h) # Place(o, 0)
    BY <1>1, <2>1, PlaceIs, PlacesDiffer
  <2>4. r[Place(a, j)] = s[Place(o, h)]
    BY <1>3, <1>4, <2>2, <2>3
  <2>5. s[Place(o, h)] \in Messages
    BY <2>1 DEF Filled
  <2>6. QED BY <2>1, <2>4, <2>5
<1>6. Filled(r, a, d)
  BY <1>5 DEF Filled
<1> DEFINE p == Contents(r, a, d)
           q == Contents(s, o, c)
<1>7. /\ p \in Seq(Messages) /\ Len(p) = d /\ \A j \in 1..d : p[j] = r[Place(a, j - 1)]
      /\ q \in Seq(Messages) /\ Len(q) = c /\ \A j \in 1..c : q[j] = s[Place(o, j - 1)]
  <2>1. p \in Seq(Messages)
    BY <1>1, <1>2, <1>6, ContentsAre
  <2>2. Len(p) = d
    BY <1>1, <1>2, <1>6, ContentsAre
  <2>3. \A j \in 1..d : p[j] = r[Place(a, j - 1)]
    BY <1>1, <1>2, <1>6, ContentsAre
  <2>4. q \in Seq(Messages) /\ Len(q) = c /\ \A j \in 1..c : q[j] = s[Place(o, j - 1)]
    BY <1>1, ContentsAre
  <2>5. QED BY <2>1, <2>2, <2>3, <2>4
<1> HIDE DEF p, q
<1>8. q # << >> /\ Tail(q) \in Seq(Messages) /\ Len(Tail(q)) = d
  BY <1>1, <1>7
<1>9. ASSUME NEW j \in 1..d PROVE p[j] = Tail(q)[j]
  <2> DEFINE g == j - 1
             h == j + 1
  <2>1. g \in 0..(d - 1) /\ h \in 1..c /\ g = j - 1 /\ h = j + 1 /\ h - 1 = g + 1
    BY <1>1
  <2> HIDE DEF g, h
  <2>2. p[j] = r[Place(a, g)] /\ q[h] = s[Place(o, h - 1)]
    BY <1>7, <2>1
  <2>3. p[j] = q[h]
    BY <1>5, <2>1, <2>2
  <2>4. Tail(q)[j] = q[h]
    BY <1>1, <1>7, <1>8, <2>1
  <2>5. QED BY <2>3, <2>4
<1>10. p = Tail(q)
  BY <1>7, <1>8, <1>9, EqualSeqs
<1>11. QED BY <1>2, <1>3, <1>6, <1>10 DEF p, q

-----------------------------------------------------------------------------
(* The ring of a queue.                                                    *)

QueueTypeOK ==
  /\ type      \in [Events -> {"MSGQUEUE", "UNUSED"}]
  /\ counter   \in [Events -> 0..MaxCounter]
  /\ slots     \in [Events -> Ring]
  /\ inputPtr  \in [Events -> Slot]
  /\ outputPtr \in [Events -> Slot]

\* The messages of a queue lie in a row from the output pointer on, and the input
\* pointer is behind them.
RingOK(e) ==
  /\ inputPtr[e] = Place(outputPtr[e], counter[e])
  /\ Filled(slots[e], outputPtr[e], counter[e])

RingsOK == \A e \in Events : RingOK(e)

Kept(e) == Contents(slots[e], outputPtr[e], counter[e])

LEMMA RingOf ==
  ASSUME QueueTypeOK, RingsOK, NEW e \in Events
  PROVE  /\ slots[e] \in Ring /\ outputPtr[e] \in Slot /\ counter[e] \in 0..MaxCounter
         /\ inputPtr[e] \in Slot /\ counter[e] \in Nat
         /\ Filled(slots[e], outputPtr[e], counter[e])
         /\ inputPtr[e] = Place(outputPtr[e], counter[e])
  BY MsgQueueAssumption DEF QueueTypeOK, RingsOK, RingOK

LEMMA RingBecomes ==
  ASSUME QueueTypeOK, RingsOK, NEW e \in Events,
         NEW s \in Ring, NEW o \in Slot, NEW c \in 0..MaxCounter, NEW i \in Slot,
         Filled(s, o, c), i = Place(o, c),
         slots' = [slots EXCEPT ![e] = s], outputPtr' = [outputPtr EXCEPT ![e] = o],
         counter' = [counter EXCEPT ![e] = c], inputPtr' = [inputPtr EXCEPT ![e] = i],
         UNCHANGED type
  PROVE  /\ QueueTypeOK' /\ RingsOK'
         /\ Kept(e)' = Contents(s, o, c)
         /\ \A f \in Events \ {e} : Kept(f)' = Kept(f)
<1>1. QueueTypeOK'
  BY DEF QueueTypeOK
<1>2. slots'[e] = s /\ outputPtr'[e] = o /\ counter'[e] = c /\ inputPtr'[e] = i
  BY DEF QueueTypeOK
<1>3. \A f \in Events \ {e} : /\ slots'[f] = slots[f] /\ outputPtr'[f] = outputPtr[f]
                              /\ counter'[f] = counter[f] /\ inputPtr'[f] = inputPtr[f]
  BY DEF QueueTypeOK
<1>4. ASSUME NEW f \in Events PROVE RingOK(f)'
  <2>1. CASE f = e
    BY <1>2, <2>1 DEF RingOK
  <2>2. CASE f # e
    BY <1>3, <2>2 DEF RingOK, RingsOK
  <2>3. QED BY <2>1, <2>2
<1>5. QED BY <1>1, <1>2, <1>3, <1>4 DEF RingsOK, Kept

LEMMA SendMsgRing ==
  ASSUME QueueTypeOK, RingsOK, NEW e \in Events, NEW m \in Messages,
         counter[e] < MaxCounter, SendMsg(e, m)
  PROVE  /\ QueueTypeOK' /\ RingsOK'
         /\ Kept(e)' = Append(Kept(e), m)
         /\ \A f \in Events \ {e} : Kept(f)' = Kept(f)
<1> DEFINE s == slots[e]
           o == outputPtr[e]
           c == counter[e]
           i == inputPtr[e]
           r == Written(slots[e], inputPtr[e], m)
           d == c + 1
<1>1. /\ s \in Ring /\ o \in Slot /\ c \in 0..MaxCounter /\ i \in Slot
      /\ Filled(s, o, c) /\ i = Place(o, c) /\ c < MaxCounter /\ c \in Nat
  BY RingOf
<1>2. /\ slots' = [slots EXCEPT ![e] = r] /\ outputPtr' = [outputPtr EXCEPT ![e] = o]
      /\ counter' = [counter EXCEPT ![e] = d] /\ inputPtr' = [inputPtr EXCEPT ![e] = After(i)]
      /\ UNCHANGED type
  BY DEF SendMsg, QueueTypeOK, Written
<1>3. r = Written(s, i, m) /\ Kept(e) = Contents(s, o, c) /\ d = c + 1
  BY DEF Kept
<1>4. d \in 0..MaxCounter
  BY <1>1, <1>3, MsgQueueAssumption
<1> HIDE DEF s, o, c, i, r, d
<1>5. /\ r \in Ring /\ Filled(r, o, d)
      /\ After(i) \in Slot /\ After(i) = Place(o, d)
      /\ Contents(r, o, d) = Append(Contents(s, o, c), m)
  BY <1>1, <1>3, PutLast
<1>6. /\ QueueTypeOK' /\ RingsOK' /\ Kept(e)' = Contents(r, o, d)
      /\ \A f \in Events \ {e} : Kept(f)' = Kept(f)
  BY <1>1, <1>2, <1>4, <1>5, RingBecomes
<1>7. QED BY <1>3, <1>5, <1>6

LEMMA SendMsgUrgentRing ==
  ASSUME QueueTypeOK, RingsOK, NEW e \in Events, NEW m \in Messages,
         counter[e] < MaxCounter, SendMsgUrgent(e, m)
  PROVE  /\ QueueTypeOK' /\ RingsOK'
         /\ Kept(e)' = Cons(m, Kept(e))
         /\ \A f \in Events \ {e} : Kept(f)' = Kept(f)
<1> DEFINE s == slots[e]
           o == outputPtr[e]
           c == counter[e]
           i == inputPtr[e]
           b == Before(outputPtr[e])
           r == Written(slots[e], Before(outputPtr[e]), m)
           d == c + 1
<1>1. /\ s \in Ring /\ o \in Slot /\ c \in 0..MaxCounter /\ i \in Slot
      /\ Filled(s, o, c) /\ i = Place(o, c) /\ c < MaxCounter /\ c \in Nat
  BY RingOf
<1>2. /\ slots' = [slots EXCEPT ![e] = r] /\ outputPtr' = [outputPtr EXCEPT ![e] = b]
      /\ counter' = [counter EXCEPT ![e] = d] /\ inputPtr' = [inputPtr EXCEPT ![e] = i]
      /\ UNCHANGED type
  BY DEF SendMsgUrgent, QueueTypeOK, Written
<1>3. /\ b = Before(o) /\ r = Written(s, b, m)
      /\ Kept(e) = Contents(s, o, c) /\ d = c + 1
  BY DEF Kept
<1>4. d \in 0..MaxCounter
  BY <1>1, <1>3, MsgQueueAssumption
<1> HIDE DEF s, o, c, i, b, r, d
<1>5. /\ r \in Ring /\ Filled(r, b, d)
      /\ b \in Slot /\ i = Place(b, d)
      /\ Contents(r, b, d) = Cons(m, Contents(s, o, c))
  BY <1>1, <1>3, PutFirst
<1>6. /\ QueueTypeOK' /\ RingsOK' /\ Kept(e)' = Contents(r, b, d)
      /\ \A f \in Events \ {e} : Kept(f)' = Kept(f)
  BY <1>1, <1>2, <1>4, <1>5, RingBecomes
<1>7. QED BY <1>3, <1>5, <1>6

\* A queue that keeps a message has one in the slot of its output pointer.
LEMMA HeadMsgIs ==
  ASSUME QueueTypeOK, RingsOK, NEW e \in Events, counter[e] > 0
  PROVE  HeadMsg(e) \in Messages /\ Kept(e) # << >> /\ Head(Kept(e)) = HeadMsg(e)
<1> DEFINE s == slots[e]
           o == outputPtr[e]
           c == counter[e]
<1>1. /\ s \in Ring /\ o \in Slot /\ c \in 0..MaxCounter
      /\ Filled(s, o, c) /\ c > 0
  BY RingOf
<1>2. HeadMsg(e) = s[o] /\ Kept(e) = Contents(s, o, c)
  BY DEF Kept, HeadMsg
<1> HIDE DEF s, o, c
<1>3. s[o] \in Messages /\ Contents(s, o, c) # << >> /\ Head(Contents(s, o, c)) = s[o]
  BY <1>1, FirstIs
<1>4. QED BY <1>2, <1>3

LEMMA GetMsgRing ==
  ASSUME QueueTypeOK, RingsOK, NEW e \in Events, counter[e] > 0, GetMsg(e)
  PROVE  /\ QueueTypeOK' /\ RingsOK'
         /\ Kept(e)' = Tail(Kept(e))
         /\ \A f \in Events \ {e} : Kept(f)' = Kept(f)
<1> DEFINE s == slots[e]
           o == outputPtr[e]
           c == counter[e]
           i == inputPtr[e]
           a == After(outputPtr[e])
           r == Written(slots[e], outputPtr[e], NULL)
           d == c - 1
<1>1. /\ s \in Ring /\ o \in Slot /\ c \in 0..MaxCounter /\ i \in Slot
      /\ Filled(s, o, c) /\ i = Place(o, c) /\ c > 0 /\ c \in Nat
  BY RingOf
<1>2. /\ slots' = [slots EXCEPT ![e] = r] /\ outputPtr' = [outputPtr EXCEPT ![e] = a]
      /\ counter' = [counter EXCEPT ![e] = d] /\ inputPtr' = [inputPtr EXCEPT ![e] = i]
      /\ UNCHANGED type
  BY DEF GetMsg, QueueTypeOK, Written
<1>3. /\ a = After(o) /\ r = Written(s, o, NULL) /\ Kept(e) = Contents(s, o, c) /\ d = c - 1
  BY DEF Kept
<1>4. d \in 0..MaxCounter
  BY <1>1, <1>3, MsgQueueAssumption
<1> HIDE DEF s, o, c, i, a, r, d
<1>5. /\ r \in Ring /\ Filled(r, a, d)
      /\ a \in Slot /\ i = Place(a, d)
      /\ Contents(r, a, d) = Tail(Contents(s, o, c))
  BY <1>1, <1>3, TakeFirst
<1>6. /\ QueueTypeOK' /\ RingsOK' /\ Kept(e)' = Contents(r, a, d)
      /\ \A f \in Events \ {e} : Kept(f)' = Kept(f)
  BY <1>1, <1>2, <1>4, <1>5, RingBecomes
<1>7. QED BY <1>3, <1>5, <1>6

LEMMA ClearRing ==
  ASSUME QueueTypeOK, RingsOK, NEW e \in Events, Clear(e)
  PROVE  /\ QueueTypeOK' /\ RingsOK'
         /\ Kept(e)' = << >>
         /\ \A f \in Events \ {e} : Kept(f)' = Kept(f)
<1> DEFINE r == [i \in Slot |-> NULL]
<1>1. /\ slots' = [slots EXCEPT ![e] = r] /\ outputPtr' = [outputPtr EXCEPT ![e] = 0]
      /\ counter' = [counter EXCEPT ![e] = 0] /\ inputPtr' = [inputPtr EXCEPT ![e] = 0]
      /\ UNCHANGED type
  BY DEF Clear
<1>2. r \in Ring
  BY DEF Ring
<1>3. 0 \in Slot /\ 0 \in 0..MaxCounter
  BY MsgQueueAssumption DEF Slot
<1>4. Place(0, 0) = 0
  BY <1>3, PlaceIs, MsgQueueAssumption
<1>5. Filled(r, 0, 0)
  BY DEF Filled
<1> HIDE DEF r
<1>6. Contents(r, 0, 0) = << >>
  BY DEF Contents
<1>7. QED BY <1>1, <1>2, <1>3, <1>4, <1>5, <1>6, RingBecomes

LEMMA SameRings ==
  ASSUME QueueTypeOK, RingsOK, UNCHANGED <<counter, slots, inputPtr, outputPtr>>,
         type' \in [Events -> {"MSGQUEUE", "UNUSED"}]
  PROVE  /\ QueueTypeOK' /\ RingsOK'
         /\ \A f \in Events : Kept(f)' = Kept(f)
<1>1. QueueTypeOK'
  BY DEF QueueTypeOK
<1>2. \A f \in Events : RingOK(f)' /\ Kept(f)' = Kept(f)
  BY DEF RingsOK, RingOK, Kept
<1>3. QED BY <1>1, <1>2 DEF RingsOK

-----------------------------------------------------------------------------
(* Type correctness.                                                       *)

CallTypeOK ==
  /\ op    \in [Events -> Loops \cup {"none", "Send"}]
  /\ cargo \in [Events -> Sends \cup {NULL}]
  /\ retry \in [Events -> Seq(Sends)]

Results == [code : Codes \cup {"PENDING"}, msg : Messages \cup {NULL}, len : Sizes]

RecvTypeOK ==
  /\ pc        \in [Threads -> {"idle", "wait_again", "blocked", "awake", "timeout"}]
  /\ pevent    \in [Threads -> Events]
  /\ timeOut   \in [Threads -> TimeOuts]
  /\ want      \in [Threads -> Receives \cup {Nothing}]
  /\ maxByteSize \in [Threads -> Sizes]
  /\ msgLen    \in [Threads -> Sizes]
  /\ buffer    \in [Threads -> Messages \cup {NULL}]
  /\ result    \in [Threads -> Results]
  /\ grant     \in [Threads -> Grants]

LEMMA TypeOKParts ==
  /\ TypeOK <=> EventWaitTypeOK /\ QueueTypeOK /\ CallTypeOK /\ RecvTypeOK
  /\ TypeOK' <=> EventWaitTypeOK' /\ QueueTypeOK' /\ CallTypeOK' /\ RecvTypeOK'
  BY DEF TypeOK, QueueTypeOK, CallTypeOK, RecvTypeOK, Ring, Results

\* A call that sends carries a message.
CargoOK == \A e \in Events : op[e] \in {"Send", "Broadcast"} => cargo[e] \in Sends

TypeInv == TypeOK /\ RingsOK /\ CargoOK

LEMMA UnchangedTypes ==
  /\ EventWaitTypeOK /\ UNCHANGED waitVars => EventWaitTypeOK'
  /\ QueueTypeOK /\ RingsOK /\ UNCHANGED queueVars => QueueTypeOK' /\ RingsOK'
  /\ CallTypeOK /\ CargoOK /\ UNCHANGED <<op, cargo, retry>> => CallTypeOK' /\ CargoOK'
  /\ RecvTypeOK /\ UNCHANGED recvVars => RecvTypeOK'
<1>1. EventWaitTypeOK /\ UNCHANGED waitVars => EventWaitTypeOK'
  BY DEF EventWaitTypeOK, waitVars, tcbVars
<1>2. QueueTypeOK /\ RingsOK /\ UNCHANGED queueVars => QueueTypeOK' /\ RingsOK'
  BY DEF QueueTypeOK, RingsOK, RingOK, queueVars
<1>3. CallTypeOK /\ CargoOK /\ UNCHANGED <<op, cargo, retry>> => CallTypeOK' /\ CargoOK'
  BY DEF CallTypeOK, CargoOK
<1>4. RecvTypeOK /\ UNCHANGED recvVars => RecvTypeOK'
  BY DEF RecvTypeOK, recvVars
<1>5. QED BY <1>1, <1>2, <1>3, <1>4

LEMMA SizesAre ==
  /\ Sizes \subseteq Nat
  /\ \A m \in Messages : Size[m] \in Sizes
  /\ \A r \in Receives \cup {Nothing} : r.max \in Sizes
  /\ \A a, b \in Sizes : Smaller(a, b) \in Sizes
<1>1. \A m \in Messages : Size[m] \in Nat
  BY MsgQueueAssumption
<1>2. \A r \in Receives : r.max \in Nat
  BY MsgQueueAssumption
<1>3. Sizes \subseteq Nat
  BY <1>1, <1>2 DEF Sizes
<1>4. QED BY <1>3 DEF Sizes, Smaller, Nothing

LEMMA InitType == Init => TypeInv
<1> SUFFICES ASSUME Init PROVE TypeInv
  OBVIOUS
<1>1. EventWaitTypeOK
  <2>1. 0 \in Buckets
    BY DEF Buckets
  <2>2. waitList \in [Events -> [Buckets -> Seq(Threads)]]
    BY DEF Init, EventWaitInit
  <2>3. QED BY <2>1, <2>2 DEF Init, EventWaitInit, EventWaitTypeOK, StatusBits, SchedRets
<1>2. 0 \in Slot /\ 0 \in 0..MaxCounter /\ Place(0, 0) = 0
  BY MsgQueueAssumption, PlaceIs DEF Slot
<1>3. QueueTypeOK
  BY <1>2 DEF Init, QueueTypeOK, Ring
<1>4. RingsOK
  BY <1>2 DEF Init, RingsOK, RingOK, Filled
<1>5. CallTypeOK /\ CargoOK
  BY DEF Init, CallTypeOK, CargoOK
<1>6. RecvTypeOK
  BY DEF Init, RecvTypeOK, TimeOuts, Grants, Sizes, Results, Codes
<1>7. QED BY <1>1, <1>3, <1>4, <1>5, <1>6, TypeOKParts DEF TypeInv

LEMMA ReturnType ==
  ASSUME RecvTypeOK, NEW t \in Threads, NEW r \in Codes, NEW m \in Messages \cup {NULL},
         NEW n \in Sizes, Return(t, r, m, n)
  PROVE  RecvTypeOK'
<1>1. [code |-> r, msg |-> m, len |-> n] \in Results
  BY DEF Results
<1>2. 0 \in Sizes
  BY DEF Sizes
<1>3. QED BY <1>1, <1>2 DEF RecvTypeOK, Return, Grants, TimeOuts

LEMMA FailType ==
  ASSUME RecvTypeOK, NEW t \in Threads, NEW r \in Codes, Fail(t, r)
  PROVE  RecvTypeOK'
  BY ReturnType DEF Fail, Sizes

LEMMA GotoType ==
  ASSUME RecvTypeOK, NEW t \in Threads, NEW l \in {"blocked", "awake", "timeout"}, Goto(t, l)
  PROVE  RecvTypeOK'
  BY DEF RecvTypeOK, Goto

LEMMA DoneType ==
  ASSUME RecvTypeOK, NEW t \in Threads, ReceiveDone(t)
  PROVE  RecvTypeOK'
<1>1. buffer[t] \in Messages \cup {NULL} /\ msgLen[t] \in Sizes
  BY DEF RecvTypeOK
<1>2. QED BY <1>1, FailType, ReturnType DEF ReceiveDone, Codes

\* What a sender does to the waiter it takes off the queue.
LEMMA HandOverType ==
  ASSUME RecvTypeOK, NEW t \in Threads, NEW s \in Sends, Deliver(t, s) \/ TooBig(t, s),
         UNCHANGED <<pc, pevent, timeOut, want, result>>
  PROVE  RecvTypeOK'
<1>1. s.msg \in Messages /\ Size[s.msg] \in Sizes /\ maxByteSize[t] \in Sizes /\ 0 \in Sizes
  BY SizesAre DEF Sends, RecvTypeOK, Sizes
<1>2. Smaller(Size[s.msg], maxByteSize[t]) \in Sizes
  BY <1>1, SizesAre
<1>3. QED BY <1>1, <1>2 DEF RecvTypeOK, Deliver, TooBig, Grants

LEMMA SendToWaiterType ==
  ASSUME EventWaitTypeOK, RecvTypeOK, NEW e \in Events, NEW s \in Sends, SendToWaiter(e, s),
         retry \in [Events -> Seq(Sends)]
  PROVE  EventWaitTypeOK' /\ RecvTypeOK' /\ retry' \in [Events -> Seq(Sends)]
<1>1. EventWaitTypeOK'
  BY EventReadyType, PriorityType DEF SendToWaiter
<1>2. NextWaiter(e) \in Threads
  BY NextWaiterType DEF SendToWaiter
<1>3. RecvTypeOK'
  BY <1>2, HandOverType DEF SendToWaiter
<1>4. Append(retry[e], s) \in Seq(Sends)
  OBVIOUS
<1>5. QED BY <1>1, <1>3, <1>4 DEF SendToWaiter

\* The steps of a receive.
LEMMA ReceiveStepType ==
  ASSUME TypeInv, NEW t \in Threads, ReceiveStep(t)
  PROVE  TypeInv'
<1>1. /\ EventWaitTypeOK /\ QueueTypeOK /\ CallTypeOK /\ RecvTypeOK /\ RingsOK /\ CargoOK
      /\ pevent[t] \in Events /\ want[t] \in Receives \cup {Nothing}
  BY TypeOKParts DEF RecvTypeOK, TypeInv
<1>2. CallTypeOK' /\ CargoOK'
  BY <1>1, UnchangedTypes
  DEF ReceiveStep, ReceiveEnter, ReceiveResume, ReceiveTestTimeOut, ReceiveTimeOut, callVars
<1>3. ASSUME EventWaitTypeOK', QueueTypeOK' /\ RingsOK', RecvTypeOK'
      PROVE  TypeInv'
  BY <1>2, <1>3, TypeOKParts DEF TypeInv
<1>4. CASE ReceiveEnter(t)
  <2> DEFINE e == pevent[t]
  <2>1. CASE ReceiveTypeError(t, e)
    BY <1>1, <1>3, <2>1, FailType, UnchangedTypes DEF ReceiveTypeError, Codes
  <2>2. CASE ReceiveTooBig(t, e)
    BY <1>1, <1>3, <2>2, FailType, UnchangedTypes DEF ReceiveTooBig, Codes
  <2>3. CASE ReceiveTake(t, e)
    <3>1. GetMsg(e) /\ counter[e] > 0 /\ HeadMsg(e) \in Messages
      BY <1>1, <2>3, HeadMsgIs DEF ReceiveTake
    <3>2. QueueTypeOK' /\ RingsOK'
      BY <1>1, <3>1, GetMsgRing
    <3>3. Smaller(want[t].max, Size[HeadMsg(e)]) \in Sizes
      BY <1>1, <3>1, SizesAre
    <3>4. RecvTypeOK'
      BY <1>1, <2>3, <3>1, <3>3, ReturnType DEF ReceiveTake, Codes
    <3>5. QED BY <1>1, <1>3, <2>3, <3>2, <3>4, UnchangedTypes DEF ReceiveTake
  <2>4. CASE ReceiveNotWait(t, e)
    BY <1>1, <1>3, <2>4, FailType, UnchangedTypes DEF ReceiveNotWait, Codes
  <2>5. CASE ReceiveBlock(t, e)
    <3>1. EventWaitTypeOK'
      BY <1>1, <2>5, EventWaitType, PriorityType DEF ReceiveBlock
    <3>2. want[t].max \in Sizes
      BY <1>1, SizesAre
    <3>3. RecvTypeOK'
      BY <1>1, <2>5, <3>2 DEF ReceiveBlock, RecvTypeOK
    <3>4. QED BY <1>1, <1>3, <2>5, <3>1, <3>3, UnchangedTypes DEF ReceiveBlock
  <2>6. QED BY <1>4, <2>1, <2>2, <2>3, <2>4, <2>5 DEF ReceiveEnter
<1>5. CASE ReceiveResume(t)
  <2>1. EventWaitTypeOK' /\ QueueTypeOK' /\ RingsOK'
    BY <1>1, <1>5, KernelType, UnchangedTypes DEF ReceiveResume
  <2>2. RecvTypeOK'
    <3>1. CASE ReceiveAwake(t)
      BY <1>1, <3>1, GotoType DEF ReceiveAwake
    <3>2. CASE ReceiveInterrupted(t)
      BY <1>1, <3>2, FailType DEF ReceiveInterrupted, Codes
    <3>3. CASE ReceiveRestart(t)
      <4>1. PICK w \in (IF timeOut[t] = "TICKS" THEN {"TICKS", "NOT_WAIT"} ELSE {timeOut[t]}) :
              timeOut' = [timeOut EXCEPT ![t] = w]
        BY <3>3 DEF ReceiveRestart
      <4>2. w \in TimeOuts
        BY <1>1, <4>1 DEF RecvTypeOK, TimeOuts
      <4>3. QED BY <1>1, <3>3, <4>1, <4>2 DEF ReceiveRestart, RecvTypeOK, Grants
    <3>4. QED BY <1>5, <3>1, <3>2, <3>3 DEF ReceiveResume
  <2>3. QED BY <1>3, <2>1, <2>2
<1>6. CASE ReceiveTestTimeOut(t)
  <2>1. RecvTypeOK'
    BY <1>1, <1>6, GotoType, FailType, DoneType DEF ReceiveTestTimeOut, Codes
  <2>2. QED BY <1>1, <1>3, <1>6, <2>1, UnchangedTypes DEF ReceiveTestTimeOut
<1>7. CASE ReceiveTimeOut(t)
  <2>1. RecvTypeOK'
    BY <1>1, <1>7, FailType, DoneType DEF ReceiveTimeOut, Codes
  <2>2. EventWaitTypeOK'
    BY <1>1, <1>7, UnchangedTypes, EventTimeoutType DEF ReceiveTimeOut
  <2>3. QED BY <1>1, <1>3, <1>7, <2>1, <2>2, UnchangedTypes DEF ReceiveTimeOut
<1>8. QED BY <1>4, <1>5, <1>6, <1>7 DEF ReceiveStep

\* The begin of a send: a message is stored, or its sender has found a waiter.
LEMMA SendBeginType ==
  ASSUME TypeInv, NEW e \in Events, NEW s \in Sends, SendCheck(e, s) \/ SendStore(e, s),
         retry' \in [Events -> Seq(Sends)]
  PROVE  TypeInv'
<1>1. EventWaitTypeOK /\ QueueTypeOK /\ CallTypeOK /\ RecvTypeOK /\ RingsOK /\ CargoOK
  BY TypeOKParts DEF TypeInv
<1>2. EventWaitTypeOK' /\ RecvTypeOK'
  BY <1>1, UnchangedTypes DEF SendCheck, SendStore
<1>3. CASE SendCheck(e, s)
  <2>1. CallTypeOK' /\ CargoOK'
    BY <1>1, <1>3 DEF SendCheck, CallTypeOK, CargoOK
  <2>2. QueueTypeOK' /\ RingsOK'
    BY <1>1, <1>3, UnchangedTypes DEF SendCheck
  <2>3. QED BY <1>2, <2>1, <2>2, TypeOKParts DEF TypeInv
<1>4. CASE SendStore(e, s)
  <2>1. CallTypeOK' /\ CargoOK'
    BY <1>1, <1>4 DEF SendStore, CallTypeOK, CargoOK
  <2>2. QueueTypeOK' /\ RingsOK'
    BY <1>1, <1>4, SendMsgRing, SendMsgUrgentRing DEF SendStore, Sends
  <2>3. QED BY <1>2, <2>1, <2>2, TypeOKParts DEF TypeInv
<1>5. QED BY <1>3, <1>4

LEMMA FinishType ==
  ASSUME TypeInv, NEW e \in Events, Finish(e)
  PROVE  TypeInv'
<1>1. EventWaitTypeOK /\ QueueTypeOK /\ CallTypeOK /\ RecvTypeOK /\ RingsOK /\ CargoOK
  BY TypeOKParts DEF TypeInv
<1>2. QueueTypeOK' /\ RingsOK'
  BY <1>1, UnchangedTypes DEF Finish, SendReady, BroadcastOne, FlushOne, DeleteOne, LoopEnd
<1>3. CASE SendReady(e)
  <2>1. cargo[e] \in Sends /\ SendToWaiter(e, cargo[e])
    BY <1>1, <1>3 DEF SendReady, CargoOK
  <2>2. EventWaitTypeOK' /\ RecvTypeOK' /\ retry' \in [Events -> Seq(Sends)]
    BY <1>1, <2>1, SendToWaiterType DEF CallTypeOK
  <2>3. CallTypeOK' /\ CargoOK'
    BY <1>1, <1>3, <2>2 DEF SendReady, CallTypeOK, CargoOK
  <2>4. QED BY <1>2, <2>2, <2>3, TypeOKParts DEF TypeInv
<1>4. CASE BroadcastOne(e) \/ FlushOne(e) \/ DeleteOne(e)
  <2>1. CallTypeOK' /\ CargoOK'
    BY <1>1, <1>4, UnchangedTypes DEF BroadcastOne, FlushOne, DeleteOne, callVars
  <2>2. EventWaitTypeOK'
    BY <1>1, <1>4, EventReadyType, PriorityType DEF BroadcastOne, FlushOne, DeleteOne
  <2>3. NextWaiter(e) \in Threads /\ 0 \in Sizes
    BY <1>1, <1>4, NextWaiterType DEF BroadcastOne, FlushOne, DeleteOne, Sizes
  <2>4. RecvTypeOK'
    <3>1. CASE BroadcastOne(e)
      <4>1. cargo[e] \in Sends
        BY <1>1, <3>1 DEF BroadcastOne, CargoOK
      <4>2. QED BY <1>1, <2>3, <3>1, <4>1, HandOverType DEF BroadcastOne
    <3>2. CASE FlushOne(e)
      BY <1>1, <2>3, <3>2 DEF FlushOne, RecvTypeOK, Grants
    <3>3. CASE DeleteOne(e)
      BY <1>1, <2>3, <3>3 DEF DeleteOne, RecvTypeOK, Grants
    <3>4. QED BY <1>4, <3>1, <3>2, <3>3
  <2>5. QED BY <1>2, <2>1, <2>2, <2>4, TypeOKParts DEF TypeInv
<1>5. CASE LoopEnd(e)
  <2>1. CallTypeOK' /\ CargoOK'
    BY <1>1, <1>5 DEF LoopEnd, CallTypeOK, CargoOK
  <2>2. EventWaitTypeOK' /\ RecvTypeOK'
    BY <1>1, <1>5, UnchangedTypes DEF LoopEnd
  <2>3. QED BY <1>2, <2>1, <2>2, TypeOKParts DEF TypeInv
<1>6. QED BY <1>3, <1>4, <1>5 DEF Finish

LEMMA AgainType ==
  ASSUME TypeInv, NEW e \in Events, Again(e)
  PROVE  TypeInv'
<1>1. EventWaitTypeOK /\ QueueTypeOK /\ CallTypeOK /\ RecvTypeOK /\ RingsOK /\ CargoOK
  BY TypeOKParts DEF TypeInv
<1>2. PICK i \in 1..Len(retry[e]) : Resend(e, i) \/ ResendFails(e, i)
  BY DEF Again
<1>3. retry[e] \in Seq(Sends)
  BY <1>1 DEF CallTypeOK
<1>4. retry[e][i] \in Sends /\ RemoveAt(retry[e], i) \in Seq(Sends)
  BY <1>2, <1>3 DEF RemoveAt
<1>5. retry' \in [Events -> Seq(Sends)]
  BY <1>1, <1>2, <1>4 DEF Resend, ResendFails, CallTypeOK
<1>6. CASE Resend(e, i)
  BY <1>4, <1>5, <1>6, SendBeginType DEF Resend
<1>7. CASE ResendFails(e, i)
  <2>1. EventWaitTypeOK' /\ RecvTypeOK' /\ QueueTypeOK' /\ RingsOK'
    BY <1>1, <1>7, UnchangedTypes DEF ResendFails
  <2>2. CallTypeOK' /\ CargoOK'
    BY <1>1, <1>5, <1>7 DEF ResendFails, CallTypeOK, CargoOK
  <2>3. QED BY <2>1, <2>2, TypeOKParts DEF TypeInv
<1>8. QED BY <1>2, <1>6, <1>7

LEMMA CallType ==
  ASSUME TypeInv, NEW e \in Events, Call(e)
  PROVE  TypeInv'
<1>1. EventWaitTypeOK /\ QueueTypeOK /\ CallTypeOK /\ RecvTypeOK /\ RingsOK /\ CargoOK
  BY TypeOKParts DEF TypeInv
<1>2. ASSUME NEW s \in Sends, SendNew(e, s)
      PROVE  TypeInv'
  <2>1. retry' \in [Events -> Seq(Sends)]
    BY <1>1, <1>2 DEF SendNew, NewSend, CallTypeOK
  <2>2. QED BY <1>2, <2>1, SendBeginType DEF SendNew
<1>3. ASSUME NEW s \in Sends, SendNested(e, s)
      PROVE  TypeInv'
  <2>1. EventWaitTypeOK' /\ RecvTypeOK' /\ retry' \in [Events -> Seq(Sends)]
    BY <1>1, <1>3, SendToWaiterType DEF SendNested, CallTypeOK
  <2>2. CallTypeOK' /\ CargoOK'
    BY <1>1, <1>3, <2>1 DEF SendNested, CallTypeOK, CargoOK
  <2>3. QueueTypeOK' /\ RingsOK'
    BY <1>1, <1>3, UnchangedTypes DEF SendNested
  <2>4. QED BY <2>1, <2>2, <2>3, TypeOKParts DEF TypeInv
<1>4. ASSUME NEW m \in Messages, BroadcastBegin(e, m)
      PROVE  TypeInv'
  <2>1. [msg |-> m, urgent |-> FALSE] \in Sends
    BY DEF Sends
  <2>2. CallTypeOK' /\ CargoOK'
    BY <1>1, <1>4, <2>1 DEF BroadcastBegin, CallTypeOK, CargoOK, Loops
  <2>3. EventWaitTypeOK' /\ RecvTypeOK' /\ QueueTypeOK' /\ RingsOK'
    BY <1>1, <1>4, UnchangedTypes DEF BroadcastBegin
  <2>4. QED BY <2>2, <2>3, TypeOKParts DEF TypeInv
<1>5. CASE TryReceive(e) \/ Clear(e)
  <2>1. EventWaitTypeOK' /\ RecvTypeOK' /\ CallTypeOK' /\ CargoOK'
    BY <1>1, <1>5, UnchangedTypes DEF TryReceive, Clear, callVars
  <2>2. QueueTypeOK' /\ RingsOK'
    BY <1>1, <1>5, GetMsgRing, ClearRing DEF TryReceive
  <2>3. QED BY <2>1, <2>2, TypeOKParts DEF TypeInv
<1>6. CASE FlushBegin(e) \/ DeleteBegin(e)
  <2>1. EventWaitTypeOK' /\ RecvTypeOK'
    BY <1>1, <1>6, UnchangedTypes DEF FlushBegin, DeleteBegin
  <2>2. CallTypeOK' /\ CargoOK'
    BY <1>1, <1>6 DEF FlushBegin, DeleteBegin, CallTypeOK, CargoOK, Loops
  <2>3. type' \in [Events -> {"MSGQUEUE", "UNUSED"}]
    BY <1>1, <1>6 DEF FlushBegin, DeleteBegin, QueueTypeOK, queueVars
  <2>4. QueueTypeOK' /\ RingsOK'
    BY <1>1, <1>6, <2>3, SameRings DEF FlushBegin, DeleteBegin, queueVars
  <2>5. QED BY <2>1, <2>2, <2>4, TypeOKParts DEF TypeInv
<1>7. QED BY <1>2, <1>3, <1>4, <1>5, <1>6 DEF Call

LEMMA AroundType ==
  ASSUME TypeInv, NEW t \in Threads, Tick(t) \/ Signal(t) \/ HandlerReturn(t)
  PROVE  TypeInv'
<1>1. EventWaitTypeOK /\ QueueTypeOK /\ CallTypeOK /\ RecvTypeOK /\ RingsOK /\ CargoOK
  BY TypeOKParts DEF TypeInv
<1>2. QueueTypeOK' /\ RingsOK' /\ CallTypeOK' /\ CargoOK'
  BY <1>1, UnchangedTypes DEF Tick, Signal, HandlerReturn, callVars
<1>3. EventWaitTypeOK'
  BY <1>1, KernelType, SigBreakWaitType DEF Tick, Signal, HandlerReturn, Kill
<1>4. RecvTypeOK'
  <2>1. CASE Signal(t)
    BY <1>1, <2>1 DEF Signal, RecvTypeOK, Grants
  <2>2. CASE ~Signal(t)
    BY <1>1, <2>2, UnchangedTypes DEF Tick, HandlerReturn
  <2>3. QED BY <2>1, <2>2
<1>5. QED BY <1>2, <1>3, <1>4, TypeOKParts DEF TypeInv

LEMMA ReceiveCallType ==
  ASSUME TypeInv, NEW t \in Threads, NEW e \in Events, NEW w \in TimeOuts, NEW r \in Receives,
         ReceiveCall(t, e, w, r)
  PROVE  TypeInv'
<1>1. EventWaitTypeOK /\ QueueTypeOK /\ CallTypeOK /\ RecvTypeOK /\ RingsOK /\ CargoOK
  BY TypeOKParts DEF TypeInv
<1>2. EventWaitTypeOK' /\ QueueTypeOK' /\ RingsOK' /\ CallTypeOK' /\ CargoOK'
  BY <1>1, UnchangedTypes DEF ReceiveCall, callVars
<1>3. NoResult \in Results
  BY DEF NoResult, Results, Sizes
<1>4. RecvTypeOK'
  BY <1>1, <1>3 DEF ReceiveCall, RecvTypeOK
<1>5. QED BY <1>2, <1>4, TypeOKParts DEF TypeInv

LEMMA TypeInvCorrect == Spec => []TypeInv
<1>1. TypeInv /\ [Next]_vars => TypeInv'
  <2> SUFFICES ASSUME TypeInv, [Next]_vars PROVE TypeInv'
    OBVIOUS
  <2>1. CASE UNCHANGED vars
    <3>1. EventWaitTypeOK /\ QueueTypeOK /\ CallTypeOK /\ RecvTypeOK /\ RingsOK /\ CargoOK
      BY TypeOKParts DEF TypeInv
    <3>2. QED BY <2>1, <3>1, UnchangedTypes, TypeOKParts DEF vars, callVars, TypeInv
  <2>2. QED BY <2>1, ReceiveCallType, ReceiveStepType, FinishType, AgainType, CallType, AroundType
           DEF Next
<1>2. QED BY <1>1, InitType, PTL DEF Spec

\* Every variable keeps its type: the counter stays between 0 and the number of
\* slots, and no length, buffer or result is ever anything but a message's, whatever
\* the calls, the time-outs and the signals (_MsgQueueLib.c, MsgQueueReceive.c).
THEOREM TypeCorrect == Spec => []TypeOK
  BY TypeInvCorrect, PTL DEF TypeInv

\* The messages of a queue fill the slots from the output pointer on, up to the
\* input pointer, however often the two have gone round the ring and an urgent
\* message has moved the output pointer back (_MsgQueueLib.c).
THEOREM RingCorrect == Spec => []RingsOK
  BY TypeInvCorrect, PTL DEF TypeInv

-----------------------------------------------------------------------------
(* No message lies in the ring while a thread waits.                       *)

\* A step that shrinks the queues and adds no message keeps the invariant.
LEMMA ShrinkKeeps ==
  ASSUME NoIdleMessage, Shrinks, \A e \in Events : counter'[e] > 0 => counter[e] > 0
  PROVE  NoIdleMessage'
  BY DEF NoIdleMessage, Shrinks

LEMMA SameKeepsIdle ==
  ASSUME NoIdleMessage, UNCHANGED <<waitList, counter>>
  PROVE  NoIdleMessage'
  BY SameListsShrink, ShrinkKeeps

LEMMA GetMsgKeeps ==
  ASSUME TypeOK, NoIdleMessage, NEW e \in Events, counter[e] > 0, GetMsg(e) \/ Clear(e),
         UNCHANGED waitList
  PROVE  NoIdleMessage'
<1>1. \A f \in Events : counter'[f] > 0 => counter[f] > 0
  BY MsgQueueAssumption DEF GetMsg, Clear, TypeOK
<1>2. QED BY <1>1, SameListsShrink, ShrinkKeeps

LEMMA StoreKeeps ==
  ASSUME TypeOK, NoIdleMessage, NEW e \in Events, NEW s, SendStore(e, s)
  PROVE  NoIdleMessage'
<1>1. \A f \in Events : HasWaiter(f)' <=> HasWaiter(f)
  BY DEF SendStore, waitVars, HasWaiter
<1>2. \A f \in Events \ {e} : counter'[f] = counter[f]
  BY DEF SendStore, SendMsg, SendMsgUrgent, TypeOK
<1>3. QED BY <1>1, <1>2 DEF NoIdleMessage, SendStore

LEMMA WakeKeeps ==
  ASSUME TypeOK, NoIdleMessage, NEW e \in Events, HasWaiter(e), NEW del,
         EventReady(e, del, priority), UNCHANGED counter
  PROVE  NoIdleMessage'
  BY EventReadyShrinks, ShrinkKeeps, TypeOKParts

LEMMA ReceiveKeeps ==
  ASSUME TypeOK, NoIdleMessage, NEW t \in Threads, ReceiveStep(t)
  PROVE  NoIdleMessage'
<1> DEFINE e == pevent[t]
<1>1. e \in Events
  BY DEF TypeOK
<1>2. CASE ReceiveEnter(t) /\ ReceiveTake(t, e)
  BY <1>1, <1>2, GetMsgKeeps DEF ReceiveTake, waitVars
<1>3. CASE ReceiveEnter(t) /\ ReceiveBlock(t, e)
  <2>1. \A f \in Events : f # e => (HasWaiter(f)' <=> HasWaiter(f))
    BY <1>1, <1>3 DEF ReceiveBlock, EventWait, HasWaiter, TypeOK, EventWaitTypeOK
  <2>2. UNCHANGED counter /\ counter[e] = 0
    BY <1>3 DEF ReceiveBlock, queueVars
  <2>3. QED BY <1>1, <2>1, <2>2 DEF NoIdleMessage
<1>4. CASE ReceiveTimeOut(t) /\ EventTimeout(t, e)
  BY <1>1, <1>4, KernelShrinks, ShrinkKeeps, TypeOKParts DEF ReceiveTimeOut, queueVars
<1>5. CASE UNCHANGED <<waitList, counter>>
  BY <1>5, SameKeepsIdle
<1>6. QED BY <1>2, <1>3, <1>4, <1>5
         DEF ReceiveStep, ReceiveEnter, ReceiveTypeError, ReceiveTooBig, ReceiveNotWait,
             ReceiveResume, SchedReturn, ReceiveTestTimeOut, ReceiveTimeOut, waitVars, queueVars

LEMMA CallKeeps ==
  ASSUME TypeOK, NoIdleMessage, NEW e \in Events, Finish(e) \/ Again(e) \/ Call(e)
  PROVE  NoIdleMessage'
<1>1. CASE \E s : SendStore(e, s)
  BY <1>1, StoreKeeps
<1>2. CASE HasWaiter(e) /\ (\E del \in BOOLEAN : EventReady(e, del, priority)) /\ UNCHANGED counter
  BY <1>2, WakeKeeps
<1>3. CASE TryReceive(e)
  BY <1>3, GetMsgKeeps DEF TryReceive, waitVars
<1>4. CASE Clear(e)
  <2>1. \A f \in Events : counter'[f] > 0 => counter[f] > 0
    BY <1>4 DEF Clear, TypeOK
  <2>2. QED BY <1>4, <2>1, SameListsShrink, ShrinkKeeps DEF Clear, waitVars
<1>5. CASE UNCHANGED <<waitList, counter>>
  BY <1>5, SameKeepsIdle
<1>6. CASE Finish(e)
  BY <1>2, <1>5, <1>6 DEF Finish, SendReady, SendToWaiter, BroadcastOne, FlushOne, DeleteOne, LoopEnd,
                          waitVars, queueVars
<1>7. CASE Again(e)
  BY <1>1, <1>5, <1>7 DEF Again, Resend, ResendFails, SendCheck, waitVars, queueVars
<1>8. CASE Call(e)
  <2>1. CASE \E s \in Sends : SendNew(e, s)
    BY <1>1, <1>5, <2>1 DEF SendNew, SendCheck, waitVars, queueVars
  <2>2. CASE \E s \in Sends : SendNested(e, s)
    BY <1>2, <2>2 DEF SendNested, SendToWaiter, queueVars
  <2>3. QED BY <1>3, <1>4, <1>5, <1>8, <2>1, <2>2
           DEF Call, BroadcastBegin, FlushBegin, DeleteBegin, waitVars, queueVars
<1>9. QED BY <1>6, <1>7, <1>8

LEMMA AroundKeeps ==
  ASSUME TypeOK, NoIdleMessage, NEW t \in Threads, Tick(t) \/ Signal(t) \/ HandlerReturn(t)
  PROVE  NoIdleMessage'
<1>1. Shrinks
  BY KernelShrinks, TypeOKParts DEF Tick, Signal, HandlerReturn
<1>2. UNCHANGED counter
  BY DEF Tick, Signal, HandlerReturn, queueVars
<1>3. QED BY <1>1, <1>2, ShrinkKeeps

\* A message in the ring and a thread that waits for one are never there together:
\* no order of sends, sends made again, receives, time-outs, signals, flushes and
\* deletions leaves both behind, where nobody would ever bring them together.
THEOREM NoIdleMessageCorrect == Spec => []NoIdleMessage
<1>1. Init => NoIdleMessage
  BY DEF Init, EventWaitInit, NoIdleMessage, HasWaiter
<1>2. TypeOK /\ NoIdleMessage /\ [Next]_vars => NoIdleMessage'
  <2> SUFFICES ASSUME TypeOK, NoIdleMessage, [Next]_vars PROVE NoIdleMessage'
    OBVIOUS
  <2>1. CASE UNCHANGED vars
    BY <2>1, SameKeepsIdle DEF vars, waitVars, queueVars
  <2>2. ASSUME NEW t \in Threads, NEW e \in Events, NEW w \in TimeOuts, NEW r \in Receives,
               ReceiveCall(t, e, w, r)
        PROVE  NoIdleMessage'
    BY <2>2, SameKeepsIdle DEF ReceiveCall, waitVars, queueVars
  <2>3. QED BY <2>1, <2>2, ReceiveKeeps, CallKeeps, AroundKeeps DEF Next
<1>3. QED BY <1>1, <1>2, TypeCorrect, PTL DEF Spec

-----------------------------------------------------------------------------
(* The receive buffers of the message queue are valid, and the queue       *)
(* implements the channel it promises to be.                               *)


\* What is there for a thread whose wait another party has ended, by the way in
\* which it was ended.
Ended(t) ==
  /\ grant[t] \in {"message", "toobig", "flush", "delete", "signal"}
  /\ grant[t] = "message" => /\ buffer[t] \in Messages
                             /\ ~Refuses(t, buffer[t], want[t].max)
                             /\ msgLen[t] = Smaller(Size[buffer[t]], want[t].max)
  /\ grant[t] # "message" => buffer[t] = NULL /\ msgLen[t] = 0
  /\ grant[t] = "toobig"  => \E m \in Messages : Refuses(t, m, want[t].max)
  /\ maxByteSize[t] = IF grant[t] = "toobig" THEN 0 ELSE want[t].max
  /\ isEventDelete[t] = IF grant[t] = "delete" THEN "DELETE" ELSE "EXIST"

\* What a thread's own fields say of its call, in every state.
Settled(t) ==
  /\ schedRet[t] = "NONE" /\ status[t] \subseteq {"SEM", "DELAY"}
  /\ sigCtl[t] # "NONE" => SIGNAL_EN
  /\ pc[t] # "idle" => want[t] \in Receives
  /\ pc[t] \in {"idle", "wait_again"} => grant[t] = "none" /\ buffer[t] = NULL /\ msgLen[t] = 0
  /\ peventPtr[t] # NULL => msgLen[t] = 0 /\ isEventDelete[t] = "EXIST"
  /\ peventPtr[t] = NULL /\ pc[t] \notin {"idle", "wait_again"} => Ended(t)

AllSettled == \A t \in Threads : Settled(t)

\* The variables that these and WaiterState speak of.
Same(u) ==
  UNCHANGED <<status[u], waitTimeOut[u], isEventDelete[u], peventPtr[u], schedRet[u], sigCtl[u],
              pc[u], pevent[u], timeOut[u], want[u], maxByteSize[u], msgLen[u], buffer[u], grant[u]>>

LEMMA SameSettled ==
  ASSUME NEW u \in Threads, WaiterState(u), Settled(u), Same(u)
  PROVE  WaiterState(u)' /\ Settled(u)'
<1>1. WaiterState(u)'
  BY DEF WaiterState, Same
<1>2. Ended(u) => Ended(u)'
  BY DEF Ended, Same, Refuses
<1>3. Settled(u)'
  BY <1>2 DEF Settled, Same
<1>4. QED BY <1>1, <1>3

LEMMA SameKeeps ==
  ASSUME BuffersValid, AllSettled, NEW t \in Threads,
         \A u \in Threads \ {t} : Same(u),
         ListsDistinct' /\ ListsMatch', WaiterState(t)', Settled(t)'
  PROVE  BuffersValid' /\ AllSettled'
<1>1. \A u \in Threads : WaiterState(u)' /\ Settled(u)'
  BY SameSettled DEF BuffersValid, AllSettled
<1>2. QED BY <1>1 DEF BuffersValid, AllSettled

LEMMA StillValid ==
  ASSUME BuffersValid, AllSettled, UNCHANGED <<waitVars, recvVars>>
  PROVE  BuffersValid' /\ AllSettled'
<1>1. ListsDistinct' /\ ListsMatch'
  BY SameLists DEF BuffersValid, waitVars, tcbVars
<1>2. \A u \in Threads : Same(u)
  BY DEF Same, waitVars, tcbVars, recvVars
<1>3. \A u \in Threads : WaiterState(u)' /\ Settled(u)'
  BY <1>2, SameSettled DEF BuffersValid, AllSettled
<1>4. QED BY <1>1, <1>3 DEF BuffersValid, AllSettled

\* What holds of a thread that executes its own code.
LEMMA RunningThread ==
  ASSUME TypeOK, BuffersValid, AllSettled, NEW t \in Threads, CpuFree(t)
  PROVE  /\ ListsDistinct /\ ListsMatch /\ WaiterState(t) /\ Settled(t)
         /\ status[t] = {} /\ schedRet[t] = "NONE"
         /\ peventPtr[t] \in Events \cup {NULL} /\ NULL \notin Events
         /\ peventPtr[t] = NULL => waitTimeOut[t] = "CLEAR"
         /\ peventPtr[t] # NULL => waitTimeOut[t] = "OUT" /\ peventPtr[t] = pevent[t]
<1>1. /\ ListsDistinct /\ ListsMatch /\ WaiterState(t) /\ Settled(t)
      /\ status[t] = {} /\ schedRet[t] = "NONE"
  BY DEF BuffersValid, AllSettled, CpuFree, Runs, IsReady, Settled
<1>2. peventPtr[t] \in Events \cup {NULL} /\ NULL \notin Events
  BY EventWaitAssumption, TypeOKParts DEF EventWaitTypeOK
<1>3. waitTimeOut[t] \in {"CLEAR", "OUT"}
  BY TypeOKParts DEF EventWaitTypeOK
<1>4. QED BY <1>1, <1>2, <1>3 DEF WaiterState

\* A thread that returns from its call and is in no queue.
LEMMA ReturnValid ==
  ASSUME TypeOK, BuffersValid, AllSettled, NEW t \in Threads, NEW r, NEW m, NEW n,
         status[t] = {}, Return(t, r, m, n),
         peventPtr'[t] = NULL /\ waitTimeOut'[t] = "CLEAR",
         \A u \in Threads \ {t} : peventPtr'[u] = peventPtr[u] /\ waitTimeOut'[u] = waitTimeOut[u],
         ListsDistinct' /\ ListsMatch', UNCHANGED <<status, isEventDelete, schedRet, sigCtl>>
  PROVE  BuffersValid' /\ AllSettled'
<1>1. RecvTypeOK
  BY TypeOKParts
<1>2. /\ pc'[t] = "idle" /\ grant'[t] = "none" /\ buffer'[t] = NULL /\ msgLen'[t] = 0
      /\ status'[t] = {} /\ UNCHANGED <<schedRet[t], sigCtl[t]>>
  BY <1>1 DEF Return, RecvTypeOK
<1>3. \A u \in Threads \ {t} : Same(u)
  BY <1>1 DEF Return, RecvTypeOK, Same
<1>4. Settled(t)
  BY DEF AllSettled
<1>5. WaiterState(t)'
  BY <1>2 DEF WaiterState
<1>6. Settled(t)'
  BY <1>2, <1>4 DEF Settled
<1>7. QED BY <1>3, <1>5, <1>6, SameKeeps

\* A thread that goes on inside its call.
LEMMA GotoValid ==
  ASSUME TypeOK, BuffersValid, AllSettled, NEW t \in Threads, NEW l \in {"awake", "timeout"},
         status[t] = {}, pc[t] \notin {"idle", "wait_again"}, Goto(t, l),
         UNCHANGED <<status, waitTimeOut, isEventDelete, peventPtr, ppringList, schedRet, sigCtl,
                     waitList>>
  PROVE  BuffersValid' /\ AllSettled'
<1>1. RecvTypeOK /\ WaiterState(t) /\ Settled(t) /\ ListsDistinct /\ ListsMatch
  BY TypeOKParts DEF BuffersValid, AllSettled
<1>2. pc'[t] = l /\ UNCHANGED <<pevent, timeOut, want, maxByteSize, msgLen, buffer, grant>>
  BY <1>1 DEF Goto, RecvTypeOK
<1>3. \A u \in Threads \ {t} : Same(u)
  BY <1>1, <1>2 DEF Goto, RecvTypeOK, Same
<1>4. ListsDistinct' /\ ListsMatch'
  BY <1>1, SameLists
<1>5. WaiterState(t)'
  BY <1>1, <1>2 DEF WaiterState
<1>6. Ended(t) => Ended(t)'
  BY <1>2 DEF Ended, Refuses
<1>7. Settled(t)'
  BY <1>1, <1>2, <1>6 DEF Settled
<1>8. QED BY <1>3, <1>4, <1>5, <1>7, SameKeeps

LEMMA BlockValid ==
  ASSUME TypeOK, BuffersValid, AllSettled, NEW t \in Threads, CpuFree(t), pc[t] = "wait_again",
         ReceiveBlock(t, pevent[t])
  PROVE  BuffersValid' /\ AllSettled'
<1>1. EventWaitTypeOK /\ RecvTypeOK /\ pevent[t] \in Events
  BY TypeOKParts DEF RecvTypeOK
<1>2. /\ ListsDistinct /\ ListsMatch /\ WaiterState(t) /\ Settled(t) /\ status[t] = {}
      /\ peventPtr[t] = NULL /\ NULL \notin Events
  BY RunningThread DEF WaiterState
<1>3. EventWait(t, pevent[t], timeOut[t] = "TICKS", priority)
  BY DEF ReceiveBlock
<1>4. ListsDistinct' /\ ListsMatch'
  BY <1>1, <1>2, <1>3, EventWaitLists, PriorityType
<1>5. /\ peventPtr'[t] = pevent[t] /\ waitTimeOut'[t] = "CLEAR" /\ isEventDelete'[t] = "EXIST"
      /\ status'[t] = {"SEM"} \cup IF timeOut[t] = "TICKS" THEN {"DELAY"} ELSE {}
      /\ UNCHANGED <<schedRet, sigCtl>>
  BY <1>1, <1>2, <1>3 DEF EventWait, EventWaitTypeOK
<1>6. /\ pc'[t] = "blocked" /\ maxByteSize'[t] = want[t].max
      /\ UNCHANGED <<pevent, timeOut, want, msgLen, buffer, grant>>
  BY <1>1 DEF ReceiveBlock, RecvTypeOK
<1>7. grant[t] = "none" /\ buffer[t] = NULL /\ msgLen[t] = 0
  BY <1>2 DEF Settled
<1>8. WaiterState(t)'
  BY <1>1, <1>2, <1>5, <1>6, <1>7 DEF WaiterState
<1>9. Settled(t)'
  BY <1>1, <1>2, <1>5, <1>6, <1>7 DEF Settled
<1>10. \A u \in Threads \ {t} : Same(u)
  BY <1>1, <1>3 DEF ReceiveBlock, EventWait, EventWaitTypeOK, RecvTypeOK, Same
<1>11. QED BY <1>4, <1>8, <1>9, <1>10, SameKeeps

LEMMA ReceiveValid ==
  ASSUME TypeOK, BuffersValid, AllSettled, NEW t \in Threads, ReceiveStep(t)
  PROVE  BuffersValid' /\ AllSettled'
<1>1. EventWaitTypeOK /\ RecvTypeOK /\ pevent[t] \in Events
  BY TypeOKParts DEF RecvTypeOK
<1>2. CpuFree(t)
  BY DEF ReceiveStep, ReceiveEnter, ReceiveResume, ReceiveTestTimeOut, ReceiveTimeOut
<1>3. /\ ListsDistinct /\ ListsMatch /\ WaiterState(t) /\ Settled(t)
      /\ status[t] = {} /\ schedRet[t] = "NONE" /\ NULL \notin Events
      /\ peventPtr[t] = NULL => waitTimeOut[t] = "CLEAR"
      /\ peventPtr[t] # NULL => waitTimeOut[t] = "OUT" /\ peventPtr[t] = pevent[t]
  BY <1>2, RunningThread
<1>4. CASE ReceiveEnter(t) /\ ReceiveBlock(t, pevent[t])
  BY <1>2, <1>4, BlockValid DEF ReceiveEnter
\* The call ends, and the thread was in no queue.
<1>5. ASSUME UNCHANGED waitVars, peventPtr[t] = NULL, NEW r, NEW m, NEW n, Return(t, r, m, n)
      PROVE  BuffersValid' /\ AllSettled'
  <2>1. ListsDistinct' /\ ListsMatch'
    BY <1>3, <1>5, SameLists DEF waitVars, tcbVars
  <2>2. /\ peventPtr'[t] = NULL /\ waitTimeOut'[t] = "CLEAR"
        /\ UNCHANGED <<peventPtr, waitTimeOut, status, isEventDelete, schedRet, sigCtl>>
    BY <1>3, <1>5 DEF waitVars, tcbVars
  <2>3. QED BY <1>3, <1>5, <2>1, <2>2, ReturnValid
<1>6. CASE ReceiveEnter(t) /\ ~ReceiveBlock(t, pevent[t])
  <2>1. peventPtr[t] = NULL
    BY <1>3, <1>6 DEF ReceiveEnter, WaiterState
  <2>2. QED BY <1>5, <1>6, <2>1
           DEF ReceiveEnter, ReceiveTypeError, ReceiveTooBig, ReceiveTake, ReceiveNotWait, Fail
<1>7. CASE ReceiveResume(t)
  <2>1. Goto(t, "awake") /\ SchedReturn(t) /\ pc[t] = "blocked"
    BY <1>3, <1>7 DEF ReceiveResume, ReceiveAwake, ReceiveInterrupted, Interrupted, ReceiveRestart
  <2>2. UNCHANGED <<status, waitTimeOut, isEventDelete, peventPtr, ppringList, schedRet, sigCtl,
                    waitList>>
    BY <1>1, <1>3, <2>1 DEF SchedReturn, EventWaitTypeOK
  <2>3. QED BY <1>3, <2>1, <2>2, GotoValid
<1>8. CASE ReceiveTestTimeOut(t)
  <2>1. CASE Goto(t, "timeout")
    BY <1>3, <1>8, <2>1, GotoValid DEF ReceiveTestTimeOut, waitVars, tcbVars
  <2>2. CASE waitTimeOut[t] # "OUT"
    BY <1>3, <1>5, <1>8, <2>2 DEF ReceiveTestTimeOut, ReceiveDone, Fail
  <2>3. QED BY <1>8, <2>1, <2>2 DEF ReceiveTestTimeOut
<1>9. CASE ReceiveTimeOut(t)
  <2>1. CASE waitTimeOut[t] = "CLEAR"
    BY <1>3, <1>5, <1>9, <2>1 DEF ReceiveTimeOut, ReceiveDone, Fail
  <2>2. CASE waitTimeOut[t] # "CLEAR"
    <3>1. EventTimeout(t, pevent[t]) /\ Return(t, "WAIT_TIMEOUT", NULL, 0)
      BY <1>9, <2>2 DEF ReceiveTimeOut, Fail
    <3>2. ListsDistinct' /\ ListsMatch'
      BY <1>1, <1>3, <2>2, <3>1, UnlinkLists DEF EventTimeout
    <3>3. /\ peventPtr'[t] = NULL /\ waitTimeOut'[t] = "CLEAR"
          /\ \A u \in Threads \ {t} : peventPtr'[u] = peventPtr[u] /\ waitTimeOut'[u] = waitTimeOut[u]
          /\ UNCHANGED <<status, isEventDelete, schedRet, sigCtl>>
      BY <1>1, <3>1 DEF EventTimeout, EventWaitTypeOK
    <3>4. QED BY <1>3, <3>1, <3>2, <3>3, ReturnValid
  <2>3. QED BY <2>1, <2>2
<1>10. QED BY <1>4, <1>6, <1>7, <1>8, <1>9 DEF ReceiveStep

LEMMA ReceiveCallValid ==
  ASSUME TypeOK, BuffersValid, AllSettled, NEW t \in Threads, NEW e \in Events,
         NEW w \in TimeOuts, NEW r \in Receives, ReceiveCall(t, e, w, r)
  PROVE  BuffersValid' /\ AllSettled'
<1>1. EventWaitTypeOK /\ RecvTypeOK
  BY TypeOKParts
<1>2. /\ ListsDistinct /\ ListsMatch /\ WaiterState(t) /\ Settled(t) /\ status[t] = {}
      /\ peventPtr[t] = NULL /\ pc[t] = "idle"
  BY RunningThread DEF ReceiveCall
<1>3. ListsDistinct' /\ ListsMatch'
  BY <1>2, SameLists DEF ReceiveCall, waitVars, tcbVars
<1>4. /\ pc'[t] = "wait_again" /\ want'[t] = r
      /\ UNCHANGED <<maxByteSize, msgLen, buffer, grant, status, waitTimeOut, isEventDelete,
                     peventPtr, schedRet, sigCtl>>
  BY <1>1 DEF ReceiveCall, RecvTypeOK, waitVars, tcbVars
<1>5. WaiterState(t)'
  BY <1>2, <1>4 DEF WaiterState
<1>6. Settled(t)'
  BY <1>2, <1>4 DEF Settled
<1>7. \A u \in Threads \ {t} : Same(u)
  BY <1>1 DEF ReceiveCall, RecvTypeOK, waitVars, tcbVars, Same
<1>8. QED BY <1>3, <1>5, <1>6, <1>7, SameKeeps

\* The first waiter is taken off the queue, and gets whatever ends its wait.
LEMMA WakeValid ==
  ASSUME TypeOK, BuffersValid, AllSettled, NEW e \in Events, NEW del \in BOOLEAN, HasWaiter(e),
         EventReady(e, del, priority), NEW t, t = NextWaiter(e),
         RecvTypeOK', UNCHANGED <<pc, pevent, timeOut, want>>,
         \A u \in Threads \ {t} : /\ maxByteSize'[u] = maxByteSize[u] /\ msgLen'[u] = msgLen[u]
                                  /\ buffer'[u] = buffer[u] /\ grant'[u] = grant[u],
         isEventDelete'[t] = (IF del THEN "DELETE" ELSE "EXIST") => Ended(t)'
  PROVE  BuffersValid' /\ AllSettled'
<1>1. EventWaitTypeOK /\ RecvTypeOK /\ t \in Threads
  BY TypeOKParts, NextWaiterType
<1>2. peventPtr[t] = e /\ WaiterState(t) /\ Settled(t) /\ NULL \notin Events
  BY <1>1, NextWaiterQueued, EventWaitAssumption DEF BuffersValid, AllSettled
<1>3. ListsDistinct' /\ ListsMatch'
  BY <1>1, EventReadyLists DEF BuffersValid
<1>4. pc[t] \in {"blocked", "awake", "timeout"} /\ waitTimeOut[t] \in {"CLEAR", "OUT"}
      /\ isEventDelete[t] = "EXIST"
  BY <1>1, <1>2 DEF WaiterState, Settled, EventWaitTypeOK
<1>5. /\ peventPtr'[t] = NULL /\ waitTimeOut'[t] = "CLEAR"
      /\ status'[t] = {} /\ isEventDelete'[t] = (IF del THEN "DELETE" ELSE "EXIST")
      /\ UNCHANGED <<schedRet, sigCtl>>
  BY <1>1, <1>2, <1>4 DEF EventReady, EventWaitTypeOK, WaiterState, Settled
<1>6. WaiterState(t)'
  BY <1>5 DEF WaiterState
<1>7. Settled(t)'
  BY <1>2, <1>4, <1>5 DEF Settled
<1>8. \A u \in Threads \ {t} : Same(u)
  BY <1>1 DEF EventReady, EventWaitTypeOK, Same
<1>9. QED BY <1>1, <1>3, <1>6, <1>7, <1>8, SameKeeps

\* What a sender leaves in the TCB of the waiter t.
LEMMA HandOverEnds ==
  ASSUME RecvTypeOK, NEW t \in Threads, NEW s \in Sends, WaiterState(t), Settled(t),
         peventPtr[t] # NULL, Deliver(t, s) \/ TooBig(t, s),
         UNCHANGED <<pc, pevent, timeOut, want, result>>, isEventDelete'[t] = "EXIST"
  PROVE  /\ Ended(t)'
         /\ \A u \in Threads \ {t} : /\ maxByteSize'[u] = maxByteSize[u] /\ msgLen'[u] = msgLen[u]
                                     /\ buffer'[u] = buffer[u] /\ grant'[u] = grant[u]
<1>1. /\ buffer[t] = NULL /\ msgLen[t] = 0 /\ maxByteSize[t] = want[t].max /\ s.msg \in Messages
  BY DEF WaiterState, Settled, Sends
<1>2. CASE Deliver(t, s)
  <2>1. /\ grant'[t] = "message" /\ buffer'[t] = s.msg /\ maxByteSize'[t] = want[t].max
        /\ msgLen'[t] = Smaller(Size[s.msg], want[t].max) /\ ~Refuses(t, s.msg, want[t].max)
    BY <1>1, <1>2 DEF Deliver, RecvTypeOK
  <2>2. Ended(t)'
    BY <1>1, <2>1 DEF Ended, Refuses
  <2>3. QED BY <1>2, <2>2 DEF Deliver, RecvTypeOK
<1>3. CASE TooBig(t, s)
  <2>1. /\ grant'[t] = "toobig" /\ buffer'[t] = NULL /\ maxByteSize'[t] = 0
        /\ msgLen'[t] = 0 /\ Refuses(t, s.msg, want[t].max)
    BY <1>1, <1>3 DEF TooBig, RecvTypeOK
  <2>2. Ended(t)'
    BY <1>1, <2>1 DEF Ended, Refuses
  <2>3. QED BY <1>3, <2>2 DEF TooBig, RecvTypeOK
<1>4. QED BY <1>2, <1>3

\* The three ways in which a call wakes the first waiter t.
Passes(t, del) ==
  \/ ~del /\ \E s \in Sends : Deliver(t, s) \/ TooBig(t, s)
  \/ /\ ~del /\ UNCHANGED <<maxByteSize, buffer>>
     /\ msgLen' = [msgLen EXCEPT ![t] = 0] /\ grant' = [grant EXCEPT ![t] = "flush"]
  \/ /\ del /\ UNCHANGED <<maxByteSize, buffer, msgLen>>
     /\ grant' = [grant EXCEPT ![t] = "delete"]

Wakes(e, t, del) ==
  /\ HasWaiter(e) /\ t = NextWaiter(e) /\ EventReady(e, del, priority)
  /\ UNCHANGED <<pc, pevent, timeOut, want, result>>
  /\ Passes(t, del)

LEMMA WakesValid ==
  ASSUME TypeInv, BuffersValid, AllSettled, NEW e \in Events, NEW t \in Threads,
         NEW del \in BOOLEAN, Wakes(e, t, del), RecvTypeOK'
  PROVE  /\ BuffersValid' /\ AllSettled'
         /\ peventPtr[t] = e /\ pevent[t] = e /\ WaiterState(t) /\ Settled(t)
<1>1. TypeOK /\ EventWaitTypeOK /\ RecvTypeOK
  BY TypeOKParts DEF TypeInv
<1>2. peventPtr[t] = e /\ NULL \notin Events /\ WaiterState(t) /\ Settled(t)
  BY <1>1, NextWaiterQueued, EventWaitAssumption DEF Wakes, BuffersValid, AllSettled
<1>3. /\ isEventDelete[t] = "EXIST" /\ grant[t] = "none" /\ buffer[t] = NULL /\ msgLen[t] = 0
      /\ maxByteSize[t] = want[t].max /\ pevent[t] = e
  BY <1>2 DEF WaiterState, Settled
<1>4. /\ isEventDelete'[t] = IF del THEN "DELETE" ELSE "EXIST"
      /\ UNCHANGED <<pc, pevent, timeOut, want, result>>
  BY <1>1, <1>3 DEF Wakes, EventReady, EventWaitTypeOK
<1>5. /\ Ended(t)'
      /\ \A u \in Threads \ {t} : /\ maxByteSize'[u] = maxByteSize[u] /\ msgLen'[u] = msgLen[u]
                                  /\ buffer'[u] = buffer[u] /\ grant'[u] = grant[u]
  <2>1. CASE ~del /\ \E s \in Sends : Deliver(t, s) \/ TooBig(t, s)
    BY <1>1, <1>2, <1>4, <2>1, HandOverEnds
  <2>2. CASE /\ ~del /\ UNCHANGED <<maxByteSize, buffer>>
             /\ msgLen' = [msgLen EXCEPT ![t] = 0] /\ grant' = [grant EXCEPT ![t] = "flush"]
    <3>1. grant'[t] = "flush" /\ msgLen'[t] = 0
      BY <1>1, <2>2 DEF RecvTypeOK
    <3>2. Ended(t)'
      BY <1>3, <1>4, <2>2, <3>1 DEF Ended
    <3>3. QED BY <1>1, <2>2, <3>2 DEF RecvTypeOK
  <2>3. CASE /\ del /\ UNCHANGED <<maxByteSize, buffer, msgLen>>
             /\ grant' = [grant EXCEPT ![t] = "delete"]
    <3>1. grant'[t] = "delete"
      BY <1>1, <2>3 DEF RecvTypeOK
    <3>2. Ended(t)'
      BY <1>3, <1>4, <2>3, <3>1 DEF Ended
    <3>3. QED BY <1>1, <2>3, <3>2 DEF RecvTypeOK
  <2>4. QED BY <2>1, <2>2, <2>3 DEF Wakes, Passes
<1>6. BuffersValid' /\ AllSettled'
  BY <1>1, <1>5, WakeValid DEF Wakes
<1>7. QED BY <1>2, <1>3, <1>6

\* Which calls wake a receiver, and what the others leave alone.
LEMMA CallWakes ==
  ASSUME TypeInv, NEW e \in Events, Finish(e) \/ Again(e) \/ Call(e)
  PROVE  \/ UNCHANGED <<waitVars, recvVars>>
         \/ UNCHANGED queueVars /\ \E t \in Threads, del \in BOOLEAN : Wakes(e, t, del)
<1>1. EventWaitTypeOK /\ CargoOK
  BY TypeOKParts DEF TypeInv
<1>2. HasWaiter(e) => NextWaiter(e) \in Threads
  BY <1>1, NextWaiterType
<1>3. CASE Finish(e)
  <2>1. CASE SendReady(e)
    <3>1. cargo[e] \in Sends /\ SendToWaiter(e, cargo[e]) /\ UNCHANGED queueVars
      BY <1>1, <2>1 DEF SendReady, CargoOK
    <3>2. QED BY <1>2, <3>1 DEF SendToWaiter, Wakes, Passes
  <2>2. CASE BroadcastOne(e)
    <3>1. cargo[e] \in Sends
      BY <1>1, <2>2 DEF BroadcastOne, CargoOK
    <3>2. QED BY <1>2, <2>2, <3>1 DEF BroadcastOne, Wakes, Passes
  <2>3. CASE FlushOne(e)
    BY <1>2, <2>3 DEF FlushOne, Wakes, Passes
  <2>4. CASE DeleteOne(e)
    BY <1>2, <2>4 DEF DeleteOne, Wakes, Passes
  <2>5. CASE LoopEnd(e)
    BY <2>5 DEF LoopEnd
  <2>6. QED BY <1>3, <2>1, <2>2, <2>3, <2>4, <2>5 DEF Finish
<1>4. CASE Again(e)
  BY <1>4 DEF Again, Resend, ResendFails, SendCheck, SendStore
<1>5. CASE Call(e)
  <2>1. CASE \E s \in Sends : SendNested(e, s)
    BY <1>2, <2>1 DEF SendNested, SendToWaiter, Wakes, Passes
  <2>2. QED BY <1>5, <2>1
           DEF Call, SendNew, SendCheck, SendStore, BroadcastBegin, TryReceive, Clear, FlushBegin,
               DeleteBegin
<1>6. QED BY <1>3, <1>4, <1>5

LEMMA CallValid ==
  ASSUME TypeInv, TypeInv', BuffersValid, AllSettled, NEW e \in Events,
         Finish(e) \/ Again(e) \/ Call(e)
  PROVE  BuffersValid' /\ AllSettled'
<1>1. RecvTypeOK'
  BY TypeOKParts DEF TypeInv
<1>2. CASE UNCHANGED <<waitVars, recvVars>>
  BY <1>2, StillValid
<1>3. CASE ~ UNCHANGED <<waitVars, recvVars>>
  BY <1>1, <1>3, CallWakes, WakesValid
<1>4. QED BY <1>2, <1>3

LEMMA AroundValid ==
  ASSUME TypeOK, BuffersValid, AllSettled, NEW t \in Threads,
         Tick(t) \/ Signal(t) \/ HandlerReturn(t)
  PROVE  BuffersValid' /\ AllSettled'
<1>1. /\ EventWaitTypeOK /\ RecvTypeOK /\ ListsDistinct /\ ListsMatch
      /\ WaiterState(t) /\ Settled(t) /\ NULL \notin Events
  BY TypeOKParts, EventWaitAssumption DEF BuffersValid, AllSettled
<1>2. CASE Tick(t)
  <2>1. ThreadTick(t) /\ UNCHANGED recvVars
    BY <1>2 DEF Tick
  <2>2. ListsDistinct' /\ ListsMatch'
    BY <1>1, <2>1, SameLists DEF ThreadTick
  <2>3. /\ status'[t] = {} /\ waitTimeOut'[t] = "OUT" /\ "SEM" \in status[t]
        /\ UNCHANGED <<isEventDelete, peventPtr, schedRet, sigCtl>>
    BY <1>1, <2>1 DEF ThreadTick, EventWaitTypeOK, WaiterState, Settled
  <2>4. WaiterState(t)'
    BY <1>1, <2>1, <2>3 DEF WaiterState, recvVars
  <2>5. Ended(t) => Ended(t)'
    BY <2>1, <2>3 DEF Ended, Refuses, recvVars
  <2>6. Settled(t)'
    BY <1>1, <2>1, <2>3, <2>5 DEF Settled, recvVars
  <2>7. \A u \in Threads \ {t} : Same(u)
    BY <1>1, <2>1 DEF ThreadTick, EventWaitTypeOK, Same, recvVars
  <2>8. QED BY <2>2, <2>4, <2>6, <2>7, SameKeeps
<1>3. CASE Signal(t) /\ "SEM" \in status[t]
  <2>1. PICK sa \in {"EINTR", "RESTART"} : SIGNAL_EN /\ SigBreakWait(t, sa)
    BY <1>3 DEF Signal, Kill, SigNoWait
  <2>2. /\ peventPtr[t] \in Events /\ pc[t] = "blocked" /\ buffer[t] = NULL /\ msgLen[t] = 0
        /\ maxByteSize[t] = want[t].max /\ isEventDelete[t] = "EXIST"
    BY <1>1, <1>3 DEF WaiterState, Settled, EventWaitTypeOK
  <2>3. ListsDistinct' /\ ListsMatch'
    BY <1>1, <2>1, <2>2, UnlinkLists DEF SigBreakWait
  <2>4. /\ status'[t] = {} /\ waitTimeOut'[t] = "CLEAR" /\ peventPtr'[t] = NULL
        /\ UNCHANGED <<isEventDelete, schedRet>>
    BY <1>1, <2>1 DEF SigBreakWait, EventWaitTypeOK, Settled
  <2>5. /\ grant'[t] = "signal"
        /\ UNCHANGED <<pc, pevent, timeOut, want, maxByteSize, msgLen, buffer>>
    BY <1>1, <1>3 DEF Signal, RecvTypeOK
  <2>6. Ended(t)'
    BY <2>2, <2>4, <2>5 DEF Ended
  <2>7. WaiterState(t)'
    BY <2>4 DEF WaiterState
  <2>8. Settled(t)'
    BY <1>1, <2>1, <2>2, <2>4, <2>5, <2>6 DEF Settled
  <2>9. \A u \in Threads \ {t} : Same(u)
    BY <1>1, <1>3, <2>1, <2>5 DEF SigBreakWait, Signal, EventWaitTypeOK, RecvTypeOK, Same
  <2>10. QED BY <2>3, <2>7, <2>8, <2>9, SameKeeps
\* A signal to a thread that does not wait finds it ready.
<1>4. CASE Signal(t) /\ "SEM" \notin status[t]
  <2>1. SigNoWait(t) /\ UNCHANGED recvVars
    BY <1>4 DEF Signal, Kill, SigBreakWait, recvVars
  <2>2. status[t] = {}
    BY <1>1, <1>4 DEF WaiterState, Settled
  <2>3. UNCHANGED waitVars
    BY <1>1, <2>1, <2>2 DEF SigNoWait, IsReady, waitVars, tcbVars, EventWaitTypeOK
  <2>4. QED BY <2>1, <2>3, StillValid
<1>5. CASE HandlerReturn(t)
  <2>1. SIGNAL_EN /\ ~SMP_EN
    BY <1>1, <1>5, MsgQueueAssumption DEF HandlerReturn, SigReturn, Settled
  <2>2. SigReturn(t) /\ UNCHANGED recvVars /\ sigCtl'[t] = "NONE" /\ schedRet'[t] = "NONE"
    BY <1>1, <1>5, <2>1 DEF HandlerReturn, SigReturn, EventWaitTypeOK
  <2>3. ListsDistinct' /\ ListsMatch'
    BY <1>1, <2>2, SameLists DEF SigReturn
  <2>4. WaiterState(t)'
    BY <1>1, <2>2 DEF WaiterState, SigReturn, recvVars
  <2>5. Ended(t) => Ended(t)'
    BY <2>2 DEF Ended, Refuses, SigReturn, recvVars
  <2>6. Settled(t)'
    BY <1>1, <2>2, <2>5 DEF Settled, SigReturn, recvVars
  <2>7. \A u \in Threads \ {t} : Same(u)
    BY <1>1, <2>2 DEF SigReturn, EventWaitTypeOK, Same, recvVars
  <2>8. QED BY <2>3, <2>4, <2>6, <2>7, SameKeeps
<1>6. QED BY <1>2, <1>3, <1>4, <1>5

LEMMA ValidCorrect == Spec => [](TypeInv /\ BuffersValid /\ AllSettled)
<1>1. Init => BuffersValid /\ AllSettled
  <2> SUFFICES ASSUME Init PROVE BuffersValid /\ AllSettled
    OBVIOUS
  <2>1. ListsDistinct /\ ListsMatch
    BY EventWaitAssumption DEF Init, EventWaitInit, ListsDistinct, ListsMatch, IsInjective, Contains
  <2>2. \A t \in Threads : WaiterState(t) /\ Settled(t)
    BY EventWaitAssumption DEF Init, EventWaitInit, WaiterState, Settled
  <2>3. QED BY <2>1, <2>2 DEF BuffersValid, AllSettled
<1>2. TypeInv /\ TypeInv' /\ BuffersValid /\ AllSettled /\ [Next]_vars
        => BuffersValid' /\ AllSettled'
  <2> SUFFICES ASSUME TypeInv, TypeInv', BuffersValid, AllSettled, [Next]_vars
               PROVE  BuffersValid' /\ AllSettled'
    OBVIOUS
  <2>1. CASE UNCHANGED vars
    BY <2>1, StillValid DEF vars
  <2>2. TypeOK
    BY DEF TypeInv
  <2>3. QED BY <2>1, <2>2, ReceiveCallValid, ReceiveValid, CallValid, AroundValid DEF Next
<1>3. QED BY <1>1, <1>2, TypeInvCorrect, PTL DEF Spec

\* A waiting thread is in one queue, once, where its TCB says, inside a receive, and
\* its buffer and size are those of its call, through every order of hand-overs,
\* ticks, signals and deletions (_EventHighLevel.c, MsgQueueReceive.c).
THEOREM BuffersValidCorrect == Spec => []BuffersValid
  BY ValidCorrect, PTL

-----------------------------------------------------------------------------
(* The queue implements the channel.  The state of the channel:            *)

Chan    == [e \in Events |-> Stored(e)]
Asked(t) == [queue |-> pevent[t], max |-> want[t].max, noError |-> want[t].noError]
Asking  == [t \in Threads |-> IF pc[t] = "idle" THEN NULL ELSE Asked(t)]
Passed  == [t \in Threads |-> IF grant[t] = "message" THEN "none" ELSE grant[t]]

LEMMA ChanIs == \A e \in Events : Chan[e] = Kept(e)
  BY DEF Chan, Stored, Kept, Contents

LEMMA ChanSame ==
  ASSUME \A e \in Events : Kept(e)' = Kept(e)
  PROVE  UNCHANGED Chan
<1>1. \A e \in Events : Stored(e)' = Stored(e)
  BY DEF Stored, Kept, Contents
<1>2. QED BY <1>1 DEF Chan

LEMMA ChanBecomes ==
  ASSUME NEW q \in Events, NEW s, Kept(q)' = s, \A e \in Events \ {q} : Kept(e)' = Kept(e)
  PROVE  Chan' = [Chan EXCEPT ![q] = s]
<1>1. Stored(q)' = s /\ \A e \in Events \ {q} : Stored(e)' = Stored(e)
  BY DEF Stored, Kept, Contents
<1>2. QED BY <1>1 DEF Chan

LEMMA AnswerIs ==
  ASSUME RecvTypeOK, NEW t \in Threads, NEW r, NEW m, NEW n, Return(t, r, m, n)
  PROVE  Channel!Answer(t, r, m, n)
<1>1. Asking' = [Asking EXCEPT ![t] = NULL]
  BY DEF Return, RecvTypeOK, Asking, Asked
<1>2. Passed' = [Passed EXCEPT ![t] = "none"]
  BY DEF Return, RecvTypeOK, Passed
<1>3. QED BY <1>1, <1>2 DEF Return, Channel!Answer, Asking, Asked, Passed

\* The state of the channel stands still.
LEMMA Stutters ==
  ASSUME UNCHANGED Chan, UNCHANGED Asking, UNCHANGED Passed, UNCHANGED <<buffer, result>>
  PROVE  UNCHANGED Channel!vars
  BY DEF Channel!vars, Chan, Asking, Asked, Passed

LEMMA SameReceivers ==
  ASSUME UNCHANGED recvVars
  PROVE  UNCHANGED Asking /\ UNCHANGED Passed /\ UNCHANGED <<buffer, result>>
  BY DEF recvVars, Asking, Asked, Passed

LEMMA TakeIs ==
  ASSUME NEW t \in Threads, NEW m, NEW q \in Events, Asking[t] # NULL, Asking[t].queue = q,
         buffer[t] = NULL, Passed[t] = "none", Chan[q] # << >>, m = Head(Chan[q]),
         ~Refuses(t, m, want[t].max), Asking[t] = Asked(t), Size[m] \in Nat, want[t].max \in Nat,
         want[t].noError \in BOOLEAN,
         Channel!Answer(t, "NONE", m, Smaller(want[t].max, Size[m])),
         Chan' = [Chan EXCEPT ![q] = Tail(Chan[q])]
  PROVE  Channel!Next
<1>1. Smaller(want[t].max, Size[m]) = IF Size[m] < want[t].max THEN Size[m] ELSE want[t].max
  BY DEF Smaller
<1>2. Size[m] <= want[t].max \/ want[t].noError
  BY DEF Refuses
<1>3. Asking[t].max = want[t].max /\ Asking[t].noError = want[t].noError
  BY DEF Asked
<1>4. Channel!Fits(t, m) /\ Channel!CutLen(t, m) = Smaller(want[t].max, Size[m])
  BY <1>1, <1>2, <1>3 DEF Channel!Fits, Channel!CutLen, Asking, Asked
<1>5. Channel!Fits(t, Head(Chan[Asking[t].queue]))
      /\ Channel!Answer(t, "NONE", Head(Chan[Asking[t].queue]),
                        Channel!CutLen(t, Head(Chan[Asking[t].queue])))
  BY <1>4 DEF Channel!Answer
<1>6. /\ Chan[Asking[t].queue] # << >>
      /\ Chan' = [Chan EXCEPT ![Asking[t].queue] = Tail(@)]
  OBVIOUS
<1>7. Channel!Take(t)
  BY <1>5, <1>6 DEF Channel!Take, Asking, Asked, Passed, Chan
<1>8. QED BY <1>7 DEF Channel!Next

LEMMA LeaveIs ==
  ASSUME NEW t \in Threads, NEW code \in Codes, Asking[t] # NULL, buffer[t] = NULL,
         code = "NONE" => Passed[t] \in {"flush", "delete", "signal"},
         code = "E2BIG" => \/ Passed[t] = "toobig"
                           \/ /\ Chan[Asking[t].queue] # << >>
                              /\ ~Channel!Fits(t, Head(Chan[Asking[t].queue])),
         code = "WAS_DELETED" => Passed[t] = "delete",
         code = "EINTR" => Passed[t] = "signal",
         Passed[t] = "toobig" => code = "E2BIG",
         Channel!Answer(t, code, NULL, 0), UNCHANGED Chan
  PROVE  Channel!Next
<1>1. Channel!Leave(t, code)
  BY DEF Channel!Leave, Asking, Asked, Passed, Chan
<1>2. QED BY <1>1 DEF Channel!Next, Channel!Codes, Codes

LEMMA CollectIs ==
  ASSUME NEW t \in Threads, Asking[t] # NULL, Asking[t] = Asked(t), buffer[t] # NULL,
         Channel!Answer(t, "NONE", buffer[t], Smaller(Size[buffer[t]], want[t].max)),
         UNCHANGED Chan
  PROVE  Channel!Next
<1>1. Channel!CutLen(t, buffer[t]) = Smaller(Size[buffer[t]], want[t].max)
  BY DEF Channel!CutLen, Asking, Asked, Smaller
<1>2. Channel!Answer(t, "NONE", buffer[t], Channel!CutLen(t, buffer[t]))
  BY <1>1 DEF Channel!Answer
<1>3. Channel!Collect(t)
  BY <1>2 DEF Channel!Collect, Asking, Asked, Chan
<1>4. QED BY <1>3 DEF Channel!Next

LEMMA HandIs ==
  ASSUME NEW t \in Threads, NEW m \in Messages, Asking[t] # NULL, Asking[t] = Asked(t),
         buffer[t] = NULL, Passed[t] = "none", Chan[Asking[t].queue] = << >>,
         ~Refuses(t, m, want[t].max), Size[m] \in Nat, want[t].max \in Nat,
         want[t].noError \in BOOLEAN,
         buffer' = [buffer EXCEPT ![t] = m], UNCHANGED Chan, UNCHANGED Asking, UNCHANGED Passed,
         UNCHANGED result
  PROVE  Channel!Next
<1>1. Channel!Fits(t, m)
  BY DEF Channel!Fits, Asking, Asked, Refuses
<1>2. Channel!Hand(t, m)
  BY <1>1 DEF Channel!Hand, Asking, Asked, Passed, Chan
<1>3. QED BY <1>2 DEF Channel!Next

LEMMA LetThroughIs ==
  ASSUME NEW t \in Threads, NEW why \in {"flush", "delete", "signal", "toobig"},
         Asking[t] # NULL, Asking[t] = Asked(t), buffer[t] = NULL,
         why = "toobig" => \E m \in Messages : Size[m] \in Nat /\ Refuses(t, m, want[t].max),
         want[t].max \in Nat, want[t].noError \in BOOLEAN,
         Passed' = [Passed EXCEPT ![t] = why], UNCHANGED Chan, UNCHANGED Asking,
         UNCHANGED <<buffer, result>>
  PROVE  Channel!Next
<1>1. why = "toobig" => \E m \in Messages : ~Channel!Fits(t, m)
  BY DEF Channel!Fits, Asking, Asked, Refuses
<1>2. Channel!LetThrough(t, why)
  BY <1>1 DEF Channel!LetThrough, Asking, Asked, Passed, Chan
<1>3. QED BY <1>2 DEF Channel!Next, Channel!Reasons

LEMMA PutIs ==
  ASSUME NEW q \in Events, NEW m \in Messages,
         Kept(q)' = Append(Kept(q), m) \/ Kept(q)' = Cons(m, Kept(q)),
         \A e \in Events \ {q} : Kept(e)' = Kept(e), UNCHANGED recvVars
  PROVE  Channel!Next
<1>1. UNCHANGED Asking /\ UNCHANGED Passed /\ UNCHANGED <<buffer, result>>
  BY SameReceivers
<1>2. Chan[q] = Kept(q)
  BY ChanIs
<1>3. CASE Kept(q)' = Append(Kept(q), m)
  <2>1. PICK s : s = Append(Kept(q), m)
    OBVIOUS
  <2>2. Chan' = [Chan EXCEPT ![q] = s]
    BY <1>3, <2>1, ChanBecomes
  <2>3. Chan' = [Chan EXCEPT ![q] = Append(@, m)]
    BY <1>2, <2>1, <2>2
  <2>4. Channel!Put(q, m)
    BY <1>1, <2>3 DEF Channel!Put, Asking, Asked, Passed, Chan
  <2>5. QED BY <2>4 DEF Channel!Next
<1>4. CASE Kept(q)' = Cons(m, Kept(q))
  <2>1. PICK s : s = Cons(m, Kept(q))
    OBVIOUS
  <2>2. Chan' = [Chan EXCEPT ![q] = s]
    BY <1>4, <2>1, ChanBecomes
  <2>3. Chan' = [Chan EXCEPT ![q] = Cons(m, @)]
    BY <1>2, <2>1, <2>2
  <2>4. Channel!PutUrgent(q, m)
    BY <1>1, <2>3 DEF Channel!PutUrgent, Channel!Cons, Cons, Asking, Asked, Passed, Chan
  <2>5. QED BY <2>4 DEF Channel!Next
<1>5. QED BY <1>3, <1>4

LEMMA DropIs ==
  ASSUME NEW q \in Events, Kept(q) # << >>, Kept(q)' = Tail(Kept(q)) \/ Kept(q)' = << >>,
         \A e \in Events \ {q} : Kept(e)' = Kept(e), UNCHANGED recvVars
  PROVE  Channel!Next
<1>1. UNCHANGED Asking /\ UNCHANGED Passed /\ UNCHANGED <<buffer, result>>
  BY SameReceivers
<1>2. Chan[q] = Kept(q)
  BY ChanIs
<1>3. PICK s \in {Tail(Kept(q)), << >>} : s = Kept(q)'
  OBVIOUS
<1>4. Chan' = [Chan EXCEPT ![q] = s]
  BY <1>3, ChanBecomes
<1>5. s \in {Tail(Chan[q]), << >>} /\ Chan[q] # << >>
  BY <1>2, <1>3
<1>6. Channel!Drop(q)
  BY <1>1, <1>4, <1>5 DEF Channel!Drop, Asking, Asked, Passed, Chan
<1>7. QED BY <1>6 DEF Channel!Next

LEMMA AskingIs ==
  ASSUME TypeInv, AllSettled, NEW t \in Threads, pc[t] # "idle"
  PROVE  /\ Asking[t] = Asked(t) /\ Asking[t] # NULL /\ Asking[t].queue = pevent[t]
         /\ want[t].max \in Nat \ {0} /\ want[t].noError \in BOOLEAN
<1>1. want[t] \in Receives /\ pevent[t] \in Events
  BY TypeOKParts DEF TypeInv, AllSettled, Settled, RecvTypeOK
<1>2. want[t].max \in Nat \ {0} /\ want[t].noError \in BOOLEAN
  BY <1>1, MsgQueueAssumption
<1>3. Asked(t) \in [queue : Events, max : Nat, noError : BOOLEAN]
  BY <1>1, <1>2 DEF Asked
<1>4. Asking[t] = Asked(t)
  BY DEF Asking
<1>5. QED BY <1>2, <1>3, <1>4, MsgQueueAssumption DEF Asked

LEMMA InitIs == Init => Channel!Init
<1> SUFFICES ASSUME Init PROVE Channel!Init
  OBVIOUS
<1>1. \A e \in Events : Stored(e) = << >>
  BY DEF Init, Stored
<1>2. Chan = [e \in Events |-> << >>]
  BY <1>1 DEF Chan
<1>3. Asking = [t \in Threads |-> NULL] /\ Passed = [t \in Threads |-> "none"]
  BY DEF Init, Asking, Passed
<1>4. QED BY <1>2, <1>3 DEF Init, Channel!Init, Chan, Asking, Asked, Passed

LEMMA CallIs ==
  ASSUME RecvTypeOK, NEW t \in Threads, NEW e \in Events, NEW w, NEW r \in Receives,
         ReceiveCall(t, e, w, r)
  PROVE  Channel!Next
<1> DEFINE n == r.max
           b == r.noError
<1>1. n \in {x.max : x \in Receives} /\ b \in BOOLEAN
  BY MsgQueueAssumption
<1>2. Asking[t] = NULL
  BY DEF ReceiveCall, Asking
<1>3. pc'[t] = "wait_again" /\ pevent'[t] = e /\ want'[t] = r
  BY DEF ReceiveCall, RecvTypeOK
<1>4. Asking'[t] = [queue |-> e, max |-> n, noError |-> b]
  BY <1>3 DEF Asking, Asked
<1>5. \A u \in Threads \ {t} : Asking'[u] = Asking[u]
  BY DEF ReceiveCall, RecvTypeOK, Asking, Asked
<1> HIDE DEF n, b
<1>6. Asking' = [Asking EXCEPT ![t] = [queue |-> e, max |-> n, noError |-> b]]
  BY <1>4, <1>5 DEF Asking
<1>7. UNCHANGED <<Passed, buffer>> /\ result' = [result EXCEPT ![t] = NoResult]
  BY DEF ReceiveCall, Passed
<1>8. UNCHANGED Chan
  BY DEF ReceiveCall, queueVars, Chan, Stored
<1>9. Channel!Ask(t, e, n, b)
  BY <1>2, <1>6, <1>7, <1>8
     DEF Channel!Ask, Channel!NoResult, NoResult, Chan, Asking, Asked, Passed
<1>10. QED BY <1>1, <1>9 DEF Channel!Next

\* The call of a thread whose wait another party has ended.
LEMMA DoneIs ==
  ASSUME TypeInv, AllSettled, NEW t \in Threads, pc[t] \notin {"idle", "wait_again"},
         peventPtr[t] = NULL, ReceiveDone(t), UNCHANGED Chan
  PROVE  Channel!Next
<1>1. RecvTypeOK /\ Ended(t)
  BY TypeOKParts DEF TypeInv, AllSettled, Settled
<1>2. /\ Asking[t] = Asked(t) /\ Asking[t] # NULL
      /\ want[t].max \in Nat \ {0} /\ want[t].noError \in BOOLEAN
  BY AskingIs
<1>3. CASE grant[t] = "message"
  <2>1. PICK m \in Messages : m = buffer[t]
    BY <1>1, <1>3 DEF Ended
  <2>2. Size[m] \in Nat \ {0} /\ m # NULL
    BY MsgQueueAssumption
  <2>3. msgLen[t] = Smaller(Size[m], want[t].max) /\ maxByteSize[t] # 0
    BY <1>1, <1>2, <1>3, <2>1 DEF Ended
  <2>4. PICK n : n = Smaller(Size[m], want[t].max)
    OBVIOUS
  <2>5. Return(t, "NONE", m, n)
    BY <2>1, <2>3, <2>4 DEF ReceiveDone
  <2>6. Channel!Answer(t, "NONE", m, n)
    BY <1>1, <2>5, AnswerIs
  <2>7. Channel!Answer(t, "NONE", buffer[t], Smaller(Size[buffer[t]], want[t].max))
    BY <2>1, <2>4, <2>6 DEF Channel!Answer
  <2>8. QED BY <1>2, <2>1, <2>2, <2>7, CollectIs
<1>4. CASE grant[t] = "toobig"
  <2>1. buffer[t] = NULL /\ Passed[t] = "toobig" /\ Return(t, "E2BIG", NULL, 0)
    BY <1>1, <1>4 DEF Ended, Passed, ReceiveDone, Fail
  <2>2. Channel!Answer(t, "E2BIG", NULL, 0)
    BY <1>1, <2>1, AnswerIs
  <2>3. QED BY <1>2, <2>1, <2>2, LeaveIs DEF Codes
<1>5. CASE grant[t] \in {"flush", "delete", "signal"}
  <2>1. buffer[t] = NULL /\ Passed[t] = grant[t] /\ Return(t, "NONE", NULL, 0)
    BY <1>1, <1>2, <1>5 DEF Ended, Passed, ReceiveDone
  <2>2. Channel!Answer(t, "NONE", NULL, 0)
    BY <1>1, <2>1, AnswerIs
  <2>3. QED BY <1>2, <1>5, <2>1, <2>2, LeaveIs DEF Codes
<1>6. QED BY <1>1, <1>3, <1>4, <1>5 DEF Ended

\* A step inside a receive that the channel does not see.
LEMMA InsideIs ==
  ASSUME RecvTypeOK, NEW t \in Threads, NEW l \in {"blocked", "awake", "timeout"}, pc[t] # "idle",
         pc' = [pc EXCEPT ![t] = l], UNCHANGED <<pevent, want, buffer, result, grant>>,
         UNCHANGED Chan
  PROVE  UNCHANGED Channel!vars
<1>1. \A u \in Threads : Asking'[u] = Asking[u]
  BY DEF RecvTypeOK, Asking, Asked
<1>2. UNCHANGED Asking
  BY <1>1 DEF Asking
<1>3. UNCHANGED Passed
  BY DEF Passed
<1>4. QED BY <1>2, <1>3, Stutters

\* A receive that fails.
LEMMA FailIs ==
  ASSUME TypeInv, AllSettled, NEW t \in Threads, pc[t] # "idle", grant[t] = "none",
         buffer[t] = NULL, NEW r \in Codes \ {"NONE", "WAS_DELETED", "EINTR"}, Fail(t, r),
         r = "E2BIG" => \E m : /\ Chan[Asking[t].queue] # << >>
                               /\ m = Head(Chan[Asking[t].queue])
                               /\ Size[m] \in Nat /\ Refuses(t, m, want[t].max),
         UNCHANGED Chan
  PROVE  Channel!Next
<1>1. RecvTypeOK
  BY TypeOKParts DEF TypeInv
<1>2. /\ Asking[t] = Asked(t) /\ Asking[t] # NULL
      /\ want[t].max \in Nat \ {0} /\ want[t].noError \in BOOLEAN
  BY AskingIs
<1>3. Channel!Answer(t, r, NULL, 0)
  BY <1>1, AnswerIs DEF Fail
<1>4. Passed[t] = "none"
  BY DEF Passed
<1>5. \A m : Size[m] \in Nat /\ Refuses(t, m, want[t].max) => ~Channel!Fits(t, m)
  BY <1>2 DEF Channel!Fits, Asking, Asked, Refuses
<1>6. r = "E2BIG" => /\ Chan[Asking[t].queue] # << >>
                     /\ ~Channel!Fits(t, Head(Chan[Asking[t].queue]))
  BY <1>5
<1>7. QED BY <1>2, <1>3, <1>4, <1>6, LeaveIs

LEMMA EnterIs ==
  ASSUME TypeInv, BuffersValid, AllSettled, NEW t \in Threads, ReceiveEnter(t)
  PROVE  Channel!Next \/ UNCHANGED Channel!vars
<1>1. RecvTypeOK /\ QueueTypeOK /\ RingsOK /\ pc[t] = "wait_again"
  BY TypeOKParts DEF TypeInv, ReceiveEnter
<1>2. PICK q \in Events : q = pevent[t]
  BY <1>1 DEF RecvTypeOK
<1>3. /\ Asking[t] = Asked(t) /\ Asking[t] # NULL /\ Asking[t].queue = q
      /\ want[t].max \in Nat \ {0} /\ want[t].noError \in BOOLEAN
  BY <1>1, <1>2, AskingIs
<1>4. grant[t] = "none" /\ buffer[t] = NULL /\ Passed[t] = "none"
  BY <1>1 DEF AllSettled, Settled, Passed
<1>5. UNCHANGED queueVars => UNCHANGED Chan
  BY DEF queueVars, Chan, Stored
<1>6. Chan[q] = Kept(q)
  BY ChanIs
<1>7. counter[q] > 0 => /\ HeadMsg(q) \in Messages /\ Kept(q) # << >>
                        /\ Head(Kept(q)) = HeadMsg(q)
  BY <1>1, HeadMsgIs
<1>8. CASE ReceiveTypeError(t, q) \/ ReceiveNotWait(t, q)
  BY <1>1, <1>4, <1>5, <1>8, FailIs DEF ReceiveTypeError, ReceiveNotWait, Codes
<1>9. CASE ReceiveTooBig(t, q)
  <2>1. PICK m \in Messages : m = HeadMsg(q)
    BY <1>7, <1>9 DEF ReceiveTooBig
  <2>2. /\ Chan[Asking[t].queue] # << >> /\ m = Head(Chan[Asking[t].queue])
        /\ Size[m] \in Nat /\ Refuses(t, m, want[t].max)
    BY <1>3, <1>6, <1>7, <1>9, <2>1, MsgQueueAssumption DEF ReceiveTooBig
  <2>3. Fail(t, "E2BIG") /\ UNCHANGED Chan
    BY <1>5, <1>9 DEF ReceiveTooBig
  <2>4. QED BY <1>1, <1>4, <2>2, <2>3, FailIs DEF Codes
<1>10. CASE ReceiveTake(t, q)
  <2>1. PICK m \in Messages : m = HeadMsg(q)
    BY <1>7, <1>10 DEF ReceiveTake
  <2>2. PICK n : n = Smaller(want[t].max, Size[m])
    OBVIOUS
  <2>3. Return(t, "NONE", m, n) /\ ~Refuses(t, m, want[t].max) /\ GetMsg(q) /\ counter[q] > 0
    BY <1>10, <2>1, <2>2 DEF ReceiveTake
  <2>4. Channel!Answer(t, "NONE", m, n)
    BY <1>1, <2>3, AnswerIs
  <2>5. Channel!Answer(t, "NONE", m, Smaller(want[t].max, Size[m]))
    BY <2>2, <2>4 DEF Channel!Answer
  <2>6. PICK s : s = Tail(Kept(q))
    OBVIOUS
  <2>7. Kept(q)' = s /\ \A e \in Events \ {q} : Kept(e)' = Kept(e)
    BY <1>1, <2>3, <2>6, GetMsgRing
  <2>8. Chan' = [Chan EXCEPT ![q] = s]
    BY <2>7, ChanBecomes
  <2>9. Chan' = [Chan EXCEPT ![q] = Tail(Chan[q])] /\ Chan[q] # << >> /\ m = Head(Chan[q])
    BY <1>6, <1>7, <2>1, <2>3, <2>6, <2>8
  <2>10. Size[m] \in Nat
    BY MsgQueueAssumption
  <2>11. QED BY <1>3, <1>4, <2>3, <2>5, <2>9, <2>10, TakeIs
<1>11. CASE ReceiveBlock(t, q)
  <2>1. /\ pc' = [pc EXCEPT ![t] = "blocked"] /\ UNCHANGED <<pevent, want, buffer, result, grant>>
        /\ UNCHANGED Chan
    BY <1>5, <1>11 DEF ReceiveBlock
  <2>2. QED BY <1>1, <2>1, InsideIs
<1>12. QED BY <1>2, <1>8, <1>9, <1>10, <1>11 DEF ReceiveEnter

\* The channel sees a receive end, and nothing of what it does before.
LEMMA ReceiveIs ==
  ASSUME TypeInv, BuffersValid, AllSettled, NEW t \in Threads, ReceiveStep(t)
  PROVE  Channel!Next \/ UNCHANGED Channel!vars
<1>1. TypeOK /\ RecvTypeOK
  BY TypeOKParts DEF TypeInv
<1>2. CpuFree(t)
  BY DEF ReceiveStep, ReceiveEnter, ReceiveResume, ReceiveTestTimeOut, ReceiveTimeOut
<1>3. /\ WaiterState(t) /\ Settled(t) /\ schedRet[t] = "NONE"
      /\ peventPtr[t] = NULL => waitTimeOut[t] = "CLEAR"
      /\ peventPtr[t] # NULL => waitTimeOut[t] = "OUT"
  BY <1>1, <1>2, RunningThread
<1>4. CASE ReceiveEnter(t)
  BY <1>4, EnterIs
<1>5. CASE ~ReceiveEnter(t)
  <2>1. /\ pc[t] \in {"blocked", "awake", "timeout"} /\ UNCHANGED queueVars
        /\ pc[t] \notin {"idle", "wait_again"}
    BY <1>5 DEF ReceiveStep, ReceiveResume, ReceiveTestTimeOut, ReceiveTimeOut
  <2>2. UNCHANGED Chan
    BY <2>1 DEF queueVars, Chan, Stored
  <2>3. ASSUME NEW l \in {"awake", "timeout"}, Goto(t, l) PROVE UNCHANGED Channel!vars
    BY <1>1, <2>1, <2>2, <2>3, InsideIs DEF Goto
  <2>4. CASE ReceiveDone(t) /\ waitTimeOut[t] = "CLEAR"
    BY <1>3, <2>1, <2>2, <2>4, DoneIs
  <2>5. CASE ReceiveResume(t)
    BY <1>3, <2>3, <2>5
       DEF ReceiveResume, ReceiveAwake, ReceiveInterrupted, Interrupted, ReceiveRestart
  <2>6. CASE ReceiveTestTimeOut(t)
    <3>1. CASE Fail(t, "WAS_DELETED") /\ waitTimeOut[t] # "OUT" /\ isEventDelete[t] = "DELETE"
      <4>1. grant[t] = "delete" /\ buffer[t] = NULL /\ Passed[t] = "delete"
        BY <1>3, <2>1, <3>1 DEF Settled, Ended, Passed
      <4>2. Channel!Answer(t, "WAS_DELETED", NULL, 0) /\ Asking[t] # NULL
        BY <1>1, <2>1, <3>1, AnswerIs, AskingIs DEF Fail
      <4>3. QED BY <2>2, <4>1, <4>2, LeaveIs DEF Codes
    <3>2. QED BY <1>3, <2>3, <2>4, <2>6, <3>1 DEF ReceiveTestTimeOut
  <2>7. CASE ReceiveTimeOut(t)
    <3>1. CASE Fail(t, "WAIT_TIMEOUT") /\ waitTimeOut[t] # "CLEAR"
      <4>1. grant[t] = "none" /\ buffer[t] = NULL
        BY <1>3, <3>1 DEF WaiterState
      <4>2. QED BY <2>1, <2>2, <3>1, <4>1, FailIs DEF Codes
    <3>2. QED BY <2>4, <2>7, <3>1 DEF ReceiveTimeOut
  <2>8. QED BY <1>5, <2>5, <2>6, <2>7 DEF ReceiveStep
<1>6. QED BY <1>4, <1>5

\* A call that wakes a receiver hands it a message, or lets it through.
LEMMA WakesIs ==
  ASSUME TypeInv, RecvTypeOK', BuffersValid, AllSettled, NoIdleMessage, UNCHANGED queueVars,
         NEW e \in Events, NEW t \in Threads, NEW del \in BOOLEAN, Wakes(e, t, del)
  PROVE  Channel!Next
<1>1. RecvTypeOK /\ QueueTypeOK
  BY TypeOKParts DEF TypeInv
<1>2. peventPtr[t] = e /\ pevent[t] = e /\ WaiterState(t) /\ Settled(t) /\ NULL \notin Events
  BY WakesValid, EventWaitAssumption
<1>3. /\ pc[t] # "idle" /\ grant[t] = "none" /\ buffer[t] = NULL /\ Passed[t] = "none"
      /\ maxByteSize[t] = want[t].max
  BY <1>2 DEF WaiterState, Passed
<1>4. /\ Asking[t] = Asked(t) /\ Asking[t] # NULL /\ Asking[t].queue = e
      /\ want[t].max \in Nat \ {0} /\ want[t].noError \in BOOLEAN
  BY <1>2, <1>3, AskingIs
<1>5. UNCHANGED Chan
  BY DEF queueVars, Chan, Stored
<1>6. UNCHANGED Asking /\ UNCHANGED result
  BY DEF Wakes, Asking, Asked
<1>7. Chan[e] = << >>
  <2>1. counter[e] = 0
    BY <1>1, MsgQueueAssumption DEF NoIdleMessage, Wakes, QueueTypeOK
  <2>2. QED BY <2>1 DEF Chan, Stored
<1>8. ASSUME NEW g \in {"flush", "delete", "toobig"}, grant' = [grant EXCEPT ![t] = g],
             UNCHANGED buffer,
             g = "toobig" => \E m \in Messages : Refuses(t, m, want[t].max)
      PROVE  Channel!Next
  <2>1. \A u \in Threads : Passed'[u] = IF u = t THEN g ELSE Passed[u]
    BY <1>1, <1>8 DEF RecvTypeOK, Passed
  <2>2. Passed' = [Passed EXCEPT ![t] = g]
    BY <2>1 DEF Passed
  <2>3. g = "toobig" => \E m \in Messages : Size[m] \in Nat /\ Refuses(t, m, want[t].max)
    BY <1>8, MsgQueueAssumption
  <2>4. QED BY <1>3, <1>4, <1>5, <1>6, <1>8, <2>2, <2>3, LetThroughIs
<1>9. ASSUME NEW s \in Sends, Deliver(t, s) PROVE Channel!Next
  <2>1. PICK m \in Messages : m = s.msg
    BY DEF Sends
  <2>2. buffer' = [buffer EXCEPT ![t] = m] /\ ~Refuses(t, m, want[t].max)
    BY <1>3, <1>9, <2>1 DEF Deliver
  <2>3. \A u \in Threads : Passed'[u] = Passed[u]
    BY <1>1, <1>3, <1>9 DEF Deliver, RecvTypeOK, Passed
  <2>4. UNCHANGED Passed
    BY <2>3 DEF Passed
  <2>5. Size[m] \in Nat
    BY MsgQueueAssumption
  <2>6. QED BY <1>3, <1>4, <1>5, <1>6, <1>7, <2>2, <2>4, <2>5, HandIs
<1>10. ASSUME NEW s \in Sends, TooBig(t, s) PROVE Channel!Next
  <2>1. \E m \in Messages : Refuses(t, m, want[t].max)
    BY <1>3, <1>10 DEF TooBig, Sends
  <2>2. QED BY <1>8, <1>10, <2>1 DEF TooBig
<1>11. QED BY <1>8, <1>9, <1>10 DEF Wakes, Passes

\* A message is stored.
LEMMA StoreIs ==
  ASSUME TypeInv, NEW e \in Events, NEW s \in Sends, SendStore(e, s)
  PROVE  Channel!Next
<1>1. QueueTypeOK /\ RingsOK
  BY TypeOKParts DEF TypeInv
<1>2. PICK m \in Messages : m = s.msg
  BY DEF Sends
<1>3. counter[e] < MaxCounter /\ (SendMsgUrgent(e, m) \/ SendMsg(e, m)) /\ UNCHANGED recvVars
  BY <1>2 DEF SendStore
<1>4. CASE SendMsg(e, m)
  BY <1>1, <1>3, <1>4, SendMsgRing, PutIs
<1>5. CASE SendMsgUrgent(e, m)
  BY <1>1, <1>3, <1>5, SendMsgUrgentRing, PutIs
<1>6. QED BY <1>3, <1>4, <1>5

\* What the channel does not see of the calls.
LEMMA QuietIs ==
  ASSUME UNCHANGED <<counter, slots, outputPtr, recvVars>>
  PROVE  UNCHANGED Channel!vars
<1>1. UNCHANGED Chan
  BY DEF Chan, Stored
<1>2. UNCHANGED Asking /\ UNCHANGED Passed /\ UNCHANGED <<buffer, result>>
  BY SameReceivers
<1>3. QED BY <1>1, <1>2, Stutters

LEMMA QueueCallIs ==
  ASSUME TypeInv, RecvTypeOK', BuffersValid, AllSettled, NoIdleMessage, NEW e \in Events,
         Finish(e) \/ Again(e) \/ Call(e)
  PROVE  Channel!Next \/ UNCHANGED Channel!vars
<1>1. QueueTypeOK /\ RingsOK /\ CallTypeOK /\ counter[e] \in Nat
  BY TypeOKParts, MsgQueueAssumption DEF TypeInv, QueueTypeOK
<1>2. CASE UNCHANGED queueVars /\ \E t \in Threads, del \in BOOLEAN : Wakes(e, t, del)
  BY <1>2, WakesIs
<1>3. CASE UNCHANGED <<waitVars, recvVars>>
  <2>1. CASE \E s \in Sends : SendStore(e, s)
    BY <2>1, StoreIs
  <2>2. CASE TryReceive(e)
    <3>1. /\ Kept(e) # << >> /\ Kept(e)' = Tail(Kept(e))
          /\ \A f \in Events \ {e} : Kept(f)' = Kept(f)
      BY <1>1, <2>2, HeadMsgIs, GetMsgRing DEF TryReceive
    <3>2. QED BY <1>3, <3>1, DropIs
  <2>3. CASE Clear(e)
    <3>1. Kept(e)' = << >> /\ \A f \in Events \ {e} : Kept(f)' = Kept(f)
      BY <1>1, <2>3, ClearRing
    <3>2. CASE Kept(e) # << >>
      BY <1>3, <3>1, <3>2, DropIs
    <3>3. CASE Kept(e) = << >>
      <4>1. UNCHANGED Chan
        BY <3>1, <3>3, ChanSame
      <4>2. QED BY <1>3, <4>1, SameReceivers, Stutters
    <3>4. QED BY <3>2, <3>3
  <2>4. CASE UNCHANGED <<counter, slots, outputPtr>>
    BY <1>3, <2>4, QuietIs
  <2>5. CASE Finish(e)
    BY <2>4, <2>5 DEF Finish, SendReady, BroadcastOne, FlushOne, DeleteOne, LoopEnd, queueVars
  <2>6. CASE Again(e)
    <3>1. PICK i \in 1..Len(retry[e]) : Resend(e, i) \/ ResendFails(e, i)
      BY <2>6 DEF Again
    <3>2. retry[e][i] \in Sends
      BY <1>1, <3>1 DEF CallTypeOK
    <3>3. QED BY <2>1, <2>4, <3>1, <3>2 DEF Resend, ResendFails, SendCheck, queueVars
  <2>7. CASE Call(e)
    BY <2>1, <2>2, <2>3, <2>4, <2>7
       DEF Call, SendNew, SendCheck, SendNested, BroadcastBegin, FlushBegin, DeleteBegin, queueVars
  <2>8. QED BY <2>5, <2>6, <2>7
<1>4. QED BY <1>2, <1>3, CallWakes

\* Of the kernel around the queue the channel sees a signal that breaks a wait.
LEMMA AroundIs ==
  ASSUME TypeInv, BuffersValid, AllSettled, NEW t \in Threads,
         Tick(t) \/ Signal(t) \/ HandlerReturn(t)
  PROVE  Channel!Next \/ UNCHANGED Channel!vars
<1>1. EventWaitTypeOK /\ RecvTypeOK /\ WaiterState(t) /\ Settled(t)
  BY TypeOKParts DEF TypeInv, BuffersValid, AllSettled
<1>2. CASE Signal(t) /\ "SEM" \in status[t]
  <2>1. pc[t] # "idle" /\ buffer[t] = NULL
    BY <1>1, <1>2 DEF WaiterState
  <2>2. /\ Asking[t] = Asked(t) /\ Asking[t] # NULL
        /\ want[t].max \in Nat \ {0} /\ want[t].noError \in BOOLEAN
    BY <2>1, AskingIs
  <2>3. /\ grant' = [grant EXCEPT ![t] = "signal"]
        /\ UNCHANGED <<queueVars, pc, pevent, want, buffer, result>>
    BY <1>2 DEF Signal
  <2>4. UNCHANGED Chan /\ UNCHANGED Asking
    BY <2>3 DEF queueVars, Chan, Stored, Asking, Asked
  <2>5. \A u \in Threads : Passed'[u] = IF u = t THEN "signal" ELSE Passed[u]
    BY <1>1, <2>3 DEF RecvTypeOK, Passed
  <2>6. Passed' = [Passed EXCEPT ![t] = "signal"]
    BY <2>5 DEF Passed
  <2>7. QED BY <2>1, <2>2, <2>3, <2>4, <2>6, LetThroughIs
<1>3. CASE ~(Signal(t) /\ "SEM" \in status[t])
  BY <1>3, QuietIs DEF Tick, Signal, HandlerReturn, queueVars, recvVars
<1>4. QED BY <1>2, <1>3

\* A message queue behaves as the channel promises, for any number of threads, queues,
\* slots and messages: every step of MsgQueue*.c is a step of the channel or one that
\* the channel does not see.  What a sender hands to a waiting thread is what this
\* thread's call returns, even if it was timing out just then.
THEOREM ChannelCorrect == Spec => ImplementsChannel
<1>1. TypeInv /\ TypeInv' /\ BuffersValid /\ AllSettled /\ NoIdleMessage /\ [Next]_vars
        => [Channel!Next]_(Channel!vars)
  <2> SUFFICES ASSUME TypeInv, TypeInv', BuffersValid, AllSettled, NoIdleMessage, [Next]_vars
               PROVE  Channel!Next \/ UNCHANGED Channel!vars
    OBVIOUS
  <2>1. RecvTypeOK /\ RecvTypeOK'
    BY TypeOKParts DEF TypeInv
  <2>2. CASE UNCHANGED vars
    BY <2>2, QuietIs DEF vars, queueVars
  <2>3. QED BY <2>1, <2>2, CallIs, ReceiveIs, QueueCallIs, AroundIs DEF Next
<1>2. QED BY <1>1, InitIs, ValidCorrect, NoIdleMessageCorrect, PTL
         DEF Spec, ImplementsChannel, Channel!Spec
=============================================================================
