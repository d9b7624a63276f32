--------------------------- MODULE LibraryProofs ---------------------------
(* Theorems about the kernel's containers and what is built on them, for      *)
(* queues of any length and any number of threads: first what each operation  *)
(* of the circular queue of module Deque does to the contents.                *)
EXTENDS Pipe, ReadyList, Factory, TimerHandlers, SequenceTheorems, FiniteSetTheorems,
        WellFoundedInduction, TLAPS

LEMMA DequeShape ==
  ASSUME NEW V, NEW d, WellFormed(d, V)
  PROVE  /\ d.room \in Nat /\ Capacity(d) \in Nat /\ d.begin \in Nat /\ d.end \in Nat
         /\ d.begin <= Capacity(d) /\ d.end <= Capacity(d)
         /\ d.room = 0 => Capacity(d) = 0 /\ d.begin = 0 /\ d.end = 0
         /\ d.room # 0 => d.room >= 2 /\ Capacity(d) = d.room - 1
         /\ Size(d) \in 0..Capacity(d)
  BY DEF WellFormed, Capacity, Size

LEMMA DequeSlot ==
  ASSUME NEW V, NEW d, WellFormed(d, V), NEW k \in 1..Size(d)
  PROVE  /\ Wrap(d.begin + k - 1, d.room) \in 0..(d.room - 1)
         /\ Contents(d)[k] = d.store[Wrap(d.begin + k - 1, d.room)]
         /\ Contents(d)[k] \in V
<1>1. d.room # 0
  BY DequeShape
<1>2. Wrap(d.begin + k - 1, d.room) \in 0..(d.room - 1)
  BY <1>1, DequeShape DEF Wrap
<1> QED
  BY <1>2 DEF Contents, WellFormed

LEMMA DequeContents ==
  ASSUME NEW V, NEW d, WellFormed(d, V)
  PROVE  Contents(d) \in Seq(V) /\ Len(Contents(d)) = Size(d) /\ DOMAIN Contents(d) = 1..Size(d)
<1>1. Size(d) \in Nat
  BY DequeShape
<1>2. \A k \in 1..Size(d) : d.store[Wrap(d.begin + k - 1, d.room)] \in V
  BY DequeSlot
<1>3. Contents(d) \in [1..Size(d) -> V]
  BY <1>2 DEF Contents
<1> QED
  BY <1>1, <1>3, SeqDef, LenProperties

LEMMA DequeNew ==
  ASSUME NEW V
  PROVE  WellFormed(NewDeque, V) /\ Size(NewDeque) = 0 /\ Contents(NewDeque) = <<>>
<1>1. Size(NewDeque) = 0 /\ Capacity(NewDeque) = 0
  BY DEF NewDeque, Size, Capacity
<1>2. <<>> \in [0..(0 - 1) -> V \cup {Blank}]
  <2>1. 0..(0 - 1) = {}
    OBVIOUS
  <2> QED
    BY <2>1
<1>3. WellFormed(NewDeque, V)
  BY <1>1, <1>2 DEF WellFormed, NewDeque
<1>4. Contents(NewDeque) \in Seq(V) /\ Len(Contents(NewDeque)) = 0
  BY <1>1, <1>3, DequeContents
<1> QED
  BY <1>1, <1>3, <1>4, EmptySeq

(* front() and pop_front() of a queue that is not empty.                      *)
LEMMA DequePop ==
  ASSUME NEW V, NEW d, WellFormed(d, V), Size(d) > 0
  PROVE  /\ WellFormed(PopFront(d), V)
         /\ Size(PopFront(d)) = Size(d) - 1 /\ Capacity(PopFront(d)) = Capacity(d)
         /\ Contents(PopFront(d)) = Tail(Contents(d))
         /\ Foremost(d) = Head(Contents(d)) /\ Foremost(d) \in V
         /\ Contents(d) # <<>>
<1> DEFINE e == PopFront(d)
           b == Wrap(d.begin + 1, d.room)
<1>1. d.room # 0 /\ d.room \in Nat /\ d.begin \in 0..(d.room - 1) /\ d.end \in 0..(d.room - 1)
  BY DequeShape
<1>2. b \in 0..(d.room - 1)
  BY <1>1 DEF Wrap
<1>3. e = [store |-> d.store, room |-> d.room, begin |-> b, end |-> d.end]
  BY DEF PopFront, WellFormed
<1>4. e.store = d.store /\ e.room = d.room /\ e.begin = b /\ e.end = d.end
  BY <1>3
<1>5. Size(e) = Size(d) - 1
  BY <1>1, <1>4 DEF Size, Wrap
<1>6. Size(d) \in Nat /\ Capacity(e) = Capacity(d) /\ Capacity(d) = d.room - 1
  BY <1>1, <1>4, DequeShape DEF Capacity
<1>7. ASSUME NEW k \in 1..Size(e)
      PROVE  /\ k + 1 \in 1..Size(d)
             /\ e.store[Wrap(e.begin + k - 1, e.room)] = Contents(d)[k + 1]
  <2>1. k + 1 \in 1..Size(d) /\ k <= d.room - 1 /\ k \in Nat /\ k >= 1
    BY <1>1, <1>5, <1>6, DequeShape
  <2>2. Wrap(b + k - 1, d.room) = Wrap(d.begin + (k + 1) - 1, d.room)
    BY <1>1, <2>1 DEF Wrap
  <2> QED
    BY <1>4, <2>1, <2>2, DequeSlot
<1>8. Contents(d) \in Seq(V) /\ Len(Contents(d)) = Size(d)
  BY DequeContents
<1>9. \A k \in 1..Size(e) : Contents(e)[k] = Contents(d)[k + 1] /\ Contents(e)[k] \in V
  BY <1>7, <1>8, ElementOfSeq DEF Contents
<1>10. WellFormed(e, V)
  <2> HIDE DEF b
  <2> QED
    BY <1>1, <1>2, <1>3, <1>4, <1>6, <1>9 DEF WellFormed
<1>11. Contents(d) # <<>> /\ Tail(Contents(d)) \in Seq(V) /\ Len(Tail(Contents(d))) = Size(d) - 1
       /\ (\A i \in 1..(Size(d) - 1) : Tail(Contents(d))[i] = Contents(d)[i + 1])
       /\ Head(Contents(d)) = Contents(d)[1]
  BY <1>6, <1>8, HeadTailProperties, EmptySeq
<1>12. Contents(e) = Tail(Contents(d))
  <2>1. Contents(e) \in Seq(V) /\ Len(Contents(e)) = Size(e)
    BY <1>10, DequeContents
  <2> QED
    BY <1>5, <1>9, <1>11, <2>1, SeqEqual
<1>13. Foremost(d) = Contents(d)[1] /\ Contents(d)[1] \in V
  <2>1. 1 \in 1..Size(d) /\ Wrap(d.begin + 1 - 1, d.room) = d.begin
    BY <1>1, <1>6 DEF Wrap
  <2> QED
    BY <2>1, DequeSlot DEF Foremost
<1> QED
  BY <1>5, <1>6, <1>10, <1>11, <1>12, <1>13

(* The three inversions rotate the storage.                                   *)
LEMMA DequeTurned ==
  ASSUME NEW V, NEW d, WellFormed(d, V), d.begin # 0
  PROVE  LET n == Normalize(d) IN
         /\ n = [store |-> n.store, room |-> d.room, begin |-> 0, end |-> d.room - 1]
         /\ n.store \in [0..(d.room - 1) -> V \cup {Blank}]
         /\ \A i \in 0..(d.room - 1) : n.store[i] = d.store[Wrap(d.begin + i, d.room)]
<1> DEFINE r == d.room
           b == d.begin
           s1 == Inverted(d.store, 0, b - 1)
           s2 == Inverted(s1, b, r - 1)
           s3 == Inverted(s2, 0, r - 1)
<1>1. r \in Nat /\ r >= 2 /\ b \in 1..(r - 1)
  BY DequeShape
<1>2. d.store \in [0..(r - 1) -> V \cup {Blank}]
  BY DEF WellFormed
<1> HIDE DEF r, b
<1>3. /\ DOMAIN s1 = 0..(r - 1)
      /\ \A i \in 0..(r - 1) : s1[i] = IF i < b THEN d.store[b - 1 - i] ELSE d.store[i]
  BY <1>1, <1>2 DEF Inverted
<1> HIDE DEF s1
<1>4. /\ DOMAIN s2 = 0..(r - 1)
      /\ \A i \in 0..(r - 1) : s2[i] = IF i < b THEN s1[i] ELSE s1[b + (r - 1) - i]
  BY <1>1, <1>3 DEF Inverted
<1> HIDE DEF s2
<1>5. /\ DOMAIN s3 = 0..(r - 1)
      /\ \A i \in 0..(r - 1) : s3[i] = s2[r - 1 - i]
  BY <1>1, <1>4 DEF Inverted
<1>6. ASSUME NEW i \in 0..(r - 1)
      PROVE  s3[i] = d.store[Wrap(b + i, r)] /\ Wrap(b + i, r) \in 0..(r - 1)
  <2>1. r - 1 - i \in 0..(r - 1)
    BY <1>1
  <2>2. CASE r - 1 - i < b
    <3>1. s3[i] = d.store[b - 1 - (r - 1 - i)]
      BY <1>3, <1>4, <1>5, <2>1, <2>2
    <3>2. b - 1 - (r - 1 - i) = Wrap(b + i, r) /\ Wrap(b + i, r) \in 0..(r - 1)
      BY <1>1, <2>2 DEF Wrap
    <3> QED
      BY <3>1, <3>2
  <2>3. CASE ~(r - 1 - i < b)
    <3>1. b + (r - 1) - (r - 1 - i) = b + i /\ b + i \in 0..(r - 1) /\ ~(b + i < b)
      BY <1>1, <2>3
    <3>2. s3[i] = d.store[b + i]
      BY <1>3, <1>4, <1>5, <2>1, <2>3, <3>1
    <3>3. Wrap(b + i, r) = b + i
      BY <1>1, <3>1 DEF Wrap
    <3> QED
      BY <3>1, <3>2, <3>3
  <2> QED
    BY <2>2, <2>3
<1>7. s3 \in [0..(r - 1) -> V \cup {Blank}]
  <2>1. s3 = [i \in 0..(r - 1) |-> s3[i]]
    BY <1>4 DEF Inverted
  <2> QED
    BY <1>2, <1>6, <2>1
<1>8. Normalize(d) = [store |-> s3, room |-> r, begin |-> 0, end |-> r - 1]
  BY DEF Normalize, s1, s2, r, b
<1> HIDE DEF s3
<1> QED
  BY <1>6, <1>7, <1>8 DEF r, b

LEMMA ResizedSlots ==
  ASSUME NEW d, NEW m \in Nat
  PROVE  LET r == Resized(d, m) IN
         /\ r.room = m /\ r.begin = d.begin /\ r.end = d.end /\ DOMAIN r.store = 0..(m - 1)
         /\ \A i \in 0..(m - 1) : r.store[i] = IF i < d.room THEN d.store[i] ELSE Blank
         /\ r = [store |-> r.store, room |-> r.room, begin |-> r.begin, end |-> r.end]
         /\ r.store = [i \in 0..(m - 1) |-> r.store[i]]
  BY DEF Resized

(* A full queue that is turned keeps its contents.                            *)
LEMMA DequeNormal ==
  ASSUME NEW V, NEW d, WellFormed(d, V), Size(d) = Capacity(d), d.begin # 0
  PROVE  LET n == Normalize(d) IN
         /\ WellFormed(n, V) /\ n.room = d.room /\ n.begin = 0
         /\ Size(n) = Size(d) /\ Capacity(n) = Capacity(d)
         /\ Contents(n) = Contents(d)
<1> DEFINE n == Normalize(d)
           r == d.room
<1>1. /\ n = [store |-> n.store, room |-> d.room, begin |-> 0, end |-> d.room - 1]
      /\ n.store \in [0..(d.room - 1) -> V \cup {Blank}]
      /\ \A i \in 0..(d.room - 1) : n.store[i] = d.store[Wrap(d.begin + i, d.room)]
  BY DequeTurned
<1> HIDE DEF n
<1>2. n.room = r /\ n.begin = 0 /\ n.end = r - 1
      /\ n = [store |-> n.store, room |-> n.room, begin |-> n.begin, end |-> n.end]
  BY <1>1
<1>3. r \in Nat \ {0, 1} /\ d.begin \in Nat /\ Capacity(d) = r - 1 /\ Size(d) = r - 1
  BY DequeShape
<1>4. Size(n) = r - 1 /\ Capacity(n) = r - 1
  BY <1>2, <1>3 DEF Size, Capacity
<1>5. ASSUME NEW k \in 1..(r - 1)
      PROVE  n.store[Wrap(n.begin + k - 1, n.room)] = Contents(d)[k]
  <2>1. k - 1 \in 0..(r - 1) /\ Wrap(n.begin + k - 1, n.room) = k - 1 /\ d.begin + (k - 1) = d.begin + k - 1
    BY <1>2, <1>3 DEF Wrap
  <2>2. n.store[k - 1] = d.store[Wrap(d.begin + k - 1, d.room)]
    BY <1>1, <2>1
  <2> QED
    BY <1>3, <2>1, <2>2, DequeSlot
<1>6. Contents(d) \in Seq(V) /\ Len(Contents(d)) = r - 1
  BY <1>3, DequeContents
<1>7. \A k \in 1..(r - 1) : Contents(n)[k] = Contents(d)[k] /\ Contents(n)[k] \in V
  BY <1>4, <1>5, <1>6, ElementOfSeq DEF Contents
<1>8. WellFormed(n, V)
  <2>1. n.room \in Nat \ {1} /\ n.begin \in 0..Capacity(n) /\ n.end \in 0..Capacity(n)
        /\ n.store \in [0..(n.room - 1) -> V \cup {Blank}]
    BY <1>1, <1>2, <1>3, <1>4
  <2> QED
    BY <1>2, <1>4, <1>7, <2>1 DEF WellFormed
<1>9. Contents(n) = Contents(d)
  <2>1. Contents(n) \in Seq(V) /\ Len(Contents(n)) = r - 1
    BY <1>4, <1>8, DequeContents
  <2> QED
    BY <1>6, <1>7, <2>1, SeqEqual
<1> QED
  BY <1>2, <1>3, <1>4, <1>8, <1>9 DEF n, r

(* One that starts at slot 0 grows by its resize alone.                       *)
LEMMA ResizedIsGrown ==
  ASSUME NEW d, d.begin = 0
  PROVE  Resized(d, Capacity(d) + 2) = Grown(d)
  BY DEF Grown, Normalize

(* A full queue that grows keeps its contents and gets one slot more.         *)
LEMMA DequeGrown ==
  ASSUME NEW V, NEW d, WellFormed(d, V), Size(d) = Capacity(d)
  PROVE  LET g == Grown(d) IN
         /\ WellFormed(g, V) /\ g.room = Capacity(d) + 2 /\ g.begin = 0 /\ g.end = Capacity(d)
         /\ Size(g) = Size(d) /\ Capacity(g) = Capacity(d) + 1
         /\ Contents(g) = Contents(d)
<1> DEFINE n == Normalize(d)
           g == Grown(d)
           c == Capacity(d)
<1>1. /\ n.room = d.room /\ n.begin = 0 /\ n.end = c
      /\ n.store \in [0..(d.room - 1) -> V \cup {Blank}]
      /\ \A i \in 0..(d.room - 1) : n.store[i] = d.store[Wrap(d.begin + i, d.room)]
  <2>1. CASE d.begin = 0
    <3>1. n = d
      BY <2>1 DEF Normalize
    <3>2. d.end = c
      BY <2>1, DequeShape DEF Size
    <3>3. \A i \in 0..(d.room - 1) : Wrap(d.begin + i, d.room) = i
      BY <2>1, DequeShape DEF Wrap
    <3> QED
      BY <2>1, <3>1, <3>2, <3>3 DEF WellFormed
  <2>2. CASE d.begin # 0
    <3>1. c = d.room - 1
      BY <2>2, DequeShape
    <3>2. n.room = d.room /\ n.begin = 0 /\ n.end = d.room - 1
      BY <2>2, DequeTurned
    <3> QED
      BY <2>2, <3>1, <3>2, DequeTurned
  <2> QED
    BY <2>1, <2>2
<1> HIDE DEF n
<1>2. /\ c \in Nat /\ d.room \in Nat
      /\ (d.room = 0 => c = 0) /\ (d.room # 0 => c = d.room - 1) /\ d.begin \in 0..c
  BY DequeShape
<1> HIDE DEF c
<1>3. g = Resized(n, c + 2) /\ c + 2 \in Nat
  BY <1>2 DEF Grown, n, c
<1> HIDE DEF g
<1>4. g.room = c + 2 /\ g.begin = 0 /\ g.end = c /\ DOMAIN g.store = 0..(c + 1)
      /\ (\A i \in 0..(c + 1) : g.store[i] = IF i < d.room THEN n.store[i] ELSE Blank)
      /\ g = [store |-> g.store, room |-> g.room, begin |-> g.begin, end |-> g.end]
      /\ g.store = [i \in 0..(c + 1) |-> g.store[i]]
  <2>1. (c + 2) - 1 = c + 1
    BY <1>2
  <2> QED
    BY <1>1, <1>3, <2>1, ResizedSlots
<1>5. g.store \in [0..(g.room - 1) -> V \cup {Blank}]
  <2>1. \A i \in 0..(c + 1) : g.store[i] \in V \cup {Blank}
    BY <1>1, <1>2, <1>4
  <2>2. g.room - 1 = c + 1
    BY <1>2, <1>4
  <2> QED
    BY <1>4, <2>1, <2>2
<1>6. Size(g) = c /\ Capacity(g) = c + 1
  BY <1>2, <1>4 DEF Size, Capacity
<1>7. ASSUME NEW k \in 1..c
      PROVE  g.store[Wrap(g.begin + k - 1, g.room)] = Contents(d)[k]
  <2>1. k - 1 \in 0..(d.room - 1) /\ k - 1 < d.room /\ k - 1 \in 0..(c + 1) /\ d.room # 0
    BY <1>2
  <2>2. Wrap(g.begin + k - 1, g.room) = k - 1
    BY <1>2, <1>4, <2>1 DEF Wrap
  <2>3. d.begin + (k - 1) = d.begin + k - 1
    BY <1>2
  <2>4. Contents(d)[k] = d.store[Wrap(d.begin + k - 1, d.room)]
    BY DequeSlot DEF c
  <2> QED
    BY <1>1, <1>4, <2>1, <2>2, <2>3, <2>4
<1>8. Contents(d) \in Seq(V) /\ Len(Contents(d)) = c
  BY DequeContents DEF c
<1>9. \A k \in 1..c : Contents(g)[k] = Contents(d)[k] /\ Contents(g)[k] \in V
  BY <1>6, <1>7, <1>8, ElementOfSeq DEF Contents
<1>10. WellFormed(g, V)
  BY <1>2, <1>4, <1>5, <1>6, <1>9 DEF WellFormed
<1>11. Contents(g) = Contents(d)
  <2>1. Contents(g) \in Seq(V) /\ Len(Contents(g)) = c
    BY <1>6, <1>10, DequeContents
  <2> QED
    BY <1>8, <1>9, <2>1, SeqEqual
<1> QED
  BY <1>4, <1>6, <1>10, <1>11 DEF g, c

(* Storing behind the last element, and moving the end.                       *)
LEMMA DequeStore ==
  ASSUME NEW V, NEW d, WellFormed(d, V), Size(d) < Capacity(d), NEW v \in V
  PROVE  LET s == Stored(d, v) IN
         /\ WellFormed(s, V) /\ Size(s) = Size(d) /\ Capacity(s) = Capacity(d)
         /\ s.begin = d.begin /\ s.end = d.end /\ s.room = d.room
         /\ s.store[s.end] = v
         /\ Contents(s) = Contents(d)
<1> DEFINE s == Stored(d, v)
<1>1. d.room \in Nat /\ d.room >= 2 /\ d.begin \in 0..(d.room - 1) /\ d.end \in 0..(d.room - 1)
      /\ Capacity(d) = d.room - 1
  BY DequeShape
<1>2. d.store \in [0..(d.room - 1) -> V \cup {Blank}]
  BY DEF WellFormed
<1>3. s = [store |-> [d.store EXCEPT ![d.end] = v], room |-> d.room, begin |-> d.begin, end |-> d.end]
  <2>1. d = [store |-> d.store, room |-> d.room, begin |-> d.begin, end |-> d.end]
    BY DEF WellFormed
  <2>2. s = [d EXCEPT !.store = [d.store EXCEPT ![d.end] = v]]
    BY DEF Stored
  <2> QED
    BY <2>1, <2>2
<1>4. s.begin = d.begin /\ s.end = d.end /\ s.room = d.room /\ s.store = [d.store EXCEPT ![d.end] = v]
      /\ s = [store |-> s.store, room |-> s.room, begin |-> s.begin, end |-> s.end]
  BY <1>3
<1> HIDE DEF s
<1>5. s.store \in [0..(d.room - 1) -> V \cup {Blank}] /\ s.store[d.end] = v
      /\ \A i \in 0..(d.room - 1) : i # d.end => s.store[i] = d.store[i]
  BY <1>1, <1>2, <1>4
<1>6. Size(s) = Size(d) /\ Capacity(s) = Capacity(d) /\ Size(d) \in Nat
  BY <1>4, DequeShape DEF Size, Capacity
<1>7. ASSUME NEW k \in 1..Size(d)
      PROVE  Wrap(d.begin + k - 1, d.room) # d.end
  BY <1>1, <1>7 DEF Wrap, Size
<1>8. \A k \in 1..Size(s) : Contents(s)[k] = Contents(d)[k] /\ Contents(s)[k] \in V
  BY <1>4, <1>5, <1>6, <1>7, DequeSlot DEF Contents
<1>9. WellFormed(s, V)
  BY <1>1, <1>4, <1>5, <1>6, <1>8 DEF WellFormed
<1>10. Contents(s) = Contents(d)
  <2>1. /\ Contents(s) \in Seq(V) /\ Len(Contents(s)) = Size(d)
        /\ Contents(d) \in Seq(V) /\ Len(Contents(d)) = Size(d)
    BY <1>6, <1>9, DequeContents
  <2> QED
    BY <1>6, <1>8, <2>1, SeqEqual
<1> QED
  BY <1>4, <1>5, <1>6, <1>9, <1>10 DEF s

LEMMA DequeExtend ==
  ASSUME NEW V, NEW d, WellFormed(d, V), Size(d) < Capacity(d), d.store[d.end] \in V
  PROVE  LET e == [d EXCEPT !.end = NextEnd(d)] IN
         /\ WellFormed(e, V) /\ Size(e) = Size(d) + 1 /\ Capacity(e) = Capacity(d)
         /\ Contents(e) = Append(Contents(d), d.store[d.end])
<1> DEFINE e == [d EXCEPT !.end = NextEnd(d)]
           n == NextEnd(d)
<1>1. d.room \in Nat /\ d.room >= 2 /\ d.begin \in 0..(d.room - 1) /\ d.end \in 0..(d.room - 1)
      /\ Capacity(d) = d.room - 1
  BY DequeShape
<1>2. n \in 0..(d.room - 1)
  BY <1>1 DEF NextEnd, Wrap
<1>3. e = [store |-> d.store, room |-> d.room, begin |-> d.begin, end |-> n]
  BY DEF WellFormed
<1>4. e.store = d.store /\ e.room = d.room /\ e.begin = d.begin /\ e.end = n
      /\ e = [store |-> e.store, room |-> e.room, begin |-> e.begin, end |-> e.end]
  BY <1>3
<1>5. Size(e) = Size(d) + 1 /\ Capacity(e) = Capacity(d) /\ Size(d) \in Nat
  BY <1>1, <1>4, DequeShape DEF Size, Capacity, NextEnd, Wrap
<1> HIDE DEF e, n
<1>6. Contents(d) \in Seq(V) /\ Len(Contents(d)) = Size(d)
  BY DequeContents
<1>7. Wrap(d.begin + (Size(d) + 1) - 1, d.room) = d.end
  BY <1>1 DEF Wrap, Size
<1>8. /\ Append(Contents(d), d.store[d.end]) \in Seq(V)
      /\ Len(Append(Contents(d), d.store[d.end])) = Size(d) + 1
      /\ \A i \in 1..Size(d) : Append(Contents(d), d.store[d.end])[i] = Contents(d)[i]
      /\ Append(Contents(d), d.store[d.end])[Size(d) + 1] = d.store[d.end]
  BY <1>6, AppendProperties
<1>9. ASSUME NEW k \in 1..Size(e)
      PROVE  Contents(e)[k] = Append(Contents(d), d.store[d.end])[k] /\ Contents(e)[k] \in V
  <2>1. Contents(e)[k] = d.store[Wrap(d.begin + k - 1, d.room)]
    BY <1>4 DEF Contents
  <2>2. CASE k \in 1..Size(d)
    BY <1>8, <2>1, <2>2, DequeSlot
  <2>3. CASE k = Size(d) + 1
    BY <1>7, <1>8, <2>1, <2>3
  <2>4. k \in 1..Size(d) \/ k = Size(d) + 1
    BY <1>5
  <2> QED
    BY <2>2, <2>3, <2>4
<1>10. WellFormed(e, V)
  <2>1. d.store \in [0..(d.room - 1) -> V \cup {Blank}]
    BY DEF WellFormed
  <2> QED
    BY <1>1, <1>2, <1>4, <1>5, <1>9, <2>1 DEF WellFormed
<1>11. Contents(e) = Append(Contents(d), d.store[d.end])
  <2>1. Contents(e) \in Seq(V) /\ Len(Contents(e)) = Size(d) + 1
    BY <1>5, <1>10, DequeContents
  <2> QED
    BY <1>5, <1>8, <1>9, <2>1, SeqEqual
<1> QED
  BY <1>5, <1>10, <1>11 DEF e

(* push_back appends, whatever the indexes and whether the storage grows.     *)
THEOREM DequePush ==
  ASSUME NEW V, NEW d, WellFormed(d, V), NEW v \in V
  PROVE  /\ WellFormed(PushBack(d, v), V)
         /\ Size(PushBack(d, v)) = Size(d) + 1
         /\ Capacity(PushBack(d, v)) \in {Capacity(d), Capacity(d) + 1} \ {0}
         /\ Contents(PushBack(d, v)) = Append(Contents(d), v)
<1> DEFINE g == IF Size(d) = Capacity(d) THEN Grown(d) ELSE d
           s == Stored(g, v)
           e == [s EXCEPT !.end = NextEnd(s)]
<1>1. /\ WellFormed(g, V) /\ Size(g) < Capacity(g) /\ Size(g) = Size(d) /\ Contents(g) = Contents(d)
      /\ Capacity(g) \in {Capacity(d), Capacity(d) + 1} \ {0}
  <2>1. Size(d) \in Nat /\ Capacity(d) \in Nat /\ Size(d) <= Capacity(d)
    BY DequeShape
  <2>2. CASE Size(d) = Capacity(d)
    BY <2>1, <2>2, DequeGrown
  <2>3. CASE Size(d) # Capacity(d)
    BY <2>1, <2>3
  <2> QED
    BY <2>2, <2>3
<1>2. PushBack(d, v) = [s EXCEPT !.end = NextEnd(g)]
  BY DEF PushBack
<1> HIDE DEF g
<1>3. WellFormed(s, V) /\ Size(s) < Capacity(s) /\ s.store[s.end] = v /\ NextEnd(s) = NextEnd(g)
      /\ Size(s) = Size(d) /\ Contents(s) = Contents(d) /\ Capacity(s) = Capacity(g)
  BY <1>1, DequeStore DEF NextEnd
<1> HIDE DEF s
<1>4. /\ WellFormed(e, V) /\ Size(e) = Size(s) + 1
      /\ Capacity(e) = Capacity(s) /\ Contents(e) = Append(Contents(s), v)
  BY <1>3, DequeExtend
<1> QED
  BY <1>1, <1>2, <1>3, <1>4

-----------------------------------------------------------------------------
(* The ready list. Whatever the interrupts do, the queue keeps its shape.     *)
OsIds == OsThreads \cup {Blank}

ListShaped ==
    /\ WellFormed(list, OsIds) /\ list.room # 0
    /\ index \in 0..Capacity(list)
    /\ {pushed, following, current} \subseteq OsIds /\ asleep \subseteq OsIds
    /\ rstep \in {"idle", "pop", "test", "turn", "invert", "widen", "move", "resize", "store",
                  "read", "write"}
    /\ rstep = "invert" => list.begin # 0
    /\ rstep \in {"widen", "move", "resize"} => list.begin = 0

(* ... and its storage lies inside the block of the vector, which is as long  *)
(* as cap_ says except while the new block is being filled.                   *)
Housed ==
    /\ cap \in Nat /\ block \in Nat
    /\ list.room <= block
    /\ rstep # "move" => cap = block
    /\ rstep \in {"move", "resize"} => Capacity(list) + 2 <= cap

(* While no interrupt has struck: the threads that are on their way from one  *)
(* place to another, by the place of the operation.                           *)
Pushing == rstep \in {"test", "turn", "invert", "widen", "move", "resize", "store", "read", "write"}
Elsewhere ==
    asleep \cup {current} \cup (IF Pushing THEN {pushed, following} ELSE {})

EachOnce ==
    /\ WellFormed(list, OsThreads)
    /\ IsInjective(Contents(list))
    /\ \A t \in OsThreads : t \in Elsewhere <=> t \notin ToSet(Contents(list))

PlacesApart ==
    /\ current \in OsThreads \ asleep
    /\ Pushing => pushed \in OsThreads \ asleep
    /\ Pushing /\ following # Blank => pushed = current /\ following \in OsThreads \ (asleep \cup {current})
    /\ Pushing /\ following = Blank => pushed # current
    /\ rstep = "idle" => following = Blank

StepsInOrder ==
    /\ rstep = "pop" => /\ Size(list) > 0 /\ index = list.begin
                        /\ following = Foremost(list) /\ pushed \in {current, Blank}
    /\ rstep \in {"turn", "invert", "widen", "move", "resize"} => Size(list) = Capacity(list)
    /\ rstep \in {"store", "read", "write"} => Size(list) < Capacity(list)
    /\ rstep \in {"read", "write"} => list.store[list.end] = pushed
    /\ rstep = "write" => index = list.end

ReadyInductive ==
    /\ exposed => struck
    /\ ~exposed => ListShaped /\ Housed
    /\ ~struck => EachOnce /\ PlacesApart /\ StepsInOrder

(* Any two indexes into a storage that holds nothing but S and blanks.        *)
LEMMA ShapeSuffices ==
  ASSUME NEW S, Blank \in S, NEW d, d.room \in Nat \ {0, 1}, d.store \in [0..(d.room - 1) -> S],
         d = [store |-> d.store, room |-> d.room, begin |-> d.begin, end |-> d.end],
         d.begin \in 0..(d.room - 1), d.end \in 0..(d.room - 1)
  PROVE  WellFormed(d, S) /\ Capacity(d) = d.room - 1
<1>1. Capacity(d) = d.room - 1 /\ Size(d) \in Nat /\ Size(d) <= d.room - 1
  BY DEF Capacity, Size
<1>2. ASSUME NEW k \in 1..Size(d) PROVE Contents(d)[k] \in S
  <2>1. Wrap(d.begin + k - 1, d.room) \in 0..(d.room - 1)
    BY <1>1 DEF Wrap
  <2> QED
    BY <2>1 DEF Contents
<1>3. S \cup {Blank} = S
  OBVIOUS
<1> QED
  BY <1>1, <1>2, <1>3 DEF WellFormed

(* What a shaped list is made of.                                             *)
LEMMA ListParts ==
  ASSUME ListShaped
  PROVE  /\ Blank \in OsIds /\ list.room \in Nat \ {0, 1} /\ Capacity(list) = list.room - 1
         /\ list.store \in [0..(list.room - 1) -> OsIds]
         /\ list = [store |-> list.store, room |-> list.room, begin |-> list.begin, end |-> list.end]
         /\ list.begin \in 0..(list.room - 1) /\ list.end \in 0..(list.room - 1)
         /\ index \in 0..(list.room - 1) /\ Wrap(index + 1, list.room) \in 0..(list.room - 1)
<1>1. Blank \in OsIds /\ OsIds \cup {Blank} = OsIds
  BY DEF OsIds
<1>2. list.room \in Nat \ {0, 1} /\ Capacity(list) = list.room - 1 /\ index \in 0..(list.room - 1)
  BY DEF ListShaped, WellFormed, Capacity
<1>3. Wrap(index + 1, list.room) \in 0..(list.room - 1)
  BY <1>2 DEF Wrap
<1> QED
  BY <1>1, <1>2, <1>3 DEF ListShaped, WellFormed

(* Turning a queue that an interrupt may have changed keeps its shape.        *)
LEMMA ShapeTurned ==
  ASSUME NEW S, Blank \in S, NEW d, WellFormed(d, S), d.begin # 0
  PROVE  LET n == Normalize(d) IN
         WellFormed(n, S) /\ n.room = d.room /\ n.begin = 0 /\ Capacity(n) = Capacity(d)
<1> DEFINE n == Normalize(d)
<1>1. /\ n = [store |-> n.store, room |-> d.room, begin |-> 0, end |-> d.room - 1]
      /\ n.store \in [0..(d.room - 1) -> S \cup {Blank}]
  BY DequeTurned
<1>2. d.room \in Nat \ {0, 1} /\ Capacity(d) = d.room - 1 /\ S \cup {Blank} = S
  BY DequeShape
<1> HIDE DEF n
<1>3. n.room = d.room /\ n.begin = 0 /\ n.end = d.room - 1
      /\ n = [store |-> n.store, room |-> n.room, begin |-> n.begin, end |-> n.end]
  BY <1>1
<1>4. n.begin \in 0..(n.room - 1) /\ n.end \in 0..(n.room - 1) /\ n.store \in [0..(n.room - 1) -> S]
      /\ n.room \in Nat \ {0, 1}
  BY <1>1, <1>2, <1>3
<1>5. WellFormed(n, S) /\ Capacity(n) = n.room - 1
  BY <1>3, <1>4, ShapeSuffices
<1> QED
  BY <1>2, <1>3, <1>5 DEF n

(* Growing a queue that an interrupt may have changed keeps its shape.        *)
LEMMA ShapeGrown ==
  ASSUME NEW S, Blank \in S, NEW d, WellFormed(d, S), d.room # 0
  PROVE  WellFormed(Grown(d), S) /\ Grown(d).room # 0 /\ Capacity(Grown(d)) = Capacity(d) + 1
<1> DEFINE n == Normalize(d)
           g == Grown(d)
<1>1. d.room \in Nat /\ d.room >= 2 /\ Capacity(d) = d.room - 1 /\ S \cup {Blank} = S
      /\ d.begin \in 0..(d.room - 1) /\ d.end \in 0..(d.room - 1)
  BY DequeShape
<1>2. /\ n.room = d.room /\ n.begin = 0 /\ n.end \in 0..(d.room - 1)
      /\ n.store \in [0..(d.room - 1) -> S]
  <2>1. CASE d.begin = 0
    BY <1>1, <2>1 DEF Normalize, WellFormed
  <2>2. CASE d.begin # 0
    <3>1. n.room = d.room /\ n.begin = 0 /\ n.end = d.room - 1
      BY <2>2, DequeTurned
    <3>2. n.store \in [0..(d.room - 1) -> S \cup {Blank}]
      BY <2>2, DequeTurned
    <3> QED
      BY <1>1, <3>1, <3>2
  <2> QED
    BY <2>1, <2>2
<1> DEFINE r == d.room
<1>3. g = Resized(n, r + 1) /\ r + 1 \in Nat /\ (r + 1) - 1 = r /\ r \in Nat
  <2>1. Capacity(d) + 2 = d.room + 1
    BY <1>1
  <2> QED
    BY <1>1, <2>1 DEF Grown
<1> HIDE DEF n, g, r
<1>4. /\ g.room = r + 1 /\ g.begin = 0 /\ g.end = n.end /\ DOMAIN g.store = 0..r
      /\ \A i \in 0..r : g.store[i] = IF i < r THEN n.store[i] ELSE Blank
      /\ g = [store |-> g.store, room |-> g.room, begin |-> g.begin, end |-> g.end]
      /\ g.store = [i \in 0..r |-> g.store[i]]
  <2>1. n.room = r /\ n.begin = 0
    BY <1>2 DEF r
  <2> QED
    BY <1>3, <2>1, ResizedSlots
<1>5. g.store \in [0..(g.room - 1) -> S]
  <2>1. \A i \in 0..r : i < r => i \in 0..(r - 1)
    BY <1>3
  <2>2. n.store \in [0..(r - 1) -> S]
    BY <1>2 DEF r
  <2>3. \A i \in 0..r : g.store[i] \in S
    BY <1>4, <2>1, <2>2
  <2>4. g.room - 1 = r
    BY <1>3, <1>4
  <2> QED
    BY <1>4, <2>3, <2>4
<1>6. g.room \in Nat \ {0, 1} /\ g.begin \in 0..(g.room - 1) /\ g.end \in 0..(g.room - 1)
  BY <1>1, <1>2, <1>4 DEF r
<1>7. WellFormed(g, S) /\ Capacity(g) = g.room - 1
  BY <1>4, <1>5, <1>6, ShapeSuffices
<1> QED
  BY <1>1, <1>4, <1>6, <1>7 DEF g, r

(* The queue keeps its shape whatever comes between.                          *)
LEMMA ListShapedStep ==
  ASSUME ListShaped, [ReadyNext]_readyVars, ~exposed'
  PROVE  ListShaped'
<1> DEFINE D == 0..(list.room - 1)
<1>1. /\ Blank \in OsIds /\ list.room \in Nat \ {0, 1} /\ Capacity(list) = list.room - 1
      /\ list.store \in [0..(list.room - 1) -> OsIds]
      /\ list = [store |-> list.store, room |-> list.room, begin |-> list.begin, end |-> list.end]
      /\ list.begin \in 0..(list.room - 1) /\ list.end \in 0..(list.room - 1)
      /\ index \in 0..(list.room - 1) /\ Wrap(index + 1, list.room) \in 0..(list.room - 1)
  BY ListParts
<1>2. /\ WellFormed(list, OsIds) /\ {pushed, following, current} \subseteq OsIds /\ asleep \subseteq OsIds
      /\ rstep \in {"idle", "pop", "test", "turn", "invert", "widen", "move", "resize", "store",
                    "read", "write"}
  BY DEF ListShaped
<1>3. CASE Switch
  <2>1. Foremost(list) \in OsIds
    BY <1>2, <1>3, DequePop DEF Switch
  <2> QED
    BY <1>1, <1>2, <1>3, <2>1 DEF Switch, ListShaped
<1>4. ASSUME NEW b \in D, NEW e \in D, list' = [list EXCEPT !.begin = b, !.end = e],
             index' \in D, {pushed', following', current'} \subseteq OsIds, asleep' \subseteq OsIds,
             rstep' \in {"idle", "pop", "test", "turn", "store", "read", "write"}
      PROVE  ListShaped'
  <2>1. list' = [store |-> list.store, room |-> list.room, begin |-> b, end |-> e]
    BY <1>1, <1>4
  <2>2. list'.store = list.store /\ list'.room = list.room /\ list'.begin = b /\ list'.end = e
    BY <2>1
  <2>3. WellFormed(list', OsIds) /\ Capacity(list') = list'.room - 1
    <3>1. list' = [store |-> list'.store, room |-> list'.room, begin |-> list'.begin, end |-> list'.end]
      BY <2>1, <2>2
    <3> QED
      BY <1>1, <2>2, <3>1, ShapeSuffices
  <2> QED
    BY <1>1, <1>4, <2>2, <2>3 DEF ListShaped
<1>5. CASE WriteBegin
  <2>1. list' = [list EXCEPT !.begin = Wrap(index + 1, list.room), !.end = list.end]
    BY <1>1, <1>5 DEF WriteBegin
  <2>2. {pushed', following', current'} \subseteq OsIds /\ asleep' \subseteq OsIds /\ index' = index
        /\ rstep' \in {"idle", "test"}
    BY <1>1, <1>2, <1>5 DEF WriteBegin
  <2> QED
    BY <1>1, <1>4, <2>1, <2>2
<1>6. CASE WriteEnd
  <2>1. list' = [list EXCEPT !.begin = list.begin, !.end = Wrap(index + 1, list.room)]
    BY <1>1, <1>6 DEF WriteEnd
  <2>2. {pushed', following', current'} \subseteq OsIds /\ asleep' \subseteq OsIds /\ index' = index
        /\ rstep' = "idle"
    BY <1>1, <1>2, <1>6 DEF WriteEnd
  <2> QED
    BY <1>1, <1>4, <2>1, <2>2
<1>7. CASE TestRoom \/ ReadEnd
  BY <1>1, <1>2, <1>7 DEF TestRoom, ReadEnd, ListShaped
<1>8. CASE Turn \/ Widen \/ Move
  <2>1. list' = list /\ index' \in {index, list.begin} /\ pushed' = pushed /\ following' = following
        /\ current' = current /\ asleep' = asleep
        /\ (rstep' = "invert" => list.begin # 0)
        /\ (rstep' \in {"widen", "move", "resize"} => list.begin = 0)
        /\ rstep' \in Growing
    <3>1. CASE Turn
      BY <3>1 DEF Turn, Growing
    <3>2. CASE Widen \/ Move
      BY <3>2 DEF Widen, Move, Growing, ListShaped
    <3> QED
      BY <1>8, <3>1, <3>2
  <2> QED
    BY <1>1, <1>2, <2>1 DEF ListShaped, Growing
<1>13. CASE Invert
  <2>1. WellFormed(list', OsIds) /\ list'.room = list.room /\ list'.begin = 0
        /\ Capacity(list') = Capacity(list)
    BY <1>1, <1>2, <1>13, ShapeTurned DEF Invert, ListShaped
  <2>2. index' = index /\ pushed' = pushed /\ following' = following /\ current' = current
        /\ asleep' = asleep /\ rstep' = "widen"
    BY <1>13 DEF Invert
  <2> QED
    BY <1>1, <1>2, <2>1, <2>2 DEF ListShaped, Growing
<1>14. CASE Resize
  <2>1. list.begin = 0
    BY <1>14 DEF Resize, ListShaped
  <2>2. WellFormed(Grown(list), OsIds) /\ Grown(list).room # 0 /\ Capacity(Grown(list)) = Capacity(list) + 1
    BY <1>1, <1>2, ShapeGrown
  <2>3. index \in 0..Capacity(Grown(list))
    BY <1>1, <2>2
  <2>4. list' = Grown(list)
    BY <1>14, <2>1, ResizedIsGrown DEF Resize
  <2>5. index' = index /\ pushed' = pushed /\ following' = following /\ current' = current
        /\ asleep' = asleep /\ rstep' = "store"
    BY <1>14 DEF Resize
  <2> QED
    BY <1>2, <2>2, <2>3, <2>4, <2>5 DEF ListShaped, Growing
<1>9. CASE Store
  <2> DEFINE s == [list.store EXCEPT ![list.end] = pushed]
  <2>1. list' = [store |-> s, room |-> list.room, begin |-> list.begin, end |-> list.end]
    <3>1. list' = [list EXCEPT !.store = s]
      BY <1>9 DEF Store, Stored
    <3> QED
      BY <1>1, <3>1
  <2>2. s \in [0..(list.room - 1) -> OsIds]
    BY <1>1, <1>2
  <2> HIDE DEF s
  <2>3. list'.store = s /\ list'.room = list.room /\ list'.begin = list.begin /\ list'.end = list.end
    BY <2>1
  <2>4. WellFormed(list', OsIds) /\ Capacity(list') = list'.room - 1
    <3>1. list' = [store |-> list'.store, room |-> list'.room, begin |-> list'.begin, end |-> list'.end]
      BY <2>1, <2>3
    <3> QED
      BY <1>1, <2>2, <2>3, <3>1, ShapeSuffices
  <2> QED
    BY <1>1, <1>2, <1>9, <2>3, <2>4 DEF Store, ListShaped
<1>10. ASSUME NEW t \in OsThreads, Resume(t) PROVE ListShaped'
  BY <1>1, <1>2, <1>10 DEF Resume, ListShaped, OsIds
<1>11. ASSUME NEW t \in OsThreads, WakeInInterrupt(t) PROVE ListShaped'
  <2>1. t \in OsIds
    BY DEF OsIds
  <2>2. WellFormed(PushBack(list, t), OsIds)
        /\ Capacity(PushBack(list, t)) \in {Capacity(list), Capacity(list) + 1} \ {0}
    BY <1>2, <2>1, DequePush
  <2>3. index \in 0..Capacity(PushBack(list, t)) /\ PushBack(list, t).room # 0
    BY <1>1, <2>2 DEF Capacity
  <2>4. list' = PushBack(list, t) /\ index' = index /\ pushed' = pushed /\ following' = following
        /\ current' = current /\ asleep' = asleep \ {t} /\ rstep' = rstep /\ rstep \notin Growing
    BY <1>11 DEF WakeInInterrupt, Push
  <2>5. rstep' # "invert" /\ rstep' \notin {"widen", "move", "resize"}
    BY <2>4 DEF Growing
  <2> QED
    BY <1>2, <1>11, <2>2, <2>3, <2>4, <2>5 DEF ListShaped
<1>12. CASE UNCHANGED readyVars
  BY <1>12 DEF readyVars, ListShaped
<1> QED
  BY <1>3, <1>5, <1>6, <1>7, <1>8, <1>9, <1>10, <1>11, <1>12, <1>13, <1>14
  DEF ReadyNext

(* The storage never outgrows its block.                                      *)
LEMMA HousedStep ==
  ASSUME ListShaped, Housed, [ReadyNext]_readyVars, ~exposed'
  PROVE  Housed'
<1>1. list.room \in Nat \ {0, 1} /\ Capacity(list) = list.room - 1 /\ Blank \in OsIds
  BY ListParts
<1>2. cap \in Nat /\ block \in Nat /\ list.room <= block /\ (rstep # "move" => cap = block)
      /\ (rstep \in {"move", "resize"} => Capacity(list) + 2 <= cap)
  BY DEF Housed
<1>3. ASSUME list'.room = list.room, cap' = cap, block' = block, rstep # "move", rstep' # "move",
             rstep' # "resize"
      PROVE  Housed'
  BY <1>1, <1>2, <1>3 DEF Housed, Capacity
<1>4. CASE Switch \/ TestRoom \/ ReadEnd \/ Turn
  BY <1>3, <1>4 DEF Switch, TestRoom, ReadEnd, Turn
<1>5. CASE WriteBegin \/ Store \/ WriteEnd
  <2>1. list = [store |-> list.store, room |-> list.room, begin |-> list.begin, end |-> list.end]
    BY ListParts
  <2>2. list'.room = list.room
    BY <1>5, <2>1 DEF WriteBegin, Store, Stored, WriteEnd
  <2> QED
    BY <1>3, <1>5, <2>2 DEF WriteBegin, Store, WriteEnd
<1>6. ASSUME NEW t \in OsThreads, Resume(t) PROVE Housed'
  BY <1>3, <1>6 DEF Resume
<1>7. CASE Invert
  <2>1. list'.room = list.room
    BY <1>1, <1>7, ShapeTurned DEF Invert, ListShaped
  <2> QED
    BY <1>3, <1>7, <2>1 DEF Invert
<1>8. CASE Widen
  <2>1. cap = block /\ block' = block /\ list' = list /\ rstep' \in {"move", "resize"}
    BY <1>2, <1>8 DEF Widen
  <2>2. CASE Capacity(list) + 2 > cap
    <3>1. cap' \in Nat /\ Capacity(list) + 2 <= cap' /\ rstep' = "move"
      BY <1>1, <1>8, <2>2 DEF Widen, MemSizes
    <3> QED
      BY <1>1, <1>2, <2>1, <3>1 DEF Housed
  <2>3. CASE ~(Capacity(list) + 2 > cap)
    <3>1. cap' = cap /\ rstep' = "resize" /\ Capacity(list) + 2 <= cap
      BY <1>1, <1>2, <1>8, <2>3 DEF Widen
    <3> QED
      BY <1>1, <1>2, <2>1, <3>1 DEF Housed
  <2> QED
    BY <2>2, <2>3
<1>9. CASE Move
  <2>1. list' = list /\ cap' = cap /\ block' = cap /\ rstep = "move" /\ rstep' = "resize"
    BY <1>9 DEF Move
  <2> QED
    BY <1>1, <1>2, <2>1 DEF Housed
<1>10. CASE Resize
  <2>1. list' = Resized(list, Capacity(list) + 2) /\ cap' = cap /\ block' = block
        /\ rstep = "resize" /\ rstep' = "store"
    BY <1>10 DEF Resize
  <2>2. list'.room = Capacity(list) + 2
    <3>1. Capacity(list) + 2 \in Nat
      BY <1>1
    <3> QED
      BY <2>1, <3>1, ResizedSlots
  <2> QED
    BY <1>1, <1>2, <2>1, <2>2 DEF Housed
<1>11. ASSUME NEW t \in OsThreads, WakeInInterrupt(t) PROVE Housed'
  <2>1. list' = PushBack(list, t) /\ rstep' = rstep /\ rstep \notin Growing
        /\ (list'.room > cap => cap' \in MemSizes(list'.room) /\ block' = cap')
        /\ (~(list'.room > cap) => cap' = cap /\ block' = block)
    BY <1>11 DEF WakeInInterrupt, Push
  <2>2. rstep # "move" /\ rstep # "resize"
    BY <2>1 DEF Growing
  <2>3. list'.room \in Nat
    <3>1. WellFormed(PushBack(list, t), OsIds)
      BY DequePush DEF ListShaped, OsIds
    <3> QED
      BY <2>1, <3>1 DEF WellFormed
  <2>4. CASE list'.room > cap
    <3>1. cap' \in Nat /\ list'.room <= cap' /\ block' = cap'
      BY <2>1, <2>3, <2>4 DEF MemSizes
    <3> QED
      BY <2>1, <2>2, <3>1 DEF Housed
  <2>5. CASE ~(list'.room > cap)
    BY <1>2, <2>1, <2>2, <2>3, <2>5 DEF Housed
  <2> QED
    BY <2>4, <2>5
<1>12. CASE UNCHANGED readyVars
  BY <1>2, <1>12 DEF readyVars, Housed
<1> QED
  BY <1>4, <1>5, <1>6, <1>7, <1>8, <1>9, <1>10, <1>11, <1>12 DEF ReadyNext

(* Taking the first element of a sequence without repetitions, and adding one *)
(* that it does not have.                                                     *)
LEMMA TailOnce ==
  ASSUME NEW S, NEW s \in Seq(S), s # <<>>, IsInjective(s)
  PROVE  IsInjective(Tail(s)) /\ ToSet(Tail(s)) = ToSet(s) \ {Head(s)} /\ Head(s) \in ToSet(s)
<1> DEFINE u == Tail(s)
<1>1. Len(s) \in Nat \ {0} /\ DOMAIN s = 1..Len(s)
  BY EmptySeq, LenProperties
<1>2. u \in Seq(S) /\ Len(u) = Len(s) - 1 /\ Head(s) = s[1]
      /\ \A i \in 1..Len(u) : u[i] = s[i + 1]
  BY HeadTailProperties
<1>3. DOMAIN u = 1..(Len(s) - 1)
  BY <1>2, LenProperties
<1> HIDE DEF u
<1>4. \A i \in DOMAIN u : i + 1 \in DOMAIN s /\ i + 1 # 1 /\ u[i] = s[i + 1]
  BY <1>1, <1>2, <1>3
<1>5. \A j \in DOMAIN s : j # 1 => j - 1 \in DOMAIN u /\ (j - 1) + 1 = j
  BY <1>1, <1>3
<1>6. IsInjective(u)
  <2> SUFFICES ASSUME NEW i \in DOMAIN u, NEW j \in DOMAIN u, u[i] = u[j] PROVE i = j
    BY DEF IsInjective
  <2>1. i + 1 = j + 1
    BY <1>4 DEF IsInjective
  <2> QED
    BY <1>3, <2>1
<1>7. 1 \in DOMAIN s
  BY <1>1
<1>8. ToSet(u) = ToSet(s) \ {Head(s)}
  <2>1. ASSUME NEW x \in ToSet(u) PROVE x \in ToSet(s) /\ x # Head(s)
    <3>1. PICK i \in DOMAIN u : x = u[i]
      BY DEF ToSet
    <3> QED
      BY <1>2, <1>4, <1>7, <3>1 DEF ToSet, IsInjective
  <2>2. ASSUME NEW x \in ToSet(s), x # Head(s) PROVE x \in ToSet(u)
    <3>1. PICK j \in DOMAIN s : x = s[j]
      BY DEF ToSet
    <3>2. j # 1
      BY <1>2, <2>2, <3>1
    <3>3. j - 1 \in DOMAIN u /\ u[j - 1] = x
      BY <1>4, <1>5, <3>1, <3>2
    <3> QED
      BY <3>3 DEF ToSet
  <2> QED
    BY <2>1, <2>2
<1> QED
  BY <1>2, <1>6, <1>7, <1>8 DEF u, ToSet

LEMMA AppendOnce ==
  ASSUME NEW S, NEW s \in Seq(S), NEW v \in S
  PROVE  /\ ToSet(Append(s, v)) = ToSet(s) \cup {v}
         /\ IsInjective(s) /\ v \notin ToSet(s) => IsInjective(Append(s, v))
<1> DEFINE u == Append(s, v)
<1>1. Len(s) \in Nat /\ DOMAIN s = 1..Len(s)
  BY LenProperties
<1>2. u \in Seq(S) /\ Len(u) = Len(s) + 1 /\ u[Len(s) + 1] = v
      /\ \A i \in 1..Len(s) : u[i] = s[i]
  BY AppendProperties
<1>3. DOMAIN u = 1..(Len(s) + 1)
  BY <1>2, LenProperties
<1> HIDE DEF u
<1>4. \A i \in DOMAIN u : i \in DOMAIN s \/ i = Len(s) + 1
  BY <1>1, <1>3
<1>5. \A i \in DOMAIN s : i \in DOMAIN u /\ u[i] = s[i]
  BY <1>1, <1>2, <1>3
<1>6. Len(s) + 1 \in DOMAIN u
  BY <1>1, <1>3
<1>7. ToSet(u) = ToSet(s) \cup {v}
  BY <1>2, <1>4, <1>5, <1>6 DEF ToSet
<1>8. ASSUME IsInjective(s), v \notin ToSet(s) PROVE IsInjective(u)
  <2>1. \A i \in DOMAIN s : s[i] # v
    BY <1>8 DEF ToSet
  <2> QED
    BY <1>2, <1>4, <1>5, <1>8, <2>1 DEF IsInjective
<1> QED
  BY <1>7, <1>8 DEF u

(* The threads that are somewhere else and those in the list share all.       *)
LEMMA FiledStep ==
  ASSUME ReadyAssumption, ReadyInductive, [ReadyNext]_readyVars, ~struck'
  PROVE  (EachOnce /\ PlacesApart /\ StepsInOrder)'
<1> DEFINE C == Contents(list)
<1>2. ~struck
  BY DEF ReadyNext, Switch, WriteBegin, Resume, TestRoom, Turn, Invert, Widen, Move, Resize,
         Store, ReadEnd, WriteEnd, WakeInInterrupt, Push, readyVars
<1>1. ListShaped /\ Blank \notin OsThreads
  BY <1>2 DEF ReadyInductive, ReadyAssumption
<1>3. EachOnce /\ PlacesApart /\ StepsInOrder
  BY <1>2 DEF ReadyInductive
<1>4. /\ WellFormed(list, OsThreads) /\ IsInjective(C) /\ C \in Seq(OsThreads)
      /\ \A t \in OsThreads : t \in Elsewhere <=> t \notin ToSet(C)
      /\ Size(list) \in Nat /\ Capacity(list) \in Nat /\ Size(list) <= Capacity(list)
  BY <1>3, DequeContents, DequeShape DEF EachOnce
<1>5. asleep \subseteq OsIds
  BY <1>1 DEF ListShaped
<1> HIDE DEF C
<1>6. CASE Switch
  <2>1. Foremost(list) \in OsThreads
    BY <1>4, <1>6, DequePop DEF Switch
  <2>2. list' = list /\ rstep = "idle" /\ rstep' = "pop" /\ asleep' = asleep /\ current' = current
    BY <1>6 DEF Switch
  <2>3. ~Pushing /\ ~Pushing'
    BY <2>2 DEF Pushing
  <2>4. Elsewhere' = Elsewhere
    BY <2>2, <2>3 DEF Elsewhere
  <2>5. EachOnce'
    BY <1>3, <2>2, <2>4 DEF EachOnce
  <2>6. PlacesApart'
    BY <1>3, <2>2, <2>3 DEF PlacesApart
  <2>7. StepsInOrder'
    BY <1>6, <2>2 DEF StepsInOrder, Switch
  <2> QED
    BY <2>5, <2>6, <2>7
<1>7. CASE WriteBegin
  <2>1. Size(list) > 0 /\ index = list.begin /\ following = Foremost(list) /\ pushed \in {current, Blank}
        /\ ~Pushing /\ current \in OsThreads \ asleep
    BY <1>3, <1>7 DEF StepsInOrder, PlacesApart, WriteBegin, Pushing
  <2>2. list' = PopFront(list)
    BY <1>7, <2>1 DEF WriteBegin, PopFront
  <2>3. WellFormed(list', OsThreads) /\ Contents(list') = Tail(C) /\ following = Head(C) /\ C # <<>>
        /\ following \in OsThreads
    BY <1>4, <2>1, <2>2, DequePop DEF C
  <2>4. /\ IsInjective(Contents(list'))
        /\ ToSet(Contents(list')) = ToSet(C) \ {following} /\ following \in ToSet(C)
    BY <1>4, <2>3, TailOnce
  <2>5. Elsewhere = asleep \cup {current} /\ following \notin Elsewhere
    BY <1>4, <2>1, <2>3, <2>4 DEF Elsewhere
  <2>6. CASE pushed = Blank
    <3>1. rstep' = "idle" /\ current' = following /\ following' = Blank /\ asleep' = asleep \cup {current}
      BY <1>7, <2>6 DEF WriteBegin
    <3>2. Elsewhere' = Elsewhere \cup {following} /\ ~Pushing'
      BY <2>5, <3>1 DEF Elsewhere, Pushing
    <3>3. EachOnce'
      BY <1>4, <2>3, <2>4, <3>2 DEF EachOnce
    <3>4. PlacesApart'
      BY <2>3, <2>5, <3>1, <3>2 DEF PlacesApart
    <3>5. StepsInOrder'
      BY <3>1 DEF StepsInOrder
    <3> QED
      BY <3>3, <3>4, <3>5
  <2>7. CASE pushed # Blank
    <3>1. rstep' = "test" /\ current' = current /\ following' = following /\ asleep' = asleep
          /\ pushed' = pushed /\ pushed = current
      BY <1>7, <2>1, <2>7 DEF WriteBegin
    <3>2. Elsewhere' = Elsewhere \cup {following} /\ Pushing'
      BY <2>5, <3>1 DEF Elsewhere, Pushing
    <3>3. EachOnce'
      BY <1>4, <2>3, <2>4, <3>2 DEF EachOnce
    <3>4. PlacesApart'
      BY <1>1, <2>1, <2>3, <2>5, <3>1, <3>2 DEF PlacesApart
    <3>5. StepsInOrder'
      BY <3>1 DEF StepsInOrder
    <3> QED
      BY <3>3, <3>4, <3>5
  <2> QED
    BY <2>6, <2>7
<1>8. ASSUME NEW t \in OsThreads, Resume(t) PROVE (EachOnce /\ PlacesApart /\ StepsInOrder)'
  <2>1. rstep = "idle" /\ t \in asleep /\ pushed' = t /\ asleep' = asleep \ {t} /\ rstep' = "test"
        /\ list' = list /\ following' = following /\ current' = current
    BY <1>8 DEF Resume
  <2>2. following = Blank /\ current \in OsThreads \ asleep /\ ~Pushing /\ Pushing'
    BY <1>3, <2>1 DEF PlacesApart, Pushing
  <2>3. Elsewhere' = Elsewhere \cup {Blank}
    BY <2>1, <2>2 DEF Elsewhere
  <2>4. EachOnce'
    BY <1>1, <1>3, <2>1, <2>3 DEF EachOnce
  <2>5. PlacesApart'
    BY <2>1, <2>2 DEF PlacesApart
  <2>6. StepsInOrder'
    BY <2>1 DEF StepsInOrder
  <2> QED
    BY <2>4, <2>5, <2>6
<1>9. CASE TestRoom
  <2>1. rstep = "test" /\ rstep' \in {"turn", "store"} /\ list' = list /\ pushed' = pushed
        /\ following' = following /\ current' = current /\ asleep' = asleep
        /\ (rstep' = "turn" => Size(list) = Capacity(list))
        /\ (rstep' = "store" => Size(list) # Capacity(list))
    BY <1>9 DEF TestRoom
  <2>2. Pushing /\ Pushing'
    BY <2>1 DEF Pushing
  <2>3. Elsewhere' = Elsewhere
    BY <2>1, <2>2 DEF Elsewhere
  <2>4. EachOnce'
    BY <1>3, <2>1, <2>3 DEF EachOnce
  <2>5. PlacesApart'
    BY <1>3, <2>1, <2>2 DEF PlacesApart
  <2>6. StepsInOrder'
    BY <1>4, <2>1 DEF StepsInOrder
  <2> QED
    BY <2>4, <2>5, <2>6
<1>10. ASSUME rstep \in {"turn"} \cup Growing,
              rstep' \in Growing \cup {"store"}, pushed' = pushed, following' = following,
              current' = current, asleep' = asleep, WellFormed(list', OsThreads), Contents(list') = C,
              rstep' = "store" => Size(list') < Capacity(list'),
              rstep' # "store" => Size(list') = Capacity(list')
       PROVE  (EachOnce /\ PlacesApart /\ StepsInOrder)'
  <2>1. Pushing /\ Pushing' /\ rstep' \notin {"idle", "pop", "read", "write"}
        /\ (rstep' = "store" => rstep' \notin {"turn"} \cup Growing)
    BY <1>10 DEF Pushing, Growing
  <2>2. Elsewhere' = Elsewhere
    BY <1>10, <2>1 DEF Elsewhere
  <2>3. EachOnce'
    BY <1>4, <1>10, <2>2 DEF EachOnce
  <2>4. PlacesApart'
    BY <1>3, <1>10, <2>1 DEF PlacesApart
  <2>5. StepsInOrder'
    BY <1>10, <2>1 DEF StepsInOrder
  <2> QED
    BY <2>3, <2>4, <2>5
<1>16. CASE Turn \/ Widen \/ Move
  <2>1. /\ rstep \in {"turn"} \cup Growing /\ rstep' \in Growing /\ list' = list /\ pushed' = pushed
        /\ following' = following /\ current' = current /\ asleep' = asleep
    BY <1>16 DEF Turn, Widen, Move, Growing
  <2>2. Size(list) = Capacity(list) /\ rstep' # "store"
    BY <1>3, <2>1 DEF StepsInOrder, Growing
  <2> QED
    BY <1>4, <1>10, <2>1, <2>2 DEF C
<1>17. CASE Invert
  <2>1. /\ rstep \in Growing /\ rstep' \in Growing /\ rstep' # "store" /\ list' = Normalize(list)
        /\ pushed' = pushed /\ following' = following /\ current' = current /\ asleep' = asleep
        /\ list.begin # 0
    BY <1>1, <1>17 DEF Invert, Growing, ListShaped
  <2>2. Size(list) = Capacity(list)
    BY <1>3, <2>1 DEF StepsInOrder, Growing
  <2>3. WellFormed(list', OsThreads) /\ Contents(list') = C /\ Size(list') = Capacity(list')
    BY <1>4, <2>1, <2>2, DequeNormal DEF C
  <2> QED
    BY <1>10, <2>1, <2>3
<1>18. CASE Resize
  <2>1. /\ rstep \in Growing /\ rstep' = "store"
        /\ pushed' = pushed /\ following' = following /\ current' = current /\ asleep' = asleep
        /\ list.begin = 0
    BY <1>1, <1>18 DEF Resize, Growing, ListShaped
  <2>2. Size(list) = Capacity(list) /\ list' = Grown(list)
    BY <1>3, <1>18, <2>1, ResizedIsGrown DEF StepsInOrder, Resize
  <2>3. WellFormed(list', OsThreads) /\ Contents(list') = C /\ Size(list') = Size(list)
        /\ Capacity(list') = Capacity(list) + 1
    BY <1>4, <2>2, DequeGrown DEF C
  <2>4. Size(list') < Capacity(list')
    BY <1>4, <2>2, <2>3
  <2> QED
    BY <1>10, <2>1, <2>3, <2>4
<1>11. CASE Store
  <2>1. rstep = "store" /\ rstep' \in {"read", "write"} /\ list' = Stored(list, pushed) /\ pushed' = pushed
        /\ following' = following /\ current' = current /\ asleep' = asleep /\ index' = list.end
    BY <1>11 DEF Store
  <2>2. Pushing /\ Pushing' /\ Size(list) < Capacity(list) /\ pushed \in OsThreads
    BY <1>3, <2>1 DEF Pushing, StepsInOrder, PlacesApart
  <2>3. WellFormed(list', OsThreads) /\ Contents(list') = C /\ Size(list') = Size(list)
        /\ Capacity(list') = Capacity(list) /\ list'.end = list.end /\ list'.store[list'.end] = pushed
    BY <1>4, <2>1, <2>2, DequeStore DEF C
  <2>4. Elsewhere' = Elsewhere
    BY <2>1, <2>2 DEF Elsewhere
  <2>5. EachOnce'
    BY <1>4, <2>3, <2>4 DEF EachOnce
  <2>6. PlacesApart'
    BY <1>3, <2>1, <2>2 DEF PlacesApart
  <2>7. StepsInOrder'
    BY <2>1, <2>2, <2>3 DEF StepsInOrder
  <2> QED
    BY <2>5, <2>6, <2>7
<1>12. CASE ReadEnd
  <2>1. rstep = "read" /\ rstep' = "write" /\ list' = list /\ pushed' = pushed
        /\ following' = following /\ current' = current /\ asleep' = asleep /\ index' = list.end
    BY <1>12 DEF ReadEnd
  <2>2. Pushing /\ Pushing'
    BY <2>1 DEF Pushing
  <2>3. Elsewhere' = Elsewhere
    BY <2>1, <2>2 DEF Elsewhere
  <2>4. EachOnce'
    BY <1>3, <2>1, <2>3 DEF EachOnce
  <2>5. PlacesApart'
    BY <1>3, <2>1, <2>2 DEF PlacesApart
  <2>6. StepsInOrder'
    BY <1>3, <2>1 DEF StepsInOrder
  <2> QED
    BY <2>4, <2>5, <2>6
<1>13. CASE WriteEnd
  <2>1. rstep = "write" /\ rstep' = "idle" /\ list' = [list EXCEPT !.end = Wrap(index + 1, list.room)]
        /\ current' = (IF following = Blank THEN current ELSE following)
        /\ following' = Blank /\ asleep' = asleep
    BY <1>13 DEF WriteEnd
  <2>2. /\ Pushing /\ ~Pushing'
        /\ Size(list) < Capacity(list) /\ list.store[list.end] = pushed /\ index = list.end
        /\ pushed \in OsThreads \ asleep /\ current \in OsThreads \ asleep
    BY <1>3, <2>1 DEF Pushing, StepsInOrder, PlacesApart
  <2>3. list' = [list EXCEPT !.end = NextEnd(list)]
    BY <2>1, <2>2 DEF NextEnd
  <2>4. WellFormed(list', OsThreads) /\ Contents(list') = Append(C, pushed)
    BY <1>4, <2>2, <2>3, DequeExtend DEF C
  <2>5. Elsewhere = asleep \cup {current, pushed, following} /\ pushed \notin ToSet(C)
    <3>1. Elsewhere = asleep \cup {current, pushed, following}
      BY <2>2 DEF Elsewhere
    <3> QED
      BY <1>4, <2>2, <3>1
  <2>6. IsInjective(Contents(list')) /\ ToSet(Contents(list')) = ToSet(C) \cup {pushed}
    BY <1>4, <2>2, <2>4, <2>5, AppendOnce
  <2>7. Elsewhere' = asleep \cup {current'}
    BY <2>1, <2>2 DEF Elsewhere
  <2>8. CASE following = Blank
    <3>1. pushed # current /\ current' = current
      BY <1>3, <2>1, <2>2, <2>8 DEF PlacesApart
    <3>2. \A t \in OsThreads : t \in Elsewhere' <=> t \notin ToSet(Contents(list'))
      BY <1>1, <1>4, <2>2, <2>5, <2>6, <2>7, <2>8, <3>1
    <3>3. PlacesApart'
      BY <2>1, <2>2, <3>1 DEF PlacesApart
    <3> QED
      BY <2>1, <2>4, <2>6, <3>2, <3>3 DEF EachOnce, StepsInOrder
  <2>9. CASE following # Blank
    <3>1. pushed = current /\ following \in OsThreads \ (asleep \cup {current}) /\ current' = following
      BY <1>3, <2>1, <2>2, <2>9 DEF PlacesApart
    <3>2. \A t \in OsThreads : t \in Elsewhere' <=> t \notin ToSet(Contents(list'))
      BY <1>1, <1>4, <2>2, <2>5, <2>6, <2>7, <3>1
    <3>3. PlacesApart'
      BY <2>1, <2>2, <3>1 DEF PlacesApart
    <3> QED
      BY <2>1, <2>4, <2>6, <3>2, <3>3 DEF EachOnce, StepsInOrder
  <2> QED
    BY <2>8, <2>9
<1>14. ASSUME NEW t \in OsThreads, WakeInInterrupt(t) PROVE (EachOnce /\ PlacesApart /\ StepsInOrder)'
  <2>1. /\ rstep = "idle" /\ rstep' = "idle"
        /\ t \in asleep /\ list' = PushBack(list, t) /\ asleep' = asleep \ {t}
        /\ pushed' = pushed /\ following' = following /\ current' = current
    BY <1>14 DEF WakeInInterrupt, Push
  <2>2. following = Blank /\ current \in OsThreads \ asleep /\ ~Pushing /\ ~Pushing'
    BY <1>3, <2>1 DEF PlacesApart, Pushing
  <2>3. Elsewhere = asleep \cup {current} /\ Elsewhere' = (asleep \ {t}) \cup {current}
    BY <2>1, <2>2 DEF Elsewhere
  <2>4. WellFormed(list', OsThreads) /\ Contents(list') = Append(C, t)
    BY <1>4, <2>1, DequePush DEF C
  <2>5. IsInjective(Contents(list')) /\ ToSet(Contents(list')) = ToSet(C) \cup {t}
    BY <1>4, <2>1, <2>3, <2>4, AppendOnce
  <2>6. EachOnce'
    BY <1>4, <2>1, <2>2, <2>3, <2>4, <2>5 DEF EachOnce
  <2>7. PlacesApart'
    BY <2>1, <2>2 DEF PlacesApart
  <2>8. StepsInOrder'
    BY <2>1 DEF StepsInOrder
  <2> QED
    BY <2>6, <2>7, <2>8
<1>15. CASE UNCHANGED readyVars
  BY <1>3, <1>15 DEF readyVars, EachOnce, PlacesApart, StepsInOrder, Elsewhere, Pushing
<1> QED
  BY <1>6, <1>7, <1>8, <1>9, <1>11, <1>12, <1>13, <1>14, <1>15, <1>16, <1>17, <1>18
  DEF ReadyNext

(* main fills the list before the scheduler starts.                           *)
LEMMA ReadyStart ==
  ASSUME ReadyAssumption, ReadyInit
  PROVE  ReadyInductive
<1> DEFINE n == Len(FirstReady)
           C == Contents(list)
           R == {FirstReady[i] : i \in DOMAIN FirstReady}
<1>1. n \in Nat \ {0} /\ DOMAIN FirstReady = 1..n /\ FirstReady \in Seq(OsThreads) /\ Blank \notin OsThreads
      /\ \A i \in 1..n : FirstReady[i] \in OsThreads
  BY EmptySeq, LenProperties, ElementOfSeq DEF ReadyAssumption
<1> DEFINE s == [i \in 0..n |-> IF i < n THEN FirstReady[i + 1] ELSE Blank]
<1>2. list = [store |-> s, room |-> n + 1, begin |-> 1, end |-> n]
  BY DEF ReadyInit
<1>3. s \in [0..n -> OsThreads \cup {Blank}] /\ \A i \in 0..n : i < n => s[i] = FirstReady[i + 1]
  BY <1>1
<1> HIDE DEF n, s
<1>4. list.store = s /\ list.room = n + 1 /\ list.begin = 1 /\ list.end = n /\ (n + 1) - 1 = n
      /\ list = [store |-> list.store, room |-> list.room, begin |-> list.begin, end |-> list.end]
  BY <1>1, <1>2
<1>5. Capacity(list) = n /\ Size(list) = n - 1
  BY <1>1, <1>4 DEF Capacity, Size
<1>6. ASSUME NEW k \in 1..(n - 1)
      PROVE  list.store[Wrap(list.begin + k - 1, list.room)] = FirstReady[k + 1] /\ k + 1 \in 1..n
  <2>1. Wrap(list.begin + k - 1, list.room) = k /\ k \in 0..n /\ k < n
    BY <1>1, <1>4 DEF Wrap
  <2> QED
    BY <1>1, <1>3, <1>4, <2>1
<1>7. \A k \in 1..(n - 1) : C[k] = FirstReady[k + 1] /\ C[k] \in OsThreads
  BY <1>1, <1>5, <1>6 DEF Contents
<1>8. WellFormed(list, OsThreads)
  <2>1. list.store \in [0..(list.room - 1) -> OsThreads \cup {Blank}]
    BY <1>3, <1>4
  <2> QED
    BY <1>1, <1>4, <1>5, <1>7, <2>1 DEF WellFormed
<1>9. WellFormed(list, OsIds)
  <2>1. list.store \in [0..(list.room - 1) -> OsIds] /\ OsIds \cup {Blank} = OsIds /\ Blank \in OsIds
    BY <1>8 DEF WellFormed, OsIds
  <2>2. /\ list.room \in Nat \ {0, 1}
        /\ list.begin \in 0..(list.room - 1) /\ list.end \in 0..(list.room - 1)
    BY <1>1, <1>4
  <2> QED
    BY <1>4, <2>1, <2>2, ShapeSuffices
<1>10. asleep = OsThreads \ R /\ current = FirstReady[1] /\ rstep = "idle" /\ index = 0
       /\ pushed = Blank /\ following = Blank
  <2>1. Head(FirstReady) = FirstReady[1]
    BY <1>1, HeadTailProperties DEF ReadyAssumption
  <2> QED
    BY <2>1 DEF ReadyInit
<1>11. current \in OsThreads \ asleep /\ 1 \in 1..n
  BY <1>1, <1>10
<1>12. ListShaped
  <2>1. index \in 0..Capacity(list) /\ list.room # 0
    BY <1>1, <1>4, <1>5, <1>10
  <2> QED
    BY <1>9, <1>10, <1>11, <2>1 DEF ListShaped, OsIds
<1>18. Housed /\ ~exposed
  <2>1. cap \in MemSizes(n + 1) /\ block = cap /\ ~exposed
    BY DEF ReadyInit, n
  <2>2. cap \in Nat /\ n + 1 <= cap
    BY <1>1, <2>1 DEF MemSizes
  <2> QED
    BY <1>4, <1>10, <2>1, <2>2 DEF Housed
<1>13. DOMAIN C = 1..(n - 1)
  BY <1>5 DEF Contents
<1> HIDE DEF C
<1>14. IsInjective(C)
  <2> SUFFICES ASSUME NEW i \in DOMAIN C, NEW j \in DOMAIN C, C[i] = C[j] PROVE i = j
    BY DEF IsInjective
  <2>1. FirstReady[i + 1] = FirstReady[j + 1] /\ i + 1 \in DOMAIN FirstReady /\ j + 1 \in DOMAIN FirstReady
    BY <1>1, <1>6, <1>7, <1>13
  <2>2. i + 1 = j + 1
    BY <2>1 DEF ReadyAssumption
  <2> QED
    BY <1>13, <2>2
<1>15. ASSUME NEW t \in OsThreads PROVE t \in Elsewhere <=> t \notin ToSet(C)
  <2>1. Elsewhere = asleep \cup {current}
    BY <1>10 DEF Elsewhere, Pushing, Growing
  <2>2. ASSUME t \in ToSet(C) PROVE t \notin Elsewhere
    <3>1. PICK k \in 1..(n - 1) : t = C[k]
      BY <1>13, <2>2 DEF ToSet
    <3>2. t = FirstReady[k + 1] /\ k + 1 \in DOMAIN FirstReady /\ k + 1 # 1 /\ 1 \in DOMAIN FirstReady
      BY <1>1, <1>6, <1>7, <3>1
    <3> QED
      BY <1>10, <2>1, <3>2 DEF ReadyAssumption
  <2>3. ASSUME t \notin Elsewhere PROVE t \in ToSet(C)
    <3>1. t \in R /\ t # FirstReady[1]
      BY <1>10, <2>1, <2>3
    <3>2. PICK i \in DOMAIN FirstReady : t = FirstReady[i]
      BY <3>1
    <3>3. i - 1 \in 1..(n - 1) /\ (i - 1) + 1 = i
      BY <1>1, <3>1, <3>2
    <3> QED
      BY <1>7, <1>13, <3>2, <3>3 DEF ToSet
  <2> QED
    BY <2>2, <2>3
<1>16. EachOnce
  BY <1>8, <1>14, <1>15 DEF EachOnce, C
<1>17. PlacesApart /\ StepsInOrder
  BY <1>10, <1>11 DEF PlacesApart, StepsInOrder, Pushing, Growing
<1> QED
  BY <1>12, <1>16, <1>17, <1>18 DEF ReadyInductive, ReadyInit

(* What the run checks follows.                                               *)
LEMMA ReadyFollows ==
  ASSUME ReadyAssumption, ReadyInductive
  PROVE  ReadyListInv
<1>1. ASSUME ~exposed PROVE IndexesInRange
  <2>1. OsIds \cup {Blank} = OsThreads \cup {Blank}
    BY DEF OsIds
  <2> QED
    BY <1>1, <2>1 DEF ReadyInductive, ListShaped, Housed, WellFormed, IndexesInRange
<1>2. ASSUME ~struck, rstep = "idle", NEW t \in OsThreads
      PROVE  Cardinality({k \in DOMAIN Contents(list) : Contents(list)[k] = t})
                 = IF t \in asleep \cup {current} THEN 0 ELSE 1
  <2> DEFINE K == {k \in DOMAIN Contents(list) : Contents(list)[k] = t}
  <2>1. EachOnce /\ Elsewhere = asleep \cup {current}
    BY <1>2 DEF ReadyInductive, Elsewhere, Pushing, Growing
  <2>2. CASE t \in Elsewhere
    <3>1. K = {}
      BY <2>1, <2>2 DEF EachOnce, ToSet
    <3> QED
      BY <2>1, <2>2, <3>1, FS_EmptySet
  <2>3. CASE t \notin Elsewhere
    <3>1. PICK k \in DOMAIN Contents(list) : Contents(list)[k] = t
      BY <2>1, <2>3 DEF EachOnce, ToSet
    <3>2. K = {k}
      BY <2>1, <3>1 DEF EachOnce, IsInjective
    <3>3. Cardinality(K) = 1
      BY <3>2, FS_Singleton
    <3> QED
      BY <2>1, <2>3, <3>3
  <2> QED
    BY <2>2, <2>3
<1> QED
  BY <1>1, <1>2 DEF ReadyListInv, ThreadsFiled

(* ready_list_: for any number of threads, any order of yields, suspensions,  *)
(* resumptions and growths: until an interrupt resumes a sleeper in the       *)
(* middle of an operation every thread is in the list once, or waits, or      *)
(* runs; and until one does so while the storage is being turned or grown, no *)
(* index leaves the storage and the storage stays inside its block.           *)
THEOREM ReadyListSafe == ReadySpec => []ReadyListInv
<1>1. ReadyInit => ReadyInductive
  BY ReadyStart, ReadyAssumption
<1>2. ReadyInductive /\ [ReadyNext]_readyVars => ReadyInductive'
  <2> SUFFICES ASSUME ReadyInductive, [ReadyNext]_readyVars PROVE ReadyInductive'
    OBVIOUS
  <2>1. (exposed' => struck') /\ (exposed => exposed')
    <3>1. ASSUME NEW t \in OsThreads, WakeInInterrupt(t)
          PROVE  struck' = (struck \/ rstep # "idle") /\ exposed' = (rstep \in Growing)
      BY <3>1 DEF WakeInInterrupt, Push
    <3>2. CASE UNCHANGED <<struck, exposed>>
      BY <3>2 DEF ReadyInductive
    <3>3. CASE ~exposed /\ \E t \in OsThreads : WakeInInterrupt(t)
      <4>1. struck' = (struck \/ rstep # "idle") /\ exposed' = (rstep \in Growing) /\ ~exposed
        BY <3>1, <3>3
      <4>2. rstep \in Growing => rstep # "idle"
        BY DEF Growing
      <4>3. exposed' => rstep \in Growing
        BY <4>1, Zenon
      <4>4. rstep # "idle" => struck'
        BY <4>1, Zenon
      <4> QED
        BY <4>1, <4>2, <4>3, <4>4, Zenon
    <3>4. (UNCHANGED <<struck, exposed>>) \/ (~exposed /\ \E t \in OsThreads : WakeInInterrupt(t))
      BY DEF ReadyNext, Switch, WriteBegin, Resume, TestRoom, Turn, Invert, Widen, Move, Resize,
             Store, ReadEnd, WriteEnd, readyVars
    <3> QED
      BY <3>2, <3>3, <3>4
  <2>2. ~exposed' => (ListShaped /\ Housed)'
    BY <2>1, ListShapedStep, HousedStep DEF ReadyInductive
  <2>3. ~struck' => (EachOnce /\ PlacesApart /\ StepsInOrder)'
    BY FiledStep, ReadyAssumption
  <2> QED
    BY <2>1, <2>2, <2>3 DEF ReadyInductive
<1>3. ReadyInductive => ReadyListInv
  BY ReadyFollows, ReadyAssumption
<1> QED
  BY <1>1, <1>2, <1>3, PTL DEF ReadySpec

-----------------------------------------------------------------------------
(* The handlers of the timer. A set of numbers has a least one.               *)
LEMMA LeastIn ==
  ASSUME NEW T \in SUBSET Nat, T # {}
  PROVE  \E x \in T : \A y \in T : x <= y
<1> DEFINE R == OpToRel(<, Nat)
<1>1. IsWellFoundedOn(R, Nat)
  BY NatLessThanWellFounded
<1>2. \A x, y \in Nat : <<x, y>> \in R <=> x < y
  BY DEF OpToRel
<1> HIDE DEF R
<1>3. PICK x \in T : \A y \in T : ~ (<<y, x>> \in R)
  BY <1>1, WFMin
<1>4. ASSUME NEW y \in T PROVE x <= y
  <2>1. x \in Nat /\ y \in Nat /\ ~ (<<y, x>> \in R)
    BY <1>3
  <2>2. ~ (y < x)
    BY <1>2, <2>1
  <2> QED
    BY <2>1, <2>2
<1> QED
  BY <1>4

(* deleteNode finds the handler RemoveFirst takes out, when it has one and    *)
(* the sentinel's junk is another.                                            *)
LEMMA StopsWhere ==
  ASSUME nodes \in Seq(Handlers), NEW h \in Handlers, junk # h, Contains(nodes, h)
  PROVE  /\ StopsAt(h) \in 1..Len(nodes)
         /\ RemoveFirst(nodes, h) = RemoveAt(nodes, StopsAt(h))
<1> DEFINE S == Handlers \cup {junk}
           data == <<junk>> \o nodes
           hits == {i \in DOMAIN data : data[i] = h}
           I == {i \in 1..Len(nodes) : nodes[i] = h}
           m == Min(I)
<1>1. Len(nodes) \in Nat /\ nodes \in Seq(S) /\ <<junk>> \in Seq(S) /\ Len(<<junk>>) = 1
  BY LenProperties
<1>2. data \in Seq(S) /\ Len(data) = 1 + Len(nodes) /\ DOMAIN data = 1..(1 + Len(nodes))
      /\ data[1] = junk /\ \A i \in 1..Len(nodes) : data[i + 1] = nodes[i]
  <2>1. data \in Seq(S) /\ Len(data) = 1 + Len(nodes)
        /\ \A i \in 1..(1 + Len(nodes)) : data[i] = IF i <= 1 THEN <<junk>>[i] ELSE nodes[i - 1]
    BY <1>1, ConcatProperties
  <2>2. DOMAIN data = 1..(1 + Len(nodes))
    BY <2>1, LenProperties
  <2> HIDE DEF data
  <2>3. data[1] = junk
    BY <1>1, <2>1
  <2>4. ASSUME NEW i \in 1..Len(nodes) PROVE data[i + 1] = nodes[i]
    BY <1>1, <2>1
  <2> QED
    BY <2>1, <2>2, <2>3, <2>4
<1> HIDE DEF data
<1>3. PICK k \in I : \A y \in I : k <= y
  <2>1. I \in SUBSET Nat /\ I # {}
    BY DEF Contains
  <2> QED
    BY <2>1, LeastIn
<1>4. m \in I /\ \A y \in I : m <= y
  <2> HIDE DEF I
  <2>1. m = CHOOSE x \in I : \A y \in I : x <= y
    BY DEF Min
  <2> HIDE DEF m
  <2> QED
    BY <1>3, <2>1
<1> HIDE DEF m
<1>5. m \in 1..Len(nodes) /\ nodes[m] = h
  BY <1>4
<1>6. m + 1 \in hits
  BY <1>1, <1>2, <1>5
<1>7. ASSUME NEW j \in hits PROVE m + 1 <= j
  <2>1. j # 1 /\ j - 1 \in 1..Len(nodes) /\ (j - 1) + 1 = j
    BY <1>1, <1>2
  <2>2. j - 1 \in I
    BY <1>2, <2>1
  <2> QED
    BY <1>4, <1>5, <2>1, <2>2
<1>8. (CHOOSE i \in hits : \A j \in hits : i <= j) = m + 1
  <2>1. \A i \in hits : i \in Nat
    BY <1>1, <1>2
  <2> HIDE DEF hits
  <2>2. \A i \in hits : (\A j \in hits : i <= j) => i = m + 1
    BY <1>5, <1>6, <1>7, <2>1
  <2> QED
    BY <1>6, <1>7, <2>2
<1>9. StopsAt(h) = (m + 1) - 1
  <2>1. hits # {}
    BY <1>6
  <2>2. StopsAt(h) = IF hits = {} THEN Len(nodes) ELSE (CHOOSE i \in hits : \A j \in hits : i <= j) - 1
    BY DEF StopsAt, data
  <2> QED
    BY <1>8, <2>1, <2>2
<1>10. StopsAt(h) = m
  BY <1>5, <1>9
<1>11. SelectInSeq(nodes, LAMBDA v : v = h) = m
  <2>1. I # {}
    BY <1>4
  <2> QED
    BY <2>1 DEF SelectInSeq, m
<1>12. RemoveFirst(nodes, h) = RemoveAt(nodes, m)
  BY <1>5, <1>11 DEF RemoveFirst
<1> QED
  BY <1>5, <1>10, <1>12

LEMMA RemovedAt ==
  ASSUME NEW S, NEW s \in Seq(S), NEW i \in 1..Len(s)
  PROVE  RemoveAt(s, i) \in Seq(S)
<1>1. Len(s) \in Nat /\ \A j \in 1..Len(s) : s[j] \in S
  BY LenProperties, ElementOfSeq
<1>2. SubSeq(s, 1, i - 1) \in Seq(S)
  <2>1. 1 \in Int /\ i - 1 \in Int /\ \A j \in 1..(i - 1) : s[j] \in S
    BY <1>1
  <2> QED
    BY <2>1, SubSeqProperties
<1>3. SubSeq(s, i + 1, Len(s)) \in Seq(S)
  <2>1. i + 1 \in Int /\ Len(s) \in Int /\ \A j \in (i + 1)..Len(s) : s[j] \in S
    BY <1>1
  <2> QED
    BY <2>1, SubSeqProperties
<1> QED
  BY <1>2, <1>3, ConcatProperties DEF RemoveAt

(* The list has handlers, and a walk is over one that exists.                 *)
HandlersInductive ==
    /\ nodes \in Seq(Handlers) /\ curr \in Nat
    /\ sentinel \in {"null", "live", "freed"}
    /\ HandlersInv

LEMMA HandlersStep ==
  ASSUME HandlersInductive, [TimerNext]_timerVars
  PROVE  HandlersInductive'
<1>1. nodes \in Seq(Handlers) /\ curr \in Nat /\ sentinel \in {"null", "live", "freed"}
      /\ (~strange => sentinel # "freed" /\ nodes = registered)
      /\ (curr # 0 => curr \in DOMAIN nodes /\ walked = SubSeq(nodes, 1, curr - 1))
  BY DEF HandlersInductive, HandlersInv, CancelsItsOwnIfKnown, CancelsItsOwn, WalkCallsAll
<1>2. DOMAIN nodes = 1..Len(nodes) /\ Len(nodes) \in Nat
  BY <1>1, LenProperties
<1> SUFFICES /\ nodes' \in Seq(Handlers) /\ curr' \in Nat /\ sentinel' \in {"null", "live", "freed"}
             /\ (~strange' => sentinel' # "freed" /\ nodes' = registered')
             /\ (curr' # 0 => curr' \in DOMAIN nodes' /\ walked' = SubSeq(nodes', 1, curr' - 1))
  BY DEF HandlersInductive, HandlersInv, CancelsItsOwnIfKnown, CancelsItsOwn, WalkCallsAll
<1>3. ASSUME InitList, sentinel # "freed" PROVE sentinel' \in {"null", "live"}
  BY <1>1, <1>3 DEF InitList
<1>4. ASSUME NEW h \in Handlers, Register(h)
      PROVE  /\ nodes' \in Seq(Handlers) /\ curr' = 0 /\ sentinel' \in {"null", "live"}
             /\ ~strange' => nodes' = registered'
  <2>1. nodes' = Append(nodes, h) /\ registered' = Append(registered, h) /\ curr' = 0 /\ strange' = strange
        /\ InitList /\ sentinel # "freed"
    BY <1>4 DEF Register
  <2> QED
    BY <1>1, <1>3, <2>1, AppendProperties
<1>5. ASSUME NEW h \in Handlers, Deregister(h)
      PROVE  /\ nodes' \in Seq(Handlers) /\ curr' = 0 /\ sentinel' \in {"live", "freed"}
             /\ ~strange' => sentinel' = "live" /\ nodes' = registered'
  <2> DEFINE i == StopsAt(h)
  <2>1. /\ curr' = 0 /\ sentinel = "live"
        /\ i = 0 => sentinel' = "freed" /\ nodes' = <<>>
        /\ i # 0 => nodes' = RemoveAt(nodes, i) /\ sentinel' = sentinel
        /\ registered' = RemoveFirst(registered, h)
        /\ ~strange' => ~strange /\ Contains(registered, h) /\ junk # h
    BY <1>5 DEF Deregister
  <2>2. i \in 0..Len(nodes)
    <3> DEFINE data == <<junk>> \o nodes
               hits == {k \in DOMAIN data : data[k] = h}
    <3>1. CASE hits = {}
      BY <1>2, <3>1 DEF StopsAt
    <3>2. CASE hits # {}
      <4>1. <<junk>> \in Seq(Handlers \cup {junk}) /\ nodes \in Seq(Handlers \cup {junk}) /\ Len(<<junk>>) = 1
        BY <1>1
      <4>2. data \in Seq(Handlers \cup {junk}) /\ Len(data) = 1 + Len(nodes)
        BY <4>1, ConcatProperties
      <4>3. DOMAIN data = 1..(1 + Len(nodes))
        BY <4>2, LenProperties
      <4>4. hits \in SUBSET Nat /\ hits \subseteq 1..(1 + Len(nodes))
        BY <1>2, <4>3
      <4> DEFINE c == CHOOSE k \in hits : \A j \in hits : k <= j
      <4>5. c \in hits
        <5> HIDE DEF hits
        <5>1. PICK k \in hits : \A j \in hits : k <= j
          BY <3>2, <4>4, LeastIn
        <5> QED
          BY <5>1
      <4>6. i = IF hits = {} THEN Len(nodes) ELSE c - 1
        BY DEF StopsAt
      <4> HIDE DEF c
      <4>7. c \in 1..(1 + Len(nodes))
        BY <4>4, <4>5
      <4>8. i = c - 1
        BY <3>2, <4>6
      <4> HIDE DEF i
      <4> QED
        BY <1>2, <4>7, <4>8
    <3> QED
      BY <3>1, <3>2
  <2>3. nodes' \in Seq(Handlers)
    <3>1. CASE i = 0
      BY <2>1, <3>1
    <3>2. CASE i # 0
      <4>1. i \in 1..Len(nodes)
        BY <1>2, <2>2, <3>2
      <4> QED
        BY <1>1, <2>1, <3>2, <4>1, RemovedAt
    <3> QED
      BY <3>1, <3>2
  <2>4. ASSUME ~strange' PROVE sentinel' = "live" /\ nodes' = registered'
    <3>1. nodes = registered /\ Contains(nodes, h) /\ junk # h
      BY <1>1, <2>1, <2>4
    <3>2. i \in 1..Len(nodes) /\ RemoveFirst(nodes, h) = RemoveAt(nodes, i)
      BY <1>1, <3>1, StopsWhere
    <3> QED
      BY <2>1, <3>1, <3>2
  <2> QED
    BY <1>1, <2>1, <2>3, <2>4
<1>6. CASE StartWalk
  <2>1. sentinel' \in {"null", "live"} /\ nodes' = nodes /\ registered' = registered /\ strange' = strange
        /\ walked' = <<>> /\ curr' = IF nodes = <<>> THEN 0 ELSE 1
    BY <1>3, <1>6 DEF StartWalk
  <2>2. SubSeq(nodes, 1, 1 - 1) = <<>>
    BY SubSeqEmpty
  <2>3. nodes # <<>> => 1 \in DOMAIN nodes
    BY <1>1, <1>2, EmptySeq
  <2> QED
    BY <1>1, <2>1, <2>2, <2>3
<1>7. CASE Call
  <2>1. curr # 0 /\ walked' = Append(walked, nodes[curr]) /\ nodes' = nodes /\ sentinel' = sentinel
        /\ registered' = registered /\ strange' = strange
        /\ curr' = IF curr = Len(nodes) THEN 0 ELSE curr + 1
    BY <1>1, <1>7, SMTT(30) DEF Call
  <2>2. curr \in 1..Len(nodes) /\ walked = SubSeq(nodes, 1, curr - 1)
    BY <1>1, <1>2, <2>1
  <2>3. nodes[curr] \in Handlers /\ SubSeq(nodes, 1, curr - 1) \in Seq(Handlers)
    <3>1. \A j \in 1..Len(nodes) : nodes[j] \in Handlers
      BY <1>1, ElementOfSeq
    <3>2. 1 \in Int /\ curr - 1 \in Int /\ \A j \in 1..(curr - 1) : nodes[j] \in Handlers
      BY <1>2, <2>2, <3>1
    <3> QED
      BY <2>2, <3>1, <3>2, SubSeqProperties
  <2>4. walked' = SubSeq(nodes, 1, curr)
    <3>1. walked' = walked \o <<nodes[curr]>>
      BY <2>1, <2>2, <2>3, AppendIsConcat
    <3>2. 1 \in 1..Len(nodes) /\ curr \in 1..Len(nodes)
      BY <1>2, <2>2
    <3>3. SubSeq(nodes, 1, curr) = SubSeq(nodes, 1, curr - 1) \o <<nodes[curr]>>
      BY <1>1, <3>2, SubSeqRecursiveSecond
    <3> QED
      BY <2>2, <3>1, <3>3
  <2>5. curr' # 0 => curr' \in DOMAIN nodes' /\ curr' - 1 = curr
    <3>1. DOMAIN nodes' = 1..Len(nodes)
      BY <1>2, <2>1
    <3>2. CASE curr = Len(nodes)
      BY <2>1, <3>2
    <3>3. CASE curr # Len(nodes)
      <4>1. curr' = curr + 1
        BY <2>1, <3>3
      <4>2. curr + 1 \in 1..Len(nodes) /\ (curr + 1) - 1 = curr
        <5>1. Len(nodes) \in Nat /\ curr \in 1..Len(nodes)
          BY <1>2, <2>2
        <5> QED
          BY <3>3, <5>1
      <4>3. curr' \in 1..Len(nodes) /\ curr' - 1 = curr
        BY <4>1, <4>2
      <4> QED
        BY <3>1, <4>3
    <3> QED
      BY <3>2, <3>3
  <2>6. curr' \in Nat
    BY <1>1, <2>1
  <2>7. curr' # 0 => walked' = SubSeq(nodes', 1, curr' - 1)
    BY <2>1, <2>4, <2>5
  <2> QED
    BY <1>1, <2>1, <2>5, <2>6, <2>7
<1>8. CASE UNCHANGED timerVars
  BY <1>1, <1>8 DEF timerVars
<1> QED
  BY <1>4, <1>5, <1>6, <1>7, <1>8 DEF TimerNext

(* timer.c: until a handler is named that is not registered, or the memory of *)
(* the sentinel happens to hold its address, the list is what was registered  *)
(* and not cancelled, in order; and an interrupt calls it from front to back. *)
THEOREM HandlersSafe == TimerSpec => []HandlersInv
<1>1. TimerInit => HandlersInductive
  BY DEF TimerInit, HandlersInductive, HandlersInv, CancelsItsOwnIfKnown, CancelsItsOwn, WalkCallsAll
<1>2. HandlersInductive => HandlersInv
  BY DEF HandlersInductive
<1> QED
  BY <1>1, <1>2, HandlersStep, PTL DEF TimerSpec

-----------------------------------------------------------------------------
(* A pipe. The clients on the list of the mutex are those that asked for it   *)
(* and have not left, each once; likewise those on the list of the condition. *)
InLine == {"w_lock", "w_push", "r_lock", "r_pop"}
Helping == {"w_push", "w_notify", "r_woken", "r_lock", "r_pop"}
Working == {"w_push", "r_pop"}

PipeTypes ==
    /\ stage \in [Clients -> Stages]
    /\ WellFormed(queue, Bytes)
    /\ lockQueue \in Seq(Clients) /\ waiting \in Seq(Clients)
    /\ output \in [Clients -> Seq(Bytes)] /\ input \in [Clients -> Seq(Bytes)]
    /\ wanted \in [Clients -> 0..MaxLen]
    /\ uneven \in BOOLEAN

LinesKept ==
    /\ IsInjective(lockQueue) /\ ToSet(lockQueue) = InStage(InLine)
    /\ IsInjective(waiting) /\ ToSet(waiting) = InStage({"r_wait"})

(* A call of one byte has one to push, or some to pop, or has popped one.     *)
CallsEven ==
    \A t \in Clients :
        /\ stage[t] # "r_pop" => input[t] = <<>>
        /\ ~uneven => /\ Len(output[t]) <= 1
                      /\ stage[t] \in {"r_lock", "r_wait", "r_woken"} => wanted[t] > 0
                      /\ stage[t] = "r_pop" /\ wanted[t] = 0 => input[t] # <<>>

(* While somebody sleeps, every byte has a call that is on its way to it or   *)
(* to the notification; and one more of them before a byte is pushed and      *)
(* after one is popped.                                                       *)
Ahead(t) ==
    \/ At(t, "w_push") /\ output[t] # <<>>
    \/ At(t, "r_pop") /\ input[t] # <<>>
EnoughHelp ==
    waiting # <<>> /\ ~uneven =>
        /\ Size(queue) <= Cardinality(InStage(Helping))
        /\ \A t \in Clients : Ahead(t) => Size(queue) < Cardinality(InStage(Helping))

PipeInductive == PipeTypes /\ OneAtATime /\ LinesKept /\ CallsEven /\ EnoughHelp

(* A client that goes from one stage to another.                              *)
LEMMA StageMoves ==
  ASSUME NEW t \in Clients, NEW s \in Stages, stage \in [Clients -> Stages], Goto(t, s)
  PROVE  /\ stage' \in [Clients -> Stages] /\ stage'[t] = s
         /\ \A u \in Clients : u # t => stage'[u] = stage[u]
  BY DEF Goto

LEMMA LockAsked ==
  ASSUME NEW t \in Clients, lockQueue \in Seq(Clients), IsInjective(lockQueue),
         t \notin ToSet(lockQueue), AskLock(t)
  PROVE  /\ lockQueue' \in Seq(Clients) /\ IsInjective(lockQueue')
         /\ ToSet(lockQueue') = ToSet(lockQueue) \cup {t}
         /\ \A u \in Clients : Holds(u) => Holds(u)'
<1>1. lockQueue' = Append(lockQueue, t)
  BY DEF AskLock
<1>2. Append(lockQueue, t) \in Seq(Clients) /\ Append(lockQueue, t) # <<>>
  BY AppendProperties
<1>3. lockQueue # <<>> => Head(Append(lockQueue, t)) = Head(lockQueue)
  BY HeadTailAppend
<1> QED
  BY <1>1, <1>2, <1>3, AppendOnce DEF Holds

LEMMA LockLeft ==
  ASSUME NEW t \in Clients, lockQueue \in Seq(Clients), IsInjective(lockQueue), Holds(t), Unlock
  PROVE  /\ lockQueue' \in Seq(Clients) /\ IsInjective(lockQueue')
         /\ ToSet(lockQueue') = ToSet(lockQueue) \ {t}
<1>1. lockQueue' = Tail(lockQueue) /\ lockQueue # <<>> /\ Head(lockQueue) = t
  BY DEF Holds, Unlock
<1>2. Tail(lockQueue) \in Seq(Clients)
  BY <1>1, HeadTailProperties
<1> QED
  BY <1>1, <1>2, TailOnce

(* Only the holder works.                                                     *)
LEMMA WorksAlone ==
  ASSUME OneAtATime, NEW t \in Clients, Holds(t), NEW u \in Clients, stage[u] \in Working
  PROVE  u = t
  BY DEF OneAtATime, InStage, Working, Holds

LEMMA LinesStep ==
  ASSUME PipeTypes, LinesKept, NEW t \in Clients, NEW s \in Stages, Goto(t, s),
         \/ (stage[t] \in InLine <=> s \in InLine) /\ lockQueue' = lockQueue
         \/ stage[t] \notin InLine /\ s \in InLine /\ AskLock(t)
         \/ stage[t] \in InLine /\ s \notin InLine /\ Holds(t) /\ Unlock,
         \/ stage[t] # "r_wait" /\ s # "r_wait" /\ waiting' = waiting
         \/ stage[t] # "r_wait" /\ s = "r_wait" /\ waiting' = Append(waiting, t)
  PROVE  LinesKept' /\ lockQueue' \in Seq(Clients) /\ waiting' \in Seq(Clients)
<1>1. /\ stage' \in [Clients -> Stages] /\ stage'[t] = s
      /\ \A u \in Clients : u # t => stage'[u] = stage[u]
  BY StageMoves DEF PipeTypes
<1>2. lockQueue \in Seq(Clients) /\ waiting \in Seq(Clients)
  BY DEF PipeTypes
<1>3. IsInjective(lockQueue') /\ ToSet(lockQueue') = InStage(InLine)' /\ lockQueue' \in Seq(Clients)
  <2>1. CASE (stage[t] \in InLine <=> s \in InLine) /\ lockQueue' = lockQueue
    <3>1. InStage(InLine)' = InStage(InLine)
      BY <1>1, <2>1 DEF InStage
    <3> QED
      BY <1>2, <2>1, <3>1 DEF LinesKept
  <2>2. CASE stage[t] \notin InLine /\ s \in InLine /\ AskLock(t)
    <3>1. InStage(InLine)' = InStage(InLine) \cup {t} /\ t \notin InStage(InLine)
      BY <1>1, <2>2 DEF InStage
    <3> QED
      BY <1>2, <2>2, <3>1, LockAsked DEF LinesKept
  <2>3. CASE stage[t] \in InLine /\ s \notin InLine /\ Holds(t) /\ Unlock
    <3>1. InStage(InLine)' = InStage(InLine) \ {t}
      BY <1>1, <2>3 DEF InStage
    <3> QED
      BY <1>2, <2>3, <3>1, LockLeft DEF LinesKept
  <2> QED
    BY <2>1, <2>2, <2>3
<1>4. IsInjective(waiting') /\ ToSet(waiting') = InStage({"r_wait"})' /\ waiting' \in Seq(Clients)
  <2>1. CASE stage[t] # "r_wait" /\ s # "r_wait" /\ waiting' = waiting
    <3>1. InStage({"r_wait"})' = InStage({"r_wait"})
      BY <1>1, <2>1 DEF InStage
    <3> QED
      BY <1>2, <2>1, <3>1 DEF LinesKept
  <2>2. CASE stage[t] # "r_wait" /\ s = "r_wait" /\ waiting' = Append(waiting, t)
    <3>1. InStage({"r_wait"})' = InStage({"r_wait"}) \cup {t} /\ t \notin InStage({"r_wait"})
      BY <1>1, <2>2 DEF InStage
    <3>2. Append(waiting, t) \in Seq(Clients)
      BY <1>2, AppendProperties
    <3>3. IsInjective(waiting) /\ ToSet(waiting) = InStage({"r_wait"}) /\ t \notin ToSet(waiting)
      BY <3>1 DEF LinesKept
    <3>4. IsInjective(Append(waiting, t)) /\ ToSet(Append(waiting, t)) = ToSet(waiting) \cup {t}
      BY <1>2, <3>3, AppendOnce
    <3> QED
      BY <2>2, <3>1, <3>2, <3>3, <3>4
  <2> QED
    BY <2>1, <2>2
<1> QED
  BY <1>3, <1>4 DEF LinesKept

LEMMA AloneStep ==
  ASSUME PipeTypes, OneAtATime, LinesKept, NEW t \in Clients, NEW s \in Stages, Goto(t, s),
         queue' = queue, \A u \in Clients : u # t => wanted'[u] = wanted[u],
         \/ lockQueue' = lockQueue
         \/ stage[t] \notin InLine /\ AskLock(t)
         \/ s \notin Working /\ Holds(t) /\ Unlock,
         s \in Working => /\ Holds(t) /\ lockQueue' = lockQueue
                          /\ s = "r_pop" => wanted'[t] <= Size(queue)
  PROVE  OneAtATime'
<1>1. /\ stage' \in [Clients -> Stages] /\ stage'[t] = s
      /\ \A u \in Clients : u # t => stage'[u] = stage[u]
  BY StageMoves DEF PipeTypes
<1> SUFFICES ASSUME NEW u \in Clients, stage'[u] \in Working
             PROVE  Holds(u)' /\ (stage'[u] = "r_pop" => wanted'[u] <= Size(queue'))
  BY DEF OneAtATime, InStage, At, Working
<1>2. CASE u = t
  BY <1>1, <1>2 DEF Holds
<1>3. CASE u # t
  <2>1. stage[u] \in Working /\ stage'[u] = stage[u] /\ wanted'[u] = wanted[u]
    BY <1>1, <1>3
  <2>2. Holds(u) /\ (stage[u] = "r_pop" => wanted[u] <= Size(queue))
    BY <2>1 DEF OneAtATime, InStage, At, Working
  <2>3. ~ Holds(t)
    BY <1>3, <2>2 DEF Holds
  <2>4. CASE lockQueue' = lockQueue
    BY <2>1, <2>2, <2>4 DEF Holds
  <2>5. CASE stage[t] \notin InLine /\ AskLock(t)
    <3>1. t \notin ToSet(lockQueue) /\ lockQueue \in Seq(Clients) /\ IsInjective(lockQueue)
      BY <2>5 DEF LinesKept, InStage, PipeTypes
    <3> QED
      BY <2>1, <2>2, <2>5, <3>1, LockAsked
  <2> QED
    BY <2>3, <2>4, <2>5
<1> QED
  BY <1>2, <1>3

(* How the number of those who help changes.                                  *)
LEMMA HelpCounted ==
  ASSUME PipeAssumption, stage \in [Clients -> Stages], NEW t \in Clients, NEW s \in Stages, Goto(t, s)
  PROVE  LET n == Cardinality(InStage(Helping))
             m == Cardinality(InStage(Helping)')
         IN /\ n \in Nat /\ m \in Nat
            /\ (stage[t] \in Helping <=> s \in Helping) => m = n
            /\ stage[t] \notin Helping /\ s \in Helping => m = n + 1
            /\ stage[t] \in Helping /\ s \notin Helping => m = n - 1
<1>1. /\ stage' \in [Clients -> Stages] /\ stage'[t] = s
      /\ \A u \in Clients : u # t => stage'[u] = stage[u]
  BY StageMoves
<1>2. IsFiniteSet(InStage(Helping)) /\ IsFiniteSet(InStage(Helping)')
  <2>1. InStage(Helping) \subseteq Clients /\ InStage(Helping)' \subseteq Clients /\ IsFiniteSet(Clients)
    BY DEF InStage, PipeAssumption
  <2> QED
    BY <2>1, FS_Subset
<1>3. Cardinality(InStage(Helping)) \in Nat /\ Cardinality(InStage(Helping)') \in Nat
  BY <1>2, FS_CardinalityType
<1>4. ASSUME stage[t] \in Helping <=> s \in Helping
      PROVE  InStage(Helping)' = InStage(Helping)
  BY <1>1, <1>4 DEF InStage
<1>5. ASSUME stage[t] \notin Helping, s \in Helping
      PROVE  Cardinality(InStage(Helping)') = Cardinality(InStage(Helping)) + 1
  <2>1. InStage(Helping)' = InStage(Helping) \cup {t} /\ t \notin InStage(Helping)
    BY <1>1, <1>5 DEF InStage
  <2> QED
    BY <1>2, <2>1, FS_AddElement
<1>6. ASSUME stage[t] \in Helping, s \notin Helping
      PROVE  Cardinality(InStage(Helping)') = Cardinality(InStage(Helping)) - 1
  <2>1. InStage(Helping)' = InStage(Helping) \ {t} /\ t \in InStage(Helping)
    BY <1>1, <1>6 DEF InStage
  <2> QED
    BY <1>2, <2>1, FS_RemoveElement
<1> QED
  BY <1>3, <1>4, <1>5, <1>6

LEMMA HelpKept ==
  ASSUME PipeAssumption, PipeTypes, EnoughHelp, NEW t \in Clients, NEW s \in Stages, Goto(t, s),
         queue' = queue, waiting' = waiting, uneven => uneven', uneven' \in BOOLEAN,
         \A u \in Clients : u # t => output'[u] = output[u] /\ input'[u] = input[u],
         stage[t] \in Helping => s \in Helping,
         Ahead(t)' => stage[t] \notin Helping /\ s \in Helping
  PROVE  EnoughHelp'
<1> DEFINE n == Cardinality(InStage(Helping))
           m == Cardinality(InStage(Helping)')
<1>1. /\ stage' \in [Clients -> Stages] /\ stage'[t] = s
      /\ \A u \in Clients : u # t => stage'[u] = stage[u]
  BY StageMoves DEF PipeTypes
<1>2. n \in Nat /\ m \in Nat /\ m >= n /\ (stage[t] \notin Helping /\ s \in Helping => m = n + 1)
  BY HelpCounted DEF PipeTypes
<1>3. Size(queue) \in Nat
  BY DequeShape DEF PipeTypes
<1>4. \A u \in Clients : u # t => (Ahead(u)' <=> Ahead(u))
  BY <1>1 DEF Ahead, At
<1> HIDE DEF n, m
<1> SUFFICES ASSUME waiting # <<>>, ~uneven
             PROVE  Size(queue) <= m /\ \A u \in Clients : Ahead(u)' => Size(queue) < m
  BY DEF EnoughHelp, m
<1>5. Size(queue) <= n /\ \A u \in Clients : Ahead(u) => Size(queue) < n
  BY DEF EnoughHelp, n
<1> QED
  BY <1>2, <1>3, <1>4, <1>5

(* One lemma for each step of a call: what the pipe relies on is kept.        *)
LEMMA WriteKeeps ==
  ASSUME PipeAssumption, PipeInductive, NEW t \in Clients, Write(t)
  PROVE  PipeInductive'
<1>1. /\ PipeTypes /\ OneAtATime /\ LinesKept /\ CallsEven /\ EnoughHelp
      /\ stage \in [Clients -> Stages] /\ output \in [Clients -> Seq(Bytes)] /\ "w_lock" \in Stages
  BY DEF PipeInductive, PipeTypes, Stages
<1>2. PICK bytes \in Lengths(MaxLen) :
          output' = [output EXCEPT ![t] = bytes] /\ uneven' = (uneven \/ Len(bytes) > 1)
  BY DEF Write
<1>3. stage[t] = "idle" /\ AskLock(t) /\ Goto(t, "w_lock")
      /\ queue' = queue /\ waiting' = waiting /\ wanted' = wanted /\ input' = input
  BY DEF Write, At
<1>4. /\ stage' \in [Clients -> Stages] /\ stage'[t] = "w_lock"
      /\ \A u \in Clients : u # t => stage'[u] = stage[u]
  BY <1>1, <1>3, StageMoves
<1>5. bytes \in Seq(Bytes) /\ Len(bytes) \in Nat
  <2>1. PICK k \in 0..MaxLen : bytes \in [1..k -> Bytes]
    BY DEF Lengths
  <2>2. k \in Nat
    BY DEF PipeAssumption
  <2> QED
    BY <2>1, <2>2, SeqDef, LenProperties
<1>6. output' \in [Clients -> Seq(Bytes)] /\ output'[t] = bytes
      /\ \A u \in Clients : u # t => output'[u] = output[u]
  BY <1>1, <1>2, <1>5
<1>7. LinesKept' /\ lockQueue' \in Seq(Clients) /\ waiting' \in Seq(Clients)
  BY <1>1, <1>3, LinesStep DEF InLine
<1>8. PipeTypes'
  BY <1>1, <1>2, <1>3, <1>4, <1>6, <1>7 DEF PipeTypes
<1>9. OneAtATime'
  BY <1>1, <1>3, AloneStep DEF InLine, Working
<1>10. CallsEven'
  <2> SUFFICES ASSUME NEW u \in Clients
               PROVE  /\ stage'[u] # "r_pop" => input'[u] = <<>>
                      /\ ~uneven' => /\ Len(output'[u]) <= 1
                                     /\ stage'[u] \in {"r_lock", "r_wait", "r_woken"} => wanted'[u] > 0
                                     /\ stage'[u] = "r_pop" /\ wanted'[u] = 0 => input'[u] # <<>>
    BY DEF CallsEven
  <2>1. CASE u = t
    <3>1. ~uneven' => ~uneven /\ ~(Len(bytes) > 1)
      BY <1>2
    <3>2. ~(Len(bytes) > 1) => Len(bytes) <= 1
      BY <1>5
    <3> QED
      BY <1>1, <1>3, <1>4, <1>6, <2>1, <3>1, <3>2 DEF CallsEven
  <2>2. CASE u # t
    BY <1>1, <1>2, <1>3, <1>4, <1>6, <2>2 DEF CallsEven
  <2> QED
    BY <2>1, <2>2
<1>11. EnoughHelp'
  <2>1. ~ Ahead(t)'
    BY <1>4 DEF Ahead, At
  <2> QED
    BY <1>1, <1>2, <1>3, <1>6, <2>1, HelpKept DEF Helping
<1> QED
  BY <1>7, <1>8, <1>9, <1>10, <1>11 DEF PipeInductive

LEMMA ReadKeeps ==
  ASSUME PipeAssumption, PipeInductive, NEW t \in Clients, Read(t)
  PROVE  PipeInductive'
<1>1. /\ PipeTypes /\ OneAtATime /\ LinesKept /\ CallsEven /\ EnoughHelp
      /\ stage \in [Clients -> Stages] /\ wanted \in [Clients -> 0..MaxLen] /\ "r_lock" \in Stages
  BY DEF PipeInductive, PipeTypes, Stages
<1>2. PICK n \in 0..MaxLen : wanted' = [wanted EXCEPT ![t] = n] /\ uneven' = (uneven \/ n = 0)
  BY DEF Read
<1>3. stage[t] = "idle" /\ AskLock(t) /\ Goto(t, "r_lock")
      /\ queue' = queue /\ waiting' = waiting /\ output' = output /\ input' = input
  BY DEF Read, At
<1>4. /\ stage' \in [Clients -> Stages] /\ stage'[t] = "r_lock"
      /\ \A u \in Clients : u # t => stage'[u] = stage[u]
  BY <1>1, <1>3, StageMoves
<1>6. wanted' \in [Clients -> 0..MaxLen] /\ wanted'[t] = n
      /\ \A u \in Clients : u # t => wanted'[u] = wanted[u]
  BY <1>1, <1>2
<1>7. LinesKept' /\ lockQueue' \in Seq(Clients) /\ waiting' \in Seq(Clients)
  BY <1>1, <1>3, LinesStep DEF InLine
<1>8. PipeTypes'
  BY <1>1, <1>2, <1>3, <1>4, <1>6, <1>7 DEF PipeTypes
<1>9. OneAtATime'
  BY <1>1, <1>3, <1>6, AloneStep DEF InLine, Working
<1>10. CallsEven'
  <2> SUFFICES ASSUME NEW u \in Clients
               PROVE  /\ stage'[u] # "r_pop" => input'[u] = <<>>
                      /\ ~uneven' => /\ Len(output'[u]) <= 1
                                     /\ stage'[u] \in {"r_lock", "r_wait", "r_woken"} => wanted'[u] > 0
                                     /\ stage'[u] = "r_pop" /\ wanted'[u] = 0 => input'[u] # <<>>
    BY DEF CallsEven
  <2>1. CASE u = t
    <3>1. ~uneven' => ~uneven /\ n > 0
      <4>1. ~uneven' => ~uneven /\ n # 0
        BY <1>2
      <4>2. n \in Nat
        BY DEF PipeAssumption
      <4> QED
        BY <4>1, <4>2
    <3> QED
      BY <1>1, <1>3, <1>4, <1>6, <2>1, <3>1 DEF CallsEven
  <2>2. CASE u # t
    BY <1>1, <1>2, <1>3, <1>4, <1>6, <2>2 DEF CallsEven
  <2> QED
    BY <2>1, <2>2
<1>11. EnoughHelp'
  <2>1. ~ Ahead(t)'
    BY <1>4 DEF Ahead, At
  <2> QED
    BY <1>1, <1>2, <1>3, <1>6, <2>1, HelpKept DEF Helping
<1> QED
  BY <1>7, <1>8, <1>9, <1>10, <1>11 DEF PipeInductive

LEMMA EvenKept ==
  ASSUME PipeTypes, CallsEven, NEW t \in Clients, NEW s \in Stages, Goto(t, s),
         output' = output, input' = input, uneven' = uneven,
         \A u \in Clients : u # t => wanted'[u] = wanted[u],
         s # "r_pop" => input[t] = <<>>,
         ~uneven /\ s \in {"r_lock", "r_wait", "r_woken", "r_pop"} => wanted'[t] > 0
  PROVE  CallsEven'
<1>1. /\ stage' \in [Clients -> Stages] /\ stage'[t] = s
      /\ \A u \in Clients : u # t => stage'[u] = stage[u]
  BY StageMoves DEF PipeTypes
<1> SUFFICES ASSUME NEW u \in Clients
             PROVE  /\ stage'[u] # "r_pop" => input'[u] = <<>>
                    /\ ~uneven' => /\ Len(output'[u]) <= 1
                                   /\ stage'[u] \in {"r_lock", "r_wait", "r_woken"} => wanted'[u] > 0
                                   /\ stage'[u] = "r_pop" /\ wanted'[u] = 0 => input'[u] # <<>>
  BY DEF CallsEven
<1>2. CASE u = t
  BY <1>1, <1>2 DEF CallsEven
<1>3. CASE u # t
  BY <1>1, <1>3 DEF CallsEven
<1> QED
  BY <1>2, <1>3

LEMMA WriteLockedKeeps ==
  ASSUME PipeAssumption, PipeInductive, NEW t \in Clients, WriteLocked(t)
  PROVE  PipeInductive'
<1>1. /\ PipeTypes /\ OneAtATime /\ LinesKept /\ CallsEven /\ EnoughHelp
      /\ stage \in [Clients -> Stages] /\ "w_push" \in Stages
  BY DEF PipeInductive, PipeTypes, Stages
<1>2. stage[t] = "w_lock" /\ Holds(t) /\ Goto(t, "w_push") /\ lockQueue' = lockQueue /\ uneven' = uneven
      /\ queue' = queue /\ waiting' = waiting /\ output' = output /\ wanted' = wanted /\ input' = input
  BY DEF WriteLocked, At
<1>3. stage' \in [Clients -> Stages] /\ stage'[t] = "w_push"
  BY <1>1, <1>2, StageMoves
<1>4. LinesKept'
  BY <1>1, <1>2, LinesStep DEF InLine
<1>5. PipeTypes'
  BY <1>1, <1>2, <1>3 DEF PipeTypes
<1>6. OneAtATime'
  BY <1>1, <1>2, AloneStep
<1>7. CallsEven'
  <2>1. input[t] = <<>>
    BY <1>1, <1>2 DEF CallsEven
  <2> QED
    BY <1>1, <1>2, <2>1, EvenKept
<1>8. EnoughHelp'
  <2>1. uneven' \in BOOLEAN
    BY <1>1, <1>2 DEF PipeTypes
  <2> QED
    BY <1>1, <1>2, <2>1, HelpKept DEF Helping
<1> QED
  BY <1>4, <1>5, <1>6, <1>7, <1>8 DEF PipeInductive

LEMMA PushDoneKeeps ==
  ASSUME PipeAssumption, PipeInductive, NEW t \in Clients, PushDone(t)
  PROVE  PipeInductive'
<1>1. /\ PipeTypes /\ OneAtATime /\ LinesKept /\ CallsEven /\ EnoughHelp
      /\ stage \in [Clients -> Stages] /\ "w_notify" \in Stages
  BY DEF PipeInductive, PipeTypes, Stages
<1>2. stage[t] = "w_push" /\ Goto(t, "w_notify") /\ Unlock /\ uneven' = uneven
      /\ queue' = queue /\ waiting' = waiting /\ output' = output /\ wanted' = wanted /\ input' = input
  BY DEF PushDone, At
<1>3. stage' \in [Clients -> Stages] /\ stage'[t] = "w_notify"
  BY <1>1, <1>2, StageMoves
<1>4. Holds(t)
  BY <1>1, <1>2 DEF OneAtATime, InStage, At
<1>5. LinesKept' /\ lockQueue' \in Seq(Clients)
  BY <1>1, <1>2, <1>4, LinesStep DEF InLine
<1>6. PipeTypes'
  BY <1>1, <1>2, <1>3, <1>5 DEF PipeTypes
<1>7. OneAtATime'
  BY <1>1, <1>2, <1>4, AloneStep DEF Working
<1>8. CallsEven'
  <2>1. input[t] = <<>>
    BY <1>1, <1>2 DEF CallsEven
  <2> QED
    BY <1>1, <1>2, <2>1, EvenKept
<1>9. EnoughHelp'
  <2>1. uneven' \in BOOLEAN /\ ~ Ahead(t)'
    BY <1>1, <1>2, <1>3 DEF PipeTypes, Ahead, At
  <2> QED
    BY <1>1, <1>2, <2>1, HelpKept DEF Helping
<1> QED
  BY <1>5, <1>6, <1>7, <1>8, <1>9 DEF PipeInductive

LEMMA RelockKeeps ==
  ASSUME PipeAssumption, PipeInductive, NEW t \in Clients, Relock(t)
  PROVE  PipeInductive'
<1>1. /\ PipeTypes /\ OneAtATime /\ LinesKept /\ CallsEven /\ EnoughHelp
      /\ stage \in [Clients -> Stages] /\ "r_lock" \in Stages
  BY DEF PipeInductive, PipeTypes, Stages
<1>2. stage[t] = "r_woken" /\ Goto(t, "r_lock") /\ AskLock(t) /\ uneven' = uneven
      /\ queue' = queue /\ waiting' = waiting /\ output' = output /\ wanted' = wanted /\ input' = input
  BY DEF Relock, At
<1>3. stage' \in [Clients -> Stages] /\ stage'[t] = "r_lock"
  BY <1>1, <1>2, StageMoves
<1>4. LinesKept' /\ lockQueue' \in Seq(Clients)
  BY <1>1, <1>2, LinesStep DEF InLine
<1>5. PipeTypes'
  BY <1>1, <1>2, <1>3, <1>4 DEF PipeTypes
<1>6. OneAtATime'
  BY <1>1, <1>2, AloneStep DEF Working, InLine
<1>7. CallsEven'
  <2>1. input[t] = <<>> /\ (~uneven => wanted[t] > 0)
    BY <1>1, <1>2 DEF CallsEven
  <2> QED
    BY <1>1, <1>2, <2>1, EvenKept
<1>8. EnoughHelp'
  <2>1. uneven' \in BOOLEAN /\ ~ Ahead(t)'
    BY <1>1, <1>2, <1>3 DEF PipeTypes, Ahead, At
  <2> QED
    BY <1>1, <1>2, <2>1, HelpKept DEF Helping
<1> QED
  BY <1>4, <1>5, <1>6, <1>7, <1>8 DEF PipeInductive

LEMMA ReadNonEmptyKeeps ==
  ASSUME PipeAssumption, PipeInductive, NEW t \in Clients, ReadNonEmpty(t)
  PROVE  PipeInductive'
<1>1. /\ PipeTypes /\ OneAtATime /\ LinesKept /\ CallsEven /\ EnoughHelp
      /\ stage \in [Clients -> Stages] /\ wanted \in [Clients -> 0..MaxLen] /\ "r_pop" \in Stages
  BY DEF PipeInductive, PipeTypes, Stages
<1> DEFINE n == IF wanted[t] < Size(queue) THEN wanted[t] ELSE Size(queue)
<1>2. stage[t] = "r_lock" /\ Holds(t) /\ Goto(t, "r_pop") /\ lockQueue' = lockQueue /\ uneven' = uneven
      /\ queue' = queue /\ waiting' = waiting /\ output' = output /\ input' = input
      /\ wanted' = [wanted EXCEPT ![t] = n] /\ Size(queue) # 0
  BY DEF ReadNonEmpty, At
<1>3. stage' \in [Clients -> Stages] /\ stage'[t] = "r_pop"
  BY <1>1, <1>2, StageMoves
<1>4. Size(queue) \in Nat \ {0} /\ wanted[t] \in 0..MaxLen
  BY <1>1, <1>2, DequeShape DEF PipeTypes
<1>5. n \in 0..MaxLen /\ n <= Size(queue) /\ (wanted[t] > 0 => n > 0)
  BY <1>4 DEF PipeAssumption
<1> HIDE DEF n
<1>6. /\ wanted' \in [Clients -> 0..MaxLen]
      /\ wanted'[t] = n /\ \A u \in Clients : u # t => wanted'[u] = wanted[u]
  BY <1>1, <1>2, <1>5
<1>7. LinesKept'
  BY <1>1, <1>2, LinesStep DEF InLine
<1>8. PipeTypes'
  BY <1>1, <1>2, <1>3, <1>6 DEF PipeTypes
<1>9. OneAtATime'
  BY <1>1, <1>2, <1>5, <1>6, AloneStep
<1>10. input[t] = <<>> /\ (~uneven => wanted[t] > 0)
  BY <1>1, <1>2 DEF CallsEven
<1>11. CallsEven'
  BY <1>1, <1>2, <1>5, <1>6, <1>10, EvenKept
<1>12. EnoughHelp'
  <2>1. uneven' \in BOOLEAN /\ ~ Ahead(t)'
    BY <1>1, <1>2, <1>3, <1>10 DEF PipeTypes, Ahead, At
  <2> QED
    BY <1>1, <1>2, <2>1, HelpKept DEF Helping
<1> QED
  BY <1>7, <1>8, <1>9, <1>11, <1>12 DEF PipeInductive

LEMMA WaitWhileEmptyKeeps ==
  ASSUME PipeAssumption, PipeInductive, NEW t \in Clients, WaitWhileEmpty(t)
  PROVE  PipeInductive'
<1>1. /\ PipeTypes /\ OneAtATime /\ LinesKept /\ CallsEven /\ EnoughHelp
      /\ stage \in [Clients -> Stages] /\ "r_wait" \in Stages
  BY DEF PipeInductive, PipeTypes, Stages
<1>2. stage[t] = "r_lock" /\ Holds(t) /\ Goto(t, "r_wait") /\ Unlock /\ uneven' = uneven
      /\ queue' = queue /\ waiting' = Append(waiting, t) /\ output' = output /\ wanted' = wanted
      /\ input' = input /\ Size(queue) = 0
  BY DEF WaitWhileEmpty, At
<1>3. /\ stage' \in [Clients -> Stages] /\ stage'[t] = "r_wait"
      /\ \A u \in Clients : u # t => stage'[u] = stage[u]
  BY <1>1, <1>2, StageMoves
<1>4. LinesKept' /\ lockQueue' \in Seq(Clients) /\ waiting' \in Seq(Clients)
  BY <1>1, <1>2, LinesStep DEF InLine
<1>5. PipeTypes'
  BY <1>1, <1>2, <1>3, <1>4 DEF PipeTypes
<1>6. OneAtATime'
  BY <1>1, <1>2, AloneStep DEF Working
<1>7. CallsEven'
  <2>1. input[t] = <<>> /\ (~uneven => wanted[t] > 0)
    BY <1>1, <1>2 DEF CallsEven
  <2> QED
    BY <1>1, <1>2, <2>1, EvenKept
<1>8. EnoughHelp'
  <2>1. Cardinality(InStage(Helping)') \in Nat
    BY <1>1, <1>2, HelpCounted
  <2>2. ASSUME NEW u \in Clients PROVE ~ Ahead(u)'
    <3>1. stage'[u] \notin Working
      BY <1>1, <1>2, <1>3, WorksAlone DEF Working
    <3> QED
      BY <3>1 DEF Ahead, At, Working
  <2>3. Size(queue') <= Cardinality(InStage(Helping)')
    BY <1>2, <2>1
  <2> QED
    BY <2>2, <2>3 DEF EnoughHelp
<1> QED
  BY <1>4, <1>5, <1>6, <1>7, <1>8 DEF PipeInductive

LEMMA PopDoneKeeps ==
  ASSUME PipeAssumption, PipeInductive, NEW t \in Clients, PopDone(t)
  PROVE  PipeInductive'
<1> DEFINE n == Cardinality(InStage(Helping))
           m == Cardinality(InStage(Helping)')
<1>1. /\ PipeTypes /\ OneAtATime /\ LinesKept /\ CallsEven /\ EnoughHelp
      /\ stage \in [Clients -> Stages] /\ input \in [Clients -> Seq(Bytes)] /\ "idle" \in Stages
  BY DEF PipeInductive, PipeTypes, Stages
<1>2. stage[t] = "r_pop" /\ wanted[t] = 0 /\ Goto(t, "idle") /\ Unlock /\ uneven' = uneven
      /\ queue' = queue /\ waiting' = waiting /\ output' = output /\ wanted' = wanted
      /\ input' = [input EXCEPT ![t] = <<>>]
  BY DEF PopDone, At
<1>3. /\ stage' \in [Clients -> Stages] /\ stage'[t] = "idle"
      /\ \A u \in Clients : u # t => stage'[u] = stage[u]
  BY <1>1, <1>2, StageMoves
<1>4. /\ input' \in [Clients -> Seq(Bytes)]
      /\ input'[t] = <<>> /\ \A u \in Clients : u # t => input'[u] = input[u]
  BY <1>1, <1>2
<1>5. Holds(t)
  BY <1>1, <1>2 DEF OneAtATime, InStage, At
<1>6. LinesKept' /\ lockQueue' \in Seq(Clients)
  BY <1>1, <1>2, <1>5, LinesStep DEF InLine
<1>7. PipeTypes'
  BY <1>1, <1>2, <1>3, <1>4, <1>6 DEF PipeTypes
<1>8. OneAtATime'
  BY <1>1, <1>2, <1>5, AloneStep DEF Working
<1>9. CallsEven'
  <2> SUFFICES ASSUME NEW u \in Clients
               PROVE  /\ stage'[u] # "r_pop" => input'[u] = <<>>
                      /\ ~uneven' => /\ Len(output'[u]) <= 1
                                     /\ stage'[u] \in {"r_lock", "r_wait", "r_woken"} => wanted'[u] > 0
                                     /\ stage'[u] = "r_pop" /\ wanted'[u] = 0 => input'[u] # <<>>
    BY DEF CallsEven
  <2>1. CASE u = t
    BY <1>1, <1>2, <1>3, <1>4, <2>1 DEF CallsEven
  <2>2. CASE u # t
    BY <1>1, <1>2, <1>3, <1>4, <2>2 DEF CallsEven
  <2> QED
    BY <2>1, <2>2
<1>10. EnoughHelp'
  <2>1. n \in Nat /\ m \in Nat /\ m = n - 1
    BY <1>1, <1>2, HelpCounted DEF Helping
  <2>2. ASSUME NEW u \in Clients PROVE ~ Ahead(u)'
    <3>1. stage'[u] \notin Working
      BY <1>1, <1>2, <1>3, <1>5, WorksAlone DEF Working
    <3> QED
      BY <3>1 DEF Ahead, At, Working
  <2>3. ASSUME waiting # <<>>, ~uneven PROVE Size(queue) < n /\ Size(queue) \in Nat
    <3>1. Ahead(t)
      BY <1>1, <1>2, <2>3 DEF CallsEven, Ahead, At
    <3>2. Size(queue) \in Nat
      BY <1>1, DequeShape DEF PipeTypes
    <3> QED
      BY <1>1, <2>3, <3>1, <3>2 DEF EnoughHelp
  <2> HIDE DEF n, m
  <2>4. waiting # <<>> /\ ~uneven => Size(queue) <= m
    BY <2>1, <2>3
  <2> QED
    BY <1>2, <2>2, <2>4 DEF EnoughHelp, m
<1> QED
  BY <1>6, <1>7, <1>8, <1>9, <1>10 DEF PipeInductive

LEMMA PushByteKeeps ==
  ASSUME PipeAssumption, PipeInductive, NEW t \in Clients, PushByte(t)
  PROVE  /\ PipeInductive'
         /\ Contents(queue') = Append(Contents(queue), Head(output[t])) /\ Head(output[t]) \in Bytes
<1> DEFINE n == Cardinality(InStage(Helping))
<1>1. /\ PipeTypes /\ OneAtATime /\ LinesKept /\ CallsEven /\ EnoughHelp
      /\ output \in [Clients -> Seq(Bytes)] /\ WellFormed(queue, Bytes)
  BY DEF PipeInductive, PipeTypes
<1>2. stage[t] = "w_push" /\ output[t] # <<>> /\ queue' = PushBack(queue, Head(output[t]))
      /\ output' = [output EXCEPT ![t] = Tail(output[t])] /\ stage' = stage /\ lockQueue' = lockQueue
      /\ waiting' = waiting /\ wanted' = wanted /\ input' = input /\ uneven' = uneven
  BY DEF PushByte, At
<1>3. Head(output[t]) \in Bytes /\ Tail(output[t]) \in Seq(Bytes) /\ Len(Tail(output[t])) = Len(output[t]) - 1
      /\ Len(output[t]) \in Nat
  BY <1>1, <1>2, HeadTailProperties, LenProperties
<1>4. WellFormed(queue', Bytes) /\ Size(queue') = Size(queue) + 1 /\ Size(queue) \in Nat
      /\ Contents(queue') = Append(Contents(queue), Head(output[t]))
  <2> DEFINE v == Head(output[t])
  <2>1. v \in Bytes /\ queue' = PushBack(queue, v)
    BY <1>2, <1>3
  <2> HIDE DEF v
  <2>2. WellFormed(queue', Bytes) /\ Size(queue') = Size(queue) + 1
        /\ Contents(queue') = Append(Contents(queue), v)
    BY <1>1, <2>1, DequePush
  <2>3. Size(queue) \in Nat
    BY <1>1, DequeShape
  <2> QED
    BY <2>2, <2>3 DEF v
<1>5. output' \in [Clients -> Seq(Bytes)] /\ output'[t] = Tail(output[t])
      /\ \A u \in Clients : u # t => output'[u] = output[u]
  BY <1>1, <1>2, <1>3
<1>6. PipeTypes'
  BY <1>1, <1>2, <1>4, <1>5 DEF PipeTypes
<1>7. Holds(t)
  BY <1>1, <1>2 DEF OneAtATime, InStage, At
<1>8. \A u \in Clients : stage[u] \in Working => u = t
  BY <1>1, <1>7, WorksAlone
<1>9. OneAtATime'
  <2> SUFFICES ASSUME NEW u \in Clients, stage'[u] \in Working
               PROVE  Holds(u)' /\ (stage'[u] = "r_pop" => wanted'[u] <= Size(queue'))
    BY DEF OneAtATime, InStage, At, Working
  <2>1. u = t
    BY <1>2, <1>8
  <2> QED
    BY <1>2, <1>7, <2>1 DEF Holds
<1>10. LinesKept'
  BY <1>1, <1>2 DEF LinesKept, InStage
<1>11. CallsEven'
  <2> SUFFICES ASSUME NEW u \in Clients
               PROVE  /\ stage'[u] # "r_pop" => input'[u] = <<>>
                      /\ ~uneven' => /\ Len(output'[u]) <= 1
                                     /\ stage'[u] \in {"r_lock", "r_wait", "r_woken"} => wanted'[u] > 0
                                     /\ stage'[u] = "r_pop" /\ wanted'[u] = 0 => input'[u] # <<>>
    BY DEF CallsEven
  <2>1. ~uneven => Len(output'[u]) <= 1
    <3>1. CASE u = t
      <4>1. ~uneven => Len(output[t]) <= 1
        BY <1>1 DEF CallsEven
      <4> QED
        BY <1>3, <1>5, <3>1, <4>1
    <3>2. CASE u # t
      BY <1>1, <1>5, <3>2 DEF CallsEven
    <3> QED
      BY <3>1, <3>2
  <2> QED
    BY <1>1, <1>2, <2>1 DEF CallsEven
<1>12. EnoughHelp'
  <2> SUFFICES ASSUME waiting # <<>>, ~uneven
               PROVE  Size(queue') <= n /\ \A u \in Clients : ~ Ahead(u)'
    BY <1>2 DEF EnoughHelp, InStage
  <2>1. Ahead(t)
    BY <1>2 DEF Ahead, At
  <2>2. Size(queue) < n
    BY <1>1, <2>1 DEF EnoughHelp
  <2>3. n \in Nat
    <3>1. InStage(Helping) \subseteq Clients /\ IsFiniteSet(Clients)
      BY DEF InStage, PipeAssumption
    <3> QED
      BY <3>1, FS_Subset, FS_CardinalityType
  <2>4. output'[t] = <<>>
    <3>1. Len(output[t]) <= 1
      BY <1>1 DEF CallsEven
    <3>2. Len(Tail(output[t])) \in Nat
      BY <1>3, LenProperties
    <3> DEFINE k == Len(output[t])
               j == Len(Tail(output[t]))
    <3>3. j = 0
      <4>1. k \in Nat /\ j \in Nat /\ j = k - 1 /\ k <= 1
        BY <1>3, <3>1, <3>2
      <4> HIDE DEF j, k
      <4> QED
        BY <4>1
    <3> QED
      BY <1>3, <1>5, <3>3, EmptySeq
  <2>5. ASSUME NEW u \in Clients PROVE ~ Ahead(u)'
    BY <1>2, <1>8, <2>4 DEF Ahead, At, Working
  <2> HIDE DEF n
  <2>6. Size(queue') <= n
    BY <1>4, <2>2, <2>3
  <2> QED
    BY <2>5, <2>6
<1> QED
  BY <1>3, <1>4, <1>6, <1>9, <1>10, <1>11, <1>12 DEF PipeInductive

LEMMA PopByteKeeps ==
  ASSUME PipeAssumption, PipeInductive, NEW t \in Clients, PopByte(t)
  PROVE  /\ PipeInductive'
         /\ Contents(queue) # <<>> /\ Contents(queue') = Tail(Contents(queue))
         /\ Foremost(queue) = Head(Contents(queue))
<1> DEFINE n == Cardinality(InStage(Helping))
<1>1. /\ PipeTypes /\ OneAtATime /\ LinesKept /\ CallsEven /\ EnoughHelp
      /\ input \in [Clients -> Seq(Bytes)] /\ WellFormed(queue, Bytes) /\ wanted \in [Clients -> 0..MaxLen]
  BY DEF PipeInductive, PipeTypes
<1>2. stage[t] = "r_pop" /\ wanted[t] > 0 /\ queue' = PopFront(queue)
      /\ input' = [input EXCEPT ![t] = Append(input[t], Foremost(queue))]
      /\ wanted' = [wanted EXCEPT ![t] = wanted[t] - 1] /\ stage' = stage /\ lockQueue' = lockQueue
      /\ waiting' = waiting /\ output' = output /\ uneven' = uneven
  BY DEF PopByte, At
<1>3. Holds(t) /\ wanted[t] <= Size(queue)
  BY <1>1, <1>2 DEF OneAtATime, InStage, At
<1>4. Size(queue) \in Nat /\ wanted[t] \in 0..MaxLen /\ MaxLen \in Nat
  BY <1>1, DequeShape DEF PipeAssumption
<1>5. Size(queue) > 0 /\ wanted[t] - 1 \in 0..MaxLen /\ wanted[t] - 1 <= Size(queue) - 1
  BY <1>2, <1>3, <1>4
<1>6. WellFormed(queue', Bytes) /\ Size(queue') = Size(queue) - 1 /\ Contents(queue') = Tail(Contents(queue))
      /\ Foremost(queue) = Head(Contents(queue)) /\ Foremost(queue) \in Bytes /\ Contents(queue) # <<>>
  BY <1>1, <1>2, <1>5, DequePop
<1>7. Append(input[t], Foremost(queue)) \in Seq(Bytes) /\ Append(input[t], Foremost(queue)) # <<>>
  <2>1. input[t] \in Seq(Bytes) /\ Foremost(queue) \in Bytes
    BY <1>1, <1>6
  <2> QED
    BY <2>1, AppendProperties
<1>8. /\ input' \in [Clients -> Seq(Bytes)]
      /\ input'[t] # <<>> /\ \A u \in Clients : u # t => input'[u] = input[u]
  BY <1>1, <1>2, <1>7
<1>9. wanted' \in [Clients -> 0..MaxLen] /\ wanted'[t] = wanted[t] - 1
      /\ \A u \in Clients : u # t => wanted'[u] = wanted[u]
  BY <1>1, <1>2, <1>5
<1>10. PipeTypes'
  BY <1>1, <1>2, <1>6, <1>8, <1>9 DEF PipeTypes
<1>11. \A u \in Clients : stage[u] \in Working => u = t
  BY <1>1, <1>3, WorksAlone
<1>12. OneAtATime'
  <2> SUFFICES ASSUME NEW u \in Clients, stage'[u] \in Working
               PROVE  Holds(u)' /\ (stage'[u] = "r_pop" => wanted'[u] <= Size(queue'))
    BY DEF OneAtATime, InStage, At, Working
  <2>1. u = t
    BY <1>2, <1>11
  <2> QED
    BY <1>2, <1>3, <1>5, <1>6, <1>9, <2>1 DEF Holds
<1>13. LinesKept'
  BY <1>1, <1>2 DEF LinesKept, InStage
<1>14. CallsEven'
  <2> SUFFICES ASSUME NEW u \in Clients
               PROVE  /\ stage'[u] # "r_pop" => input'[u] = <<>>
                      /\ ~uneven' => /\ Len(output'[u]) <= 1
                                     /\ stage'[u] \in {"r_lock", "r_wait", "r_woken"} => wanted'[u] > 0
                                     /\ stage'[u] = "r_pop" /\ wanted'[u] = 0 => input'[u] # <<>>
    BY DEF CallsEven
  <2>1. CASE u = t
    BY <1>1, <1>2, <1>8, <2>1 DEF CallsEven
  <2>2. CASE u # t
    BY <1>1, <1>2, <1>8, <1>9, <2>2 DEF CallsEven
  <2> QED
    BY <2>1, <2>2
<1>15. EnoughHelp'
  <2> SUFFICES ASSUME waiting # <<>>, ~uneven PROVE Size(queue') < n
    <3>1. n \in Nat
      <4>1. InStage(Helping) \subseteq Clients /\ IsFiniteSet(Clients)
        BY DEF InStage, PipeAssumption
      <4> QED
        BY <4>1, FS_Subset, FS_CardinalityType
    <3> HIDE DEF n
    <3>2. Size(queue') < n => Size(queue') <= n
      BY <1>4, <1>6, <3>1
    <3> QED
      BY <1>2, <3>2 DEF EnoughHelp, InStage, n
  <2>1. Size(queue) <= n
    BY <1>1 DEF EnoughHelp
  <2>2. n \in Nat
    <3>1. InStage(Helping) \subseteq Clients /\ IsFiniteSet(Clients)
      BY DEF InStage, PipeAssumption
    <3> QED
      BY <3>1, FS_Subset, FS_CardinalityType
  <2> HIDE DEF n
  <2> QED
    BY <1>4, <1>6, <2>1, <2>2
<1> QED
  BY <1>6, <1>10, <1>12, <1>13, <1>14, <1>15 DEF PipeInductive

LEMMA NotifyKeeps ==
  ASSUME PipeAssumption, PipeInductive, NEW t \in Clients, Notify(t)
  PROVE  PipeInductive' /\ \A u \in Clients : stage'[u] \in Working <=> stage[u] \in Working
<1>1. /\ PipeTypes /\ OneAtATime /\ LinesKept /\ CallsEven /\ EnoughHelp
      /\ stage \in [Clients -> Stages] /\ waiting \in Seq(Clients)
      /\ "idle" \in Stages /\ "r_woken" \in Stages
  BY DEF PipeInductive, PipeTypes, Stages
<1>2. stage[t] = "w_notify" /\ lockQueue' = lockQueue /\ uneven' = uneven
      /\ queue' = queue /\ output' = output /\ wanted' = wanted /\ input' = input
  BY DEF Notify, At
<1>3. CASE waiting = <<>>
  <2>1. Goto(t, "idle") /\ waiting' = waiting
    BY <1>3 DEF Notify
  <2>2. /\ stage' \in [Clients -> Stages] /\ stage'[t] = "idle"
        /\ \A u \in Clients : u # t => stage'[u] = stage[u]
    BY <1>1, <2>1, StageMoves
  <2>3. LinesKept'
    BY <1>1, <1>2, <2>1, LinesStep DEF InLine
  <2>4. PipeTypes'
    BY <1>1, <1>2, <2>1, <2>2 DEF PipeTypes
  <2>5. OneAtATime'
    BY <1>1, <1>2, <2>1, AloneStep DEF Working
  <2>6. CallsEven'
    <3>1. input[t] = <<>>
      BY <1>1, <1>2 DEF CallsEven
    <3> QED
      BY <1>1, <1>2, <2>1, <3>1, EvenKept
  <2>7. EnoughHelp'
    BY <1>3, <2>1 DEF EnoughHelp
  <2>8. \A u \in Clients : stage'[u] \in Working <=> stage[u] \in Working
    BY <1>2, <2>2 DEF Working
  <2> QED
    BY <2>3, <2>4, <2>5, <2>6, <2>7, <2>8 DEF PipeInductive
<1>4. CASE waiting # <<>>
  <2> DEFINE h == Head(waiting)
  <2>1. stage' = [stage EXCEPT ![t] = "idle", ![h] = "r_woken"] /\ waiting' = Tail(waiting)
    BY <1>4 DEF Notify
  <2>2. h \in Clients /\ Tail(waiting) \in Seq(Clients)
    BY <1>1, <1>4, HeadTailProperties
  <2>3. IsInjective(waiting') /\ ToSet(waiting') = ToSet(waiting) \ {h} /\ h \in ToSet(waiting)
    BY <1>1, <1>4, <2>1, TailOnce DEF LinesKept
  <2>4. stage[h] = "r_wait" /\ h # t
    BY <1>1, <1>2, <2>3 DEF LinesKept, InStage
  <2> HIDE DEF h
  <2>5. /\ stage' \in [Clients -> Stages] /\ stage'[t] = "idle" /\ stage'[h] = "r_woken"
        /\ \A u \in Clients : u # t /\ u # h => stage'[u] = stage[u]
    BY <1>1, <2>1, <2>2, <2>4
  <2>6. PipeTypes'
    BY <1>1, <1>2, <2>1, <2>2, <2>5 DEF PipeTypes
  <2>7. \A u \in Clients : stage'[u] \in Working <=> stage[u] \in Working
    BY <1>2, <2>4, <2>5 DEF Working
  <2>8. \A u \in Clients : stage'[u] \in Working => stage'[u] = stage[u]
    BY <2>5 DEF Working
  <2>9. OneAtATime'
    <3> SUFFICES ASSUME NEW u \in Clients, stage'[u] \in Working
                 PROVE  Holds(u)' /\ (stage'[u] = "r_pop" => wanted'[u] <= Size(queue'))
      BY DEF OneAtATime, InStage, At, Working
    <3>1. stage[u] \in Working /\ stage'[u] = stage[u]
      BY <2>8
    <3>2. Holds(u) /\ (stage[u] = "r_pop" => wanted[u] <= Size(queue))
      BY <1>1, <3>1 DEF OneAtATime, InStage, At, Working
    <3> QED
      BY <1>2, <3>1, <3>2 DEF Holds
  <2>10. LinesKept'
    <3>1. InStage(InLine)' = InStage(InLine)
      BY <1>2, <2>4, <2>5 DEF InStage, InLine
    <3>2. InStage({"r_wait"})' = InStage({"r_wait"}) \ {h}
      BY <1>2, <2>4, <2>5 DEF InStage
    <3> QED
      BY <1>1, <1>2, <2>3, <3>1, <3>2 DEF LinesKept
  <2>11. CallsEven'
    <3> SUFFICES ASSUME NEW u \in Clients
                 PROVE  /\ stage'[u] # "r_pop" => input'[u] = <<>>
                        /\ ~uneven' => /\ Len(output'[u]) <= 1
                                       /\ stage'[u] \in {"r_lock", "r_wait", "r_woken"} => wanted'[u] > 0
                                       /\ stage'[u] = "r_pop" /\ wanted'[u] = 0 => input'[u] # <<>>
      BY DEF CallsEven
    <3>1. CASE u = t
      BY <1>1, <1>2, <2>5, <3>1 DEF CallsEven
    <3>2. CASE u = h
      BY <1>1, <1>2, <2>4, <2>5, <3>2 DEF CallsEven
    <3>3. CASE u # t /\ u # h
      BY <1>1, <1>2, <2>5, <3>3 DEF CallsEven
    <3> QED
      BY <3>1, <3>2, <3>3
  <2>12. EnoughHelp'
    <3> DEFINE H == InStage(Helping)
    <3>1. InStage(Helping)' = (H \ {t}) \cup {h} /\ t \in H /\ h \notin H
      BY <1>2, <2>2, <2>4, <2>5 DEF InStage, Helping
    <3>2. IsFiniteSet(H)
      <4>1. H \subseteq Clients /\ IsFiniteSet(Clients)
        BY DEF InStage, PipeAssumption
      <4> QED
        BY <4>1, FS_Subset
    <3> HIDE DEF H
    <3>3. Cardinality(H \ {t}) = Cardinality(H) - 1 /\ IsFiniteSet(H \ {t}) /\ Cardinality(H) \in Nat
      BY <3>1, <3>2, FS_RemoveElement, FS_CardinalityType
    <3>4. Cardinality((H \ {t}) \cup {h}) = Cardinality(H \ {t}) + 1
      BY <3>1, <3>3, FS_AddElement
    <3>5. Cardinality(InStage(Helping)') = Cardinality(H)
      BY <3>1, <3>3, <3>4
    <3>6. \A u \in Clients : Ahead(u)' => Ahead(u)
      BY <1>2, <2>8 DEF Ahead, At, Working
    <3> QED
      BY <1>1, <1>2, <1>4, <3>5, <3>6 DEF EnoughHelp, H
  <2> QED
    BY <2>6, <2>7, <2>9, <2>10, <2>11, <2>12 DEF PipeInductive
<1> QED
  BY <1>3, <1>4

LEMMA PipeStarts ==
  ASSUME PipeAssumption, PipeInit
  PROVE  PipeInductive
<1>1. /\ stage = [t \in Clients |-> "idle"] /\ queue = NewDeque /\ lockQueue = <<>> /\ waiting = <<>>
      /\ output = [t \in Clients |-> <<>>] /\ input = [t \in Clients |-> <<>>]
      /\ wanted = [t \in Clients |-> 0] /\ uneven = FALSE
  BY DEF PipeInit
<1>2. WellFormed(queue, Bytes)
  BY <1>1, DequeNew
<1>3. PipeTypes
  <2>1. <<>> \in Seq(Clients) /\ <<>> \in Seq(Bytes) /\ 0 \in 0..MaxLen /\ "idle" \in Stages
    BY DEF PipeAssumption, Stages
  <2> QED
    BY <1>1, <1>2, <2>1 DEF PipeTypes
<1>4. \A set : "idle" \notin set => InStage(set) = {}
  BY <1>1 DEF InStage
<1>5. IsInjective(<<>>) /\ ToSet(<<>>) = {}
  BY DEF IsInjective, ToSet
<1>6. LinesKept
  BY <1>1, <1>4, <1>5 DEF LinesKept, InLine
<1>7. OneAtATime
  BY <1>4 DEF OneAtATime
<1>8. CallsEven
  <2>1. Len(<<>>) = 0
    OBVIOUS
  <2> QED
    BY <1>1, <2>1 DEF CallsEven
<1> QED
  BY <1>1, <1>3, <1>6, <1>7, <1>8 DEF PipeInductive, EnoughHelp

LEMMA PipeKeeps ==
  ASSUME PipeAssumption, PipeInductive, [PipeNext]_pipeVars
  PROVE  PipeInductive'
<1>1. ASSUME NEW t \in Clients, Write(t) \/ Read(t) \/ CallStep(t) PROVE PipeInductive'
  <2>1. CASE Write(t)
    BY <2>1, WriteKeeps
  <2>2. CASE Read(t)
    BY <2>2, ReadKeeps
  <2>3. CASE CallStep(t)
    BY <2>3, WriteLockedKeeps, PushByteKeeps, PushDoneKeeps, NotifyKeeps, WaitWhileEmptyKeeps,
       RelockKeeps, ReadNonEmptyKeeps, PopByteKeeps, PopDoneKeeps DEF CallStep
  <2> QED
    BY <1>1, <2>1, <2>2, <2>3
<1>2. CASE UNCHANGED pipeVars
  BY <1>2 DEF pipeVars, PipeInductive, PipeTypes, OneAtATime, LinesKept, CallsEven, EnoughHelp,
              InStage, Holds, At, Ahead
<1> QED
  BY <1>1, <1>2 DEF PipeNext

LEMMA PipeFollows ==
  ASSUME PipeInductive
  PROVE  PipeInv
<1>1. PipeTypes /\ OneAtATime /\ LinesKept /\ EnoughHelp
  BY DEF PipeInductive
<1>2. PipeTypeOK
  <2>1. \A t \in Clients : At(t, "r_wait") <=> \E i \in DOMAIN waiting : waiting[i] = t
    BY <1>1 DEF LinesKept, InStage, ToSet, At
  <2> QED
    BY <1>1, <2>1 DEF PipeTypes, PipeTypeOK
<1>3. StrandedOnlyUnevenly
  BY <1>1 DEF EnoughHelp, StrandedOnlyUnevenly, Helping
<1> QED
  BY <1>1, <1>2, <1>3 DEF PipeInv

(* A pipe of any number of clients, bytes and calls: the clients that change  *)
(* the queue hold its mutex, a byte is there when it is taken, and as long as *)
(* every write has one byte a reader that sleeps beside bytes has a call on   *)
(* its way to it.                                                             *)
THEOREM PipeSafe == PipeSpec => []PipeInv
<1>1. PipeInit => PipeInductive
  BY PipeStarts, PipeAssumption
<1>2. PipeInductive /\ [PipeNext]_pipeVars => PipeInductive'
  BY PipeKeeps, PipeAssumption
<1>3. PipeInductive => PipeInv
  BY PipeFollows
<1> QED
  BY <1>1, <1>2, <1>3, PTL DEF PipeSpec

(* Who makes a transfer, as the channel sees it.                              *)
BusyClient == IF InStage(Working) = {} THEN NoOne ELSE CHOOSE t \in Clients : stage[t] \in Working

LEMMA BusyIs ==
  ASSUME PipeInductive
  PROVE  /\ \A t \in Clients : stage[t] \in Working => BusyClient = t
         /\ (\A t \in Clients : stage[t] \notin Working) => BusyClient = NoOne
<1>1. OneAtATime
  BY DEF PipeInductive
<1>2. ASSUME NEW t \in Clients, stage[t] \in Working PROVE BusyClient = t
  <2>1. InStage(Working) # {}
    BY <1>2 DEF InStage
  <2>2. \A u \in Clients : stage[u] \in Working => u = t
    BY <1>1, <1>2 DEF OneAtATime, InStage, Working, Holds
  <2> QED
    BY <1>2, <2>1, <2>2 DEF BusyClient
<1>3. (\A t \in Clients : stage[t] \notin Working) => BusyClient = NoOne
  BY DEF BusyClient, InStage
<1> QED
  BY <1>2, <1>3

LEMMA BusyIsNext ==
  ASSUME PipeInductive'
  PROVE  /\ \A t \in Clients : stage'[t] \in Working => BusyClient' = t
         /\ (\A t \in Clients : stage'[t] \notin Working) => BusyClient' = NoOne
<1>1. OneAtATime'
  BY DEF PipeInductive
<1>2. ASSUME NEW t \in Clients, stage'[t] \in Working PROVE BusyClient' = t
  <2>1. InStage(Working)' # {}
    BY <1>2 DEF InStage
  <2>2. \A u \in Clients : stage'[u] \in Working => u = t
    BY <1>1, <1>2 DEF OneAtATime, InStage, Working, Holds
  <2> QED
    BY <1>2, <2>1, <2>2 DEF BusyClient
<1>3. (\A t \in Clients : stage'[t] \notin Working) => BusyClient' = NoOne
  BY DEF BusyClient, InStage
<1> QED
  BY <1>2, <1>3

(* The steps that move no byte and begin or end no transfer.                  *)
LEMMA BusySame ==
  ASSUME PipeInductive, PipeInductive', \A u \in Clients : stage'[u] \in Working <=> stage[u] \in Working
  PROVE  BusyClient' = BusyClient
<1>1. CASE \E t \in Clients : stage[t] \in Working
  <2>1. PICK t \in Clients : stage[t] \in Working
    BY <1>1
  <2>2. BusyClient = t
    BY <2>1, BusyIs
  <2>3. \A v \in Clients : stage'[v] \in Working => BusyClient' = v
    BY BusyIsNext
  <2> QED
    BY <2>1, <2>2, <2>3
<1>2. CASE \A t \in Clients : stage[t] \notin Working
  <2>1. BusyClient = NoOne
    BY <1>2, BusyIs
  <2>2. (\A t \in Clients : stage'[t] \notin Working) => BusyClient' = NoOne
    BY BusyIsNext
  <2> QED
    BY <1>2, <2>1, <2>2
<1> QED
  BY <1>1, <1>2

ChannelView == <<Contents(queue), BusyClient, input>>

(* The steps of the channel, of what the pipe has.                            *)
LEMMA ChannelBegin ==
  ASSUME NEW t \in Clients, BusyClient = NoOne, BusyClient' = t,
         Contents(queue') = Contents(queue), input' = input
  PROVE  Channel!Next
<1>1. Channel!Begin(t)
  BY DEF Channel!Begin, BusyClient, Working
<1> QED
  BY <1>1 DEF Channel!Next

LEMMA ChannelPut ==
  ASSUME NEW t \in Clients, NEW b \in Bytes, BusyClient = t, BusyClient' = t,
         Contents(queue') = Append(Contents(queue), b), input' = input
  PROVE  Channel!Next
<1>1. Channel!Put(t, b)
  BY DEF Channel!Put, BusyClient, Working
<1> QED
  BY <1>1 DEF Channel!Next

LEMMA ChannelTake ==
  ASSUME NEW t \in Clients, BusyClient = t, BusyClient' = t, Contents(queue) # <<>>,
         Contents(queue') = Tail(Contents(queue)),
         input' = [input EXCEPT ![t] = Append(input[t], Head(Contents(queue)))]
  PROVE  Channel!Next
<1>1. Channel!Take(t)
  BY DEF Channel!Take, BusyClient, Working
<1> QED
  BY <1>1 DEF Channel!Next

LEMMA ChannelEnd ==
  ASSUME NEW t \in Clients, BusyClient = t, BusyClient' = NoOne,
         Contents(queue') = Contents(queue), input' = [input EXCEPT ![t] = <<>>]
  PROVE  Channel!Next
<1>1. Channel!End(t)
  BY DEF Channel!End, BusyClient, Working
<1> QED
  BY <1>1 DEF Channel!Next

(* Each step of the pipe is one of the channel or none.                       *)
LEMMA ChannelStep ==
  ASSUME PipeAssumption, PipeInductive, PipeInductive', [PipeNext]_pipeVars
  PROVE  [Channel!Next]_(Channel!vars)
<1>1. /\ PipeTypes /\ OneAtATime
      /\ CallsEven /\ stage \in [Clients -> Stages] /\ input \in [Clients -> Seq(Bytes)]
  BY DEF PipeInductive, PipeTypes
<1>2. ASSUME queue' = queue, input' = input, \A u \in Clients : stage'[u] \in Working <=> stage[u] \in Working
      PROVE  UNCHANGED ChannelView
  BY <1>2, BusySame DEF ChannelView
<1>3. ASSUME NEW t \in Clients, NEW s \in Stages, Goto(t, s), s \notin Working, stage[t] \notin Working
      PROVE  \A u \in Clients : stage'[u] \in Working <=> stage[u] \in Working
  BY <1>1, <1>3, StageMoves
<1>4. ASSUME NEW t \in Clients, NEW s \in Working, Goto(t, s), stage[t] \notin Working, Holds(t)
      PROVE  BusyClient = NoOne /\ BusyClient' = t
  <2>1. s \in Stages
    BY DEF Working, Stages
  <2>2. stage'[t] = s
    BY <1>1, <1>4, <2>1, StageMoves
  <2>3. BusyClient' = t
    BY <2>2, BusyIsNext
  <2>4. \A u \in Clients : stage[u] \notin Working
    BY <1>1, <1>4, WorksAlone
  <2> QED
    BY <2>3, <2>4, BusyIs
<1>5. ASSUME NEW t \in Clients, NEW s \in Stages, Goto(t, s), s \notin Working, stage[t] \in Working
      PROVE  BusyClient = t /\ BusyClient' = NoOne
  <2>1. /\ stage'[t] = s
        /\ \A u \in Clients : u # t => stage'[u] = stage[u]
    BY <1>1, <1>5, StageMoves
  <2>2. \A u \in Clients : stage[u] \in Working => u = t
    BY <1>1, <1>5 DEF OneAtATime, InStage, Working, Holds
  <2>3. \A u \in Clients : stage'[u] \notin Working
    BY <1>5, <2>1, <2>2
  <2>4. (\A u \in Clients : stage'[u] \notin Working) => BusyClient' = NoOne
    BY BusyIsNext
  <2> QED
    BY <1>5, <2>3, <2>4, BusyIs
<1>6. ASSUME NEW t \in Clients, stage[t] \in Working, stage' = stage
      PROVE  BusyClient = t /\ BusyClient' = t
  <2>1. stage'[t] \in Working => BusyClient' = t
    BY BusyIsNext
  <2> QED
    BY <1>6, <2>1, BusyIs
<1>7. ASSUME NEW t \in Clients, Write(t) PROVE UNCHANGED ChannelView
  <2>1. stage[t] = "idle" /\ Goto(t, "w_lock") /\ "w_lock" \in Stages /\ queue' = queue /\ input' = input
    BY <1>7 DEF Write, At, Stages
  <2> QED
    BY <1>2, <1>3, <2>1 DEF Working
<1>8. ASSUME NEW t \in Clients, Read(t) PROVE UNCHANGED ChannelView
  <2>1. stage[t] = "idle" /\ Goto(t, "r_lock") /\ "r_lock" \in Stages /\ queue' = queue /\ input' = input
    BY <1>8 DEF Read, At, Stages
  <2> QED
    BY <1>2, <1>3, <2>1 DEF Working
<1>9. ASSUME NEW t \in Clients, WriteLocked(t) PROVE Channel!Next
  <2>1. stage[t] = "w_lock" /\ Holds(t) /\ Goto(t, "w_push") /\ queue' = queue /\ input' = input
    BY <1>9 DEF WriteLocked, At
  <2>2. BusyClient = NoOne /\ BusyClient' = t
    BY <1>4, <2>1 DEF Working
  <2> QED
    BY <2>1, <2>2, ChannelBegin
<1>10. ASSUME NEW t \in Clients, PushByte(t) PROVE Channel!Next
  <2>1. stage[t] \in Working /\ stage' = stage /\ input' = input
    BY <1>10 DEF PushByte, At, Working
  <2>2. Contents(queue') = Append(Contents(queue), Head(output[t])) /\ Head(output[t]) \in Bytes
    BY <1>10, PushByteKeeps
  <2> QED
    BY <1>6, <2>1, <2>2, ChannelPut
<1>11. ASSUME NEW t \in Clients, PushDone(t) PROVE Channel!Next
  <2>1. /\ stage[t] = "w_push" /\ Goto(t, "w_notify")
        /\ "w_notify" \in Stages /\ queue' = queue /\ input' = input
    BY <1>11 DEF PushDone, At, Stages
  <2>2. input' = [input EXCEPT ![t] = <<>>]
    BY <1>1, <2>1 DEF CallsEven
  <2>3. BusyClient = t /\ BusyClient' = NoOne
    BY <1>5, <2>1 DEF Working
  <2> QED
    BY <2>1, <2>2, <2>3, ChannelEnd
<1>12. ASSUME NEW t \in Clients, Notify(t) PROVE UNCHANGED ChannelView
  <2>1. queue' = queue /\ input' = input
    BY <1>12 DEF Notify
  <2> QED
    BY <1>2, <1>12, <2>1, NotifyKeeps
<1>13. ASSUME NEW t \in Clients, WaitWhileEmpty(t) PROVE UNCHANGED ChannelView
  <2>1. stage[t] = "r_lock" /\ Goto(t, "r_wait") /\ "r_wait" \in Stages /\ queue' = queue /\ input' = input
    BY <1>13 DEF WaitWhileEmpty, At, Stages
  <2> QED
    BY <1>2, <1>3, <2>1 DEF Working
<1>14. ASSUME NEW t \in Clients, Relock(t) PROVE UNCHANGED ChannelView
  <2>1. stage[t] = "r_woken" /\ Goto(t, "r_lock") /\ "r_lock" \in Stages /\ queue' = queue /\ input' = input
    BY <1>14 DEF Relock, At, Stages
  <2> QED
    BY <1>2, <1>3, <2>1 DEF Working
<1>15. ASSUME NEW t \in Clients, ReadNonEmpty(t) PROVE Channel!Next
  <2>1. stage[t] = "r_lock" /\ Holds(t) /\ Goto(t, "r_pop") /\ queue' = queue /\ input' = input
    BY <1>15 DEF ReadNonEmpty, At
  <2>2. BusyClient = NoOne /\ BusyClient' = t
    BY <1>4, <2>1 DEF Working
  <2> QED
    BY <2>1, <2>2, ChannelBegin
<1>16. ASSUME NEW t \in Clients, PopByte(t) PROVE Channel!Next
  <2>1. stage[t] \in Working /\ stage' = stage
        /\ input' = [input EXCEPT ![t] = Append(input[t], Foremost(queue))]
    BY <1>16 DEF PopByte, At, Working
  <2>2. Contents(queue) # <<>> /\ Contents(queue') = Tail(Contents(queue))
        /\ Foremost(queue) = Head(Contents(queue))
    BY <1>16, PopByteKeeps
  <2>3. input' = [input EXCEPT ![t] = Append(input[t], Head(Contents(queue)))]
    BY <2>1, <2>2
  <2> QED
    BY <1>6, <2>1, <2>2, <2>3, ChannelTake
<1>17. ASSUME NEW t \in Clients, PopDone(t) PROVE Channel!Next
  <2>1. stage[t] = "r_pop" /\ Goto(t, "idle") /\ "idle" \in Stages /\ queue' = queue
        /\ input' = [input EXCEPT ![t] = <<>>]
    BY <1>17 DEF PopDone, At, Stages
  <2>2. BusyClient = t /\ BusyClient' = NoOne
    BY <1>5, <2>1 DEF Working
  <2> QED
    BY <2>1, <2>2, ChannelEnd
<1>18. ASSUME UNCHANGED pipeVars PROVE UNCHANGED ChannelView
  BY <1>18 DEF pipeVars, ChannelView, BusyClient, InStage
<1>19. Channel!Next \/ UNCHANGED ChannelView
  BY <1>7, <1>8, <1>9, <1>10, <1>11, <1>12, <1>13, <1>14, <1>15, <1>16, <1>17, <1>18 DEF PipeNext, CallStep
<1>20. ASSUME UNCHANGED ChannelView PROVE UNCHANGED Channel!vars
  BY <1>20 DEF ChannelView, Channel!vars, BusyClient, Working
<1> QED
  BY <1>19, <1>20

(* The circular storage that grows while it is in use, the mutex and the      *)
(* waiting together are a channel: bytes come out in the order they went in,  *)
(* each once and to one reader, a whole transfer at a time.                   *)
THEOREM PipeIsChannel == PipeSpec => ImplementsChannel
<1>1. PipeInit => PipeInductive
  BY PipeStarts, PipeAssumption
<1>2. PipeInductive /\ [PipeNext]_pipeVars => PipeInductive'
  BY PipeKeeps, PipeAssumption
<1>3. PipeInit => Channel!Init
  <2>1. Contents(NewDeque) = <<>>
    BY DequeNew
  <2>2. PipeInit => InStage({"w_push", "r_pop"}) = {}
    BY DEF PipeInit, InStage
  <2> QED
    BY <2>1, <2>2 DEF PipeInit, Channel!Init
<1>4. PipeInductive /\ PipeInductive' /\ [PipeNext]_pipeVars => [Channel!Next]_(Channel!vars)
  BY ChannelStep, PipeAssumption
<1> QED
  BY <1>1, <1>2, <1>3, <1>4, PTL DEF PipeSpec, ImplementsChannel, Channel!Spec

-----------------------------------------------------------------------------
(* The factories. The list of a map is a chain of nodes: what is at each of   *)
(* its places, and what a search, an insertion and a deletion make of it.     *)
MapTypes(h) ==
    h \in [next: [Nodes -> 0..MaxNodes], prev: [Nodes -> 0..MaxNodes], key: [Nodes -> 0..MaxNodes],
           first: 0..MaxNodes, last: 0..MaxNodes, size: Nat, fresh: 1..MaxNodes+1, deleted: SUBSET Nodes]
(* s: the nodes of h from begin_ on, of which there are no more than were     *)
(* ever allocated                                                             *)
Follows(h, s) ==
    /\ s \in Seq(Nodes) /\ Len(s) < h.fresh
    /\ h.first = IF s = <<>> THEN Null ELSE s[1]
    /\ \A i \in 1..Len(s) : h.next[s[i]] = IF i = Len(s) THEN Null ELSE s[i + 1]
(* and back, in the order of their keys; nothing is linked to a node to come  *)
Linked(h, s) ==
    /\ Follows(h, s)
    /\ \A i \in 1..Len(s) : /\ h.prev[s[i]] = (IF i = 1 THEN Null ELSE s[i - 1])
                            /\ s[i] < h.fresh /\ s[i] \notin h.deleted
    /\ \A i, j \in 1..Len(s) : i < j => h.key[s[i]] < h.key[s[j]]
    /\ \A n \in Nodes : n >= h.fresh => h.next[n] = Null /\ h.prev[n] = Null /\ n \notin h.deleted
    /\ (h.size = 0) <=> (s = <<>>)

(* The list is kept: in one piece, of the objects kept, until its first node  *)
(* is destroyed; from then on every search begins at a deleted node.          *)
KeysOf(h, s) == {h.key[s[i]] : i \in 1..Len(s)}
ListKept(s) ==
    IF erasedFirst THEN Follows(objects, s) /\ s # <<>> /\ s[1] \in objects.deleted
    ELSE /\ Linked(objects, s) /\ KeysOf(objects, s) = kept
         /\ ~erasedLast => objects.last = IF s = <<>> THEN Null ELSE s[Len(s)]
ListInOrder ==
    /\ MapTypes(objects)
    /\ failure \in {End, ReadsDeleted, Endless} /\ erasedFirst \in BOOLEAN /\ erasedLast \in BOOLEAN
    /\ failure # End => erasedFirst \/ erasedLast
    /\ failure = Endless => erasedLast
    /\ failure = End => \E s \in Seq(Nodes) : ListKept(s)

(* The ids, and what calls of create that do not overlap say of them: the one *)
(* in progress is the only one that knows the latest id.                      *)
IdsInOrder ==
    /\ seqId \in 0..MaxId /\ raced \in BOOLEAN
    /\ creating \in [Direct -> {"idle", "increment", "insert", "return"}]
    /\ loaded \in [Direct -> 0..MaxId] /\ given \in [Callers -> SUBSET Ids]
    /\ \A t \in Direct : /\ creating[t] = "increment" => loaded[t] < MaxId
                         /\ creating[t] \in {"insert", "return"} => seqId \in Ids
    /\ entered \in [Direct -> {"no", "reach", "destroy"}]
    /\ subject \in [Direct -> 0..MaxId]
    /\ \A t \in Direct : entered[t] # "no" => subject[t] \in Ids
SerialIds ==
    ~raced =>
        /\ \A t, u \in Direct : t # u => creating[t] = "idle" \/ creating[u] = "idle"
        /\ \A t \in Callers : \A id \in given[t] : id <= seqId
        /\ \A t \in Direct : /\ (creating[t] = "increment" => loaded[t] = seqId)
                             /\ creating[t] \in {"insert", "return"} =>
                                   \A u \in Callers : seqId \notin given[u]
        /\ \A t, u \in Callers : t # u => given[t] \cap given[u] = {}
FactoryInductive == ListInOrder /\ IdsInOrder /\ SerialIds

LEMMA OrderIs ==
    ASSUME MaxNodes \in Nat, NEW h, NEW s, Follows(h, s), h.fresh \in 1..MaxNodes+1
    PROVE  Order(h) = s
<1> DEFINE Start == IF h.first = Null THEN <<>> ELSE <<h.first>>
           Longer(way) == IF way = <<>> \/ h.next[Last(way)] = Null THEN way
                          ELSE Append(way, h.next[Last(way)])
           Walk(f) == f = [k \in 0..MaxNodes |-> IF k = 0 THEN Start ELSE Longer(f[k - 1])]
           Upto(k) == IF k < Len(s) THEN k + 1 ELSE Len(s)
           Way(k) == [i \in 1..Upto(k) |-> s[i]]
<1>1. s \in Seq(Nodes) /\ Len(s) \in Nat /\ Len(s) <= MaxNodes /\ s = [i \in 1..Len(s) |-> s[i]]
  BY DEF Follows
<1>2. \A i \in 1..Len(s) : s[i] \in Nodes /\ s[i] # Null
  BY <1>1 DEF Nodes, Null
<1>3. \A k \in 0..MaxNodes :
        /\ Upto(k) \in 0..Len(s) /\ Way(k) \in Seq(Nodes) /\ Len(Way(k)) = Upto(k)
        /\ \A i \in 1..Upto(k) : Way(k)[i] = s[i]
  BY <1>1, <1>2
<1>4. Way(0) = Start
  <2>1. CASE s = <<>>
    BY <1>1, <2>1 DEF Follows
  <2>2. CASE s # <<>>
    <3>1. Upto(0) = 1 /\ h.first = s[1] /\ h.first # Null
      BY <1>1, <1>2, <2>2, EmptySeq DEF Follows
    <3>2. Start = <<s[1]>>
      BY <3>1
    <3>3. Way(0) = [i \in 1..1 |-> s[1]]
      BY <3>1
    <3> QED BY <3>2, <3>3
  <2> QED BY <2>1, <2>2
<1>5. ASSUME NEW k \in 1..MaxNodes PROVE Longer(Way(k - 1)) = Way(k)
  <2> DEFINE way == Way(k - 1)
             u == Upto(k - 1)
  <2>1. k - 1 \in 0..MaxNodes /\ k \in 0..MaxNodes /\ k >= 1
    BY <1>1
  <2>2. u \in 0..Len(s) /\ way \in Seq(Nodes) /\ Len(way) = u /\ \A i \in 1..u : way[i] = s[i]
    BY <1>3, <2>1
  <2>3. u = (IF k - 1 < Len(s) THEN k ELSE Len(s))
    BY <1>1, <2>1
  <2> HIDE DEF way, u, Upto
  <2>4. CASE s = <<>>
    <3>1. u = 0 /\ way = <<>>
      BY <2>2, <2>4, EmptySeq
    <3> HIDE DEF Way
    <3>2. Len(Way(k)) = 0
      <4>1. Upto(k) \in 0..0 /\ Len(Way(k)) = Upto(k)
        BY <1>3, <2>1, <2>4
      <4> QED BY <4>1
    <3>3. Way(k) = <<>>
      BY <1>3, <2>1, <3>2, EmptySeq
    <3> QED BY <3>1, <3>3 DEF way
  <2>5. CASE s # <<>> /\ u = Len(s)
    <3>1. u \in 1..Len(s) /\ Last(way) = s[Len(s)] /\ way # <<>>
      BY <1>1, <2>2, <2>5, EmptySeq DEF Last
    <3>2. h.next[Last(way)] = Null
      BY <3>1, <2>5 DEF Follows
    <3>3. Upto(k) = u
      BY <1>1, <2>1, <2>3, <2>5 DEF Upto
    <3>4. Way(k) = way
      BY <3>3 DEF way, u
    <3> HIDE DEF Way
    <3> QED BY <3>1, <3>2, <3>4 DEF way
  <2>6. CASE s # <<>> /\ u # Len(s)
    <3>1. u = k /\ k < Len(s) /\ u \in 1..Len(s)
      BY <1>1, <2>1, <2>3, <2>6
    <3>2. way # <<>> /\ Last(way) = s[k]
      BY <2>2, <3>1, EmptySeq DEF Last
    <3>3. h.next[s[k]] = s[k + 1] /\ s[k + 1] # Null /\ s[k + 1] \in Nodes
      BY <1>1, <1>2, <2>1, <3>1 DEF Follows
    <3>4. Longer(way) = Append(way, s[k + 1])
      BY <3>2, <3>3
    <3>5. Upto(k) = k + 1
      BY <1>1, <2>1, <3>1 DEF Upto
    <3>6. Append(way, s[k + 1]) = [i \in 1..k+1 |-> IF i = k + 1 THEN s[k + 1] ELSE way[i]]
      BY <2>1, <2>2, <3>1, <3>3
    <3>7. @ = [i \in 1..k+1 |-> s[i]]
      BY <2>1, <2>2, <3>1
    <3> QED BY <3>4, <3>5, <3>6, <3>7 DEF way
  <2> QED BY <2>4, <2>5, <2>6
<1>6. Way(MaxNodes) = s
  <2>1. Upto(MaxNodes) = Len(s)
    BY <1>1
  <2> HIDE DEF Upto
  <2> QED BY <1>1, <2>1
<1> DEFINE f0 == [k \in 0..MaxNodes |-> Way(k)]
<1>7. Walk(f0)
  <2> SUFFICES ASSUME NEW k \in 0..MaxNodes
               PROVE  Way(k) = IF k = 0 THEN Start ELSE Longer(f0[k - 1])
    OBVIOUS
  <2>1. CASE k = 0
    BY <1>4, <2>1
  <2>2. CASE k # 0
    <3>1. k \in 1..MaxNodes /\ k - 1 \in 0..MaxNodes
      BY <2>2
    <3>2. f0[k - 1] = Way(k - 1)
      BY <3>1
    <3> HIDE DEF Way, Longer, f0
    <3> QED BY <1>5, <2>2, <3>1, <3>2
  <2> QED BY <2>1, <2>2
<1>8. ASSUME NEW f, Walk(f) PROVE f[MaxNodes] = s
  <2> DEFINE bad == {k \in 0..MaxNodes : f[k] # Way(k)}
  <2> HIDE DEF Way, Longer, Start
  <2>1. bad = {}
    <3> SUFFICES ASSUME bad # {} PROVE FALSE
      OBVIOUS
    <3>1. PICK k \in bad : \A y \in bad : k <= y
      <4>1. bad \in SUBSET Nat
        OBVIOUS
      <4> HIDE DEF bad
      <4> QED BY <4>1, LeastIn
    <3>2. k \in 0..MaxNodes /\ f[k] = (IF k = 0 THEN Start ELSE Longer(f[k - 1]))
      BY <1>8
    <3>3. k # 0
      BY <1>4, <3>1, <3>2
    <3>4. k - 1 \in 0..MaxNodes /\ k \in 1..MaxNodes /\ k - 1 \notin bad
      BY <3>1, <3>2, <3>3
    <3>5. f[k - 1] = Way(k - 1)
      BY <3>4
    <3> QED BY <1>5, <3>1, <3>2, <3>3, <3>4, <3>5
  <2> QED BY <1>6, <2>1
<1>9. Walk(CHOOSE f : Walk(f))
  <2> HIDE DEF Walk, f0
  <2> QED BY <1>7
<1>10. Order(h) = (CHOOSE f : Walk(f))[MaxNodes]
  BY DEF Order
<1> HIDE DEF Walk
<1> QED BY <1>8, <1>9, <1>10

(* What a search of a list comes to                                           *)
LEMMA FindsDeleted ==
    ASSUME MaxNodes \in Nat, NEW h, NEW s, Follows(h, s), h.fresh \in 1..MaxNodes+1, NEW keys,
           s # <<>>, s[1] \in h.deleted
    PROVE  FindIf(h, keys) = ReadsDeleted
<1> DEFINE hits == {i \in DOMAIN s : h.key[s[i]] \in keys}
           hit == CHOOSE i \in hits : \A j \in hits : i <= j
           seen == IF hits = {} THEN DOMAIN s ELSE 1..hit
<1>1. Order(h) = s /\ DOMAIN s = 1..Len(s) /\ Len(s) \in Nat /\ 1 \in 1..Len(s)
  <2>1. s \in Seq(Nodes)
    BY DEF Follows
  <2> QED BY <2>1, OrderIs, EmptySeq
<1>2. hits # {} => hit \in 1..Len(s)
  <2> SUFFICES ASSUME hits # {} PROVE hit \in 1..Len(s)
    OBVIOUS
  <2>1. hits \in SUBSET Nat /\ hits \subseteq 1..Len(s)
    BY <1>1
  <2> HIDE DEF hits
  <2>2. \E i \in hits : \A j \in hits : i <= j
    BY <2>1, LeastIn
  <2> QED BY <2>1, <2>2
<1> HIDE DEF hit, hits
<1>3. 1 \in seen
  BY <1>1, <1>2
<1>4. \E i \in seen : s[i] \in h.deleted
  BY <1>3
<1> DEFINE R == IF \E i \in seen : s[i] \in h.deleted THEN ReadsDeleted
               ELSE IF hits # {} THEN s[hit]
               ELSE IF s = <<>> \/ Last(s) = h.last THEN End ELSE Endless
<1>5. FindIf(h, keys) = R
  BY <1>1 DEF FindIf, seen, hits, hit
<1> HIDE DEF seen
<1>6. R = ReadsDeleted
  BY <1>4
<1> QED BY <1>5, <1>6

FoundAt(h, s, keys, p) ==
    /\ p \in 1..Len(s) /\ h.key[s[p]] \in keys
    /\ \A j \in 1..p-1 : h.key[s[j]] \notin keys
NotFound(h, s, keys) == \A i \in 1..Len(s) : h.key[s[i]] \notin keys

LEMMA FindIs ==
    ASSUME MaxNodes \in Nat, NEW h, NEW s, Follows(h, s), h.fresh \in 1..MaxNodes+1, NEW keys,
           \A i \in 1..Len(s) : s[i] \notin h.deleted
    PROVE  \/ \E p \in 1..Len(s) : FoundAt(h, s, keys, p) /\ FindIf(h, keys) = s[p]
           \/ /\ NotFound(h, s, keys)
              /\ FindIf(h, keys) = IF s = <<>> \/ s[Len(s)] = h.last THEN End ELSE Endless
<1> DEFINE hits == {i \in DOMAIN s : h.key[s[i]] \in keys}
           hit == CHOOSE i \in hits : \A j \in hits : i <= j
           seen == IF hits = {} THEN DOMAIN s ELSE 1..hit
           R == IF \E i \in seen : s[i] \in h.deleted THEN ReadsDeleted
               ELSE IF hits # {} THEN s[hit]
               ELSE IF s = <<>> \/ Last(s) = h.last THEN End ELSE Endless
<1>1. Order(h) = s /\ DOMAIN s = 1..Len(s) /\ Len(s) \in Nat
  <2>1. s \in Seq(Nodes)
    BY DEF Follows
  <2> QED BY <2>1, OrderIs
<1>2. /\ hits \in SUBSET Nat /\ hits \subseteq 1..Len(s)
      /\ \A i \in 1..Len(s) : i \in hits <=> h.key[s[i]] \in keys
  BY <1>1
<1>3. FindIf(h, keys) = R
  BY <1>1 DEF FindIf
<1> HIDE DEF hits
<1>4. CASE hits = {}
  <2>1. NotFound(h, s, keys)
    BY <1>2, <1>4 DEF NotFound
  <2>2. ~\E i \in seen : s[i] \in h.deleted
    BY <1>1, <1>4
  <2> HIDE DEF seen, hit
  <2>3. R = IF s = <<>> \/ s[Len(s)] = h.last THEN End ELSE Endless
    BY <1>4, <2>2 DEF Last
  <2> QED BY <1>3, <2>1, <2>3
<1>5. CASE hits # {}
  <2>1. \E i \in hits : \A j \in hits : i <= j
    BY <1>2, <1>5, LeastIn
  <2>2. hit \in hits /\ \A j \in hits : hit <= j
    BY <2>1
  <2> HIDE DEF hit
  <2>3. hit \in 1..Len(s) /\ \A j \in 1..hit-1 : j \notin hits /\ j \in 1..Len(s)
    BY <1>2, <2>2
  <2>4. FoundAt(h, s, keys, hit)
    BY <1>2, <2>2, <2>3 DEF FoundAt
  <2>5. ~\E i \in seen : s[i] \in h.deleted
    BY <1>1, <1>5, <2>3
  <2> HIDE DEF seen
  <2>6. R = s[hit]
    BY <1>5, <2>5
  <2> QED BY <1>3, <2>3, <2>4, <2>6
<1> QED BY <1>4, <1>5

-----------------------------------------------------------------------------
(* s with n in the place p, and s without what is in the place p.             *)
With(s, p, n) == [i \in 1..Len(s)+1 |-> IF i < p THEN s[i] ELSE IF i = p THEN n ELSE s[i - 1]]
Without(s, p) == [i \in 1..Len(s)-1 |-> IF i < p THEN s[i] ELSE s[i + 1]]

(* What becomes of the list when a node is put into the place p: whichever of *)
(* the three ways the code takes.                                             *)
PutAt(h, s, p, k, h2) ==
    LET n == h.fresh IN
    /\ h2.key = [h.key EXCEPT ![n] = k] /\ h2.fresh = n + 1 /\ h2.size = h.size + 1
    /\ h2.deleted = h.deleted
    /\ h2.next = [m \in Nodes |-> IF m = n THEN IF p > Len(s) THEN Null ELSE s[p]
                                  ELSE IF p > 1 /\ m = s[p - 1] THEN n ELSE h.next[m]]
    /\ h2.prev = [m \in Nodes |-> IF m = n THEN IF p = 1 THEN Null ELSE s[p - 1]
                                  ELSE IF p <= Len(s) /\ m = s[p] THEN n ELSE h.prev[m]]
    /\ h2.first = (IF p = 1 THEN n ELSE h.first)
    /\ h2.last = (IF p > Len(s) THEN n ELSE h.last)

Shape(h) ==
    h = [next |-> h.next, prev |-> h.prev, key |-> h.key, first |-> h.first, last |-> h.last,
         size |-> h.size, fresh |-> h.fresh, deleted |-> h.deleted]
LEMMA FieldsAre ==
    ASSUME NEW h
    PROVE  MapTypes(h) <=>
               /\ h.next \in [Nodes -> 0..MaxNodes] /\ h.prev \in [Nodes -> 0..MaxNodes]
               /\ h.key \in [Nodes -> 0..MaxNodes] /\ h.first \in 0..MaxNodes /\ h.last \in 0..MaxNodes
               /\ h.size \in Nat /\ h.fresh \in 1..MaxNodes+1 /\ h.deleted \in SUBSET Nodes
               /\ Shape(h)
BY DEF MapTypes, Shape

LEMMA ChainIs ==
    ASSUME MaxNodes \in Nat, NEW h, MapTypes(h), NEW s, Linked(h, s)
    PROVE  /\ s \in Seq(Nodes) /\ Len(s) \in Nat /\ (s = <<>> <=> Len(s) = 0) /\ Len(s) < h.fresh
           /\ Len(s) = 0 => h.first = Null
           /\ Len(s) > 0 => h.first = s[1]
           /\ \A i \in 1..Len(s) : s[i] \in Nodes /\ s[i] # Null /\ s[i] # h.fresh /\ s[i] < h.fresh
           /\ \A i, j \in 1..Len(s) : s[i] = s[j] => i = j
<1>1. s \in Seq(Nodes) /\ Len(s) < h.fresh /\ h.first = IF s = <<>> THEN Null ELSE s[1]
  BY DEF Linked, Follows
<1>2. Len(s) \in Nat /\ (s = <<>> <=> Len(s) = 0)
  BY <1>1, EmptySeq
<1>3. \A i \in 1..Len(s) : s[i] \in Nodes /\ s[i] # Null /\ s[i] < h.fresh /\ s[i] # h.fresh
  <2>1. \A i \in 1..Len(s) : s[i] \in Nodes /\ s[i] < h.fresh
    BY <1>1 DEF Linked
  <2>2. h.fresh \in Nat
    BY FieldsAre
  <2> QED BY <2>1, <2>2 DEF Nodes, Null
<1>4. ASSUME NEW i \in 1..Len(s), NEW j \in 1..Len(s), s[i] = s[j] PROVE i = j
  <2>1. h.key[s[i]] \in Int
    BY <1>3, FieldsAre
  <2>2. ~(i < j) /\ ~(j < i)
    BY <1>4, <2>1 DEF Linked
  <2> QED BY <1>2, <2>2
<1> QED BY <1>1, <1>2, <1>3, <1>4

LEMMA SetExcept ==
    ASSUME NEW S, NEW T, NEW f \in [S -> T], NEW x, NEW v \in T
    PROVE  [f EXCEPT ![x] = v] \in [S -> T]
OBVIOUS

LEMMA PutTypes ==
    ASSUME MaxNodes \in Nat, NEW h, MapTypes(h), NEW s, Linked(h, s),
           h.fresh \in Nodes, NEW k \in 0..MaxNodes, NEW p \in 1..Len(s)+1,
           NEW h2, PutAt(h, s, p, k, h2), Shape(h2)
    PROVE  MapTypes(h2)
<1> DEFINE n == h.fresh
<1>1. /\ Len(s) \in Nat /\ p \in Nat /\ \A i \in 1..Len(s) : s[i] \in Nodes
      /\ n \in Nodes /\ Nodes \subseteq 0..MaxNodes /\ Null \in 0..MaxNodes
  BY ChainIs DEF Nodes, Null
<1>2. /\ h.next \in [Nodes -> 0..MaxNodes] /\ h.prev \in [Nodes -> 0..MaxNodes]
      /\ h.key \in [Nodes -> 0..MaxNodes] /\ h.first \in 0..MaxNodes /\ h.last \in 0..MaxNodes
      /\ h.size \in Nat /\ h.deleted \in SUBSET Nodes
  BY FieldsAre
<1>0. p \in Int /\ p <= Len(s) + 1 /\ 1 <= p
  BY <1>1
<1>3. p <= Len(s) => s[p] \in 0..MaxNodes
  <2>1. p <= Len(s) => p \in 1..Len(s)
    BY <1>0, <1>1
  <2> QED BY <1>1, <2>1
<1>4. p > 1 => s[p - 1] \in 0..MaxNodes
  <2>1. p > 1 => p - 1 \in 1..Len(s)
    BY <1>0, <1>1
  <2> QED BY <1>1, <2>1
<1> DEFINE nx == IF p > Len(s) THEN Null ELSE s[p]
           pv == IF p = 1 THEN Null ELSE s[p - 1]
<1>10. nx \in 0..MaxNodes
  BY <1>0, <1>1, <1>3
<1>11. pv \in 0..MaxNodes
  BY <1>0, <1>1, <1>4
<1>5. h2.next \in [Nodes -> 0..MaxNodes]
  <2>1. h2.next = [m \in Nodes |-> IF m = n THEN nx ELSE IF p > 1 /\ m = s[p - 1] THEN n ELSE h.next[m]]
    BY DEF PutAt
  <2> HIDE DEF nx, n
  <2>2. ASSUME NEW m \in Nodes
        PROVE  (IF m = n THEN nx ELSE IF p > 1 /\ m = s[p - 1] THEN n ELSE h.next[m]) \in 0..MaxNodes
    BY <1>1, <1>2, <1>10
  <2> QED BY <2>1, <2>2
<1>6. h2.prev \in [Nodes -> 0..MaxNodes]
  <2>1. h2.prev = [m \in Nodes |-> IF m = n THEN pv ELSE IF p <= Len(s) /\ m = s[p] THEN n ELSE h.prev[m]]
    BY DEF PutAt
  <2> HIDE DEF pv, n
  <2>2. ASSUME NEW m \in Nodes
        PROVE  (IF m = n THEN pv ELSE IF p <= Len(s) /\ m = s[p] THEN n ELSE h.prev[m]) \in 0..MaxNodes
    BY <1>1, <1>2, <1>11
  <2> QED BY <2>1, <2>2
<1>7. h2.key \in [Nodes -> 0..MaxNodes] /\ h2.deleted \in SUBSET Nodes
  BY <1>1, <1>2 DEF PutAt
<1>8. h2.first \in 0..MaxNodes /\ h2.last \in 0..MaxNodes
  BY <1>1, <1>2 DEF PutAt
<1>9. h2.size \in Nat /\ h2.fresh \in 1..MaxNodes+1
  <2>1. h2.size = h.size + 1 /\ h2.fresh = n + 1
    BY DEF PutAt
  <2>2. n \in 1..MaxNodes
    BY DEF Nodes
  <2> HIDE DEF n
  <2>3. h.size + 1 \in Nat
    BY <1>2
  <2>4. n + 1 \in 1..MaxNodes+1
    BY <2>2
  <2> QED BY <2>1, <2>3, <2>4
<1> QED BY <1>5, <1>6, <1>7, <1>8, <1>9, FieldsAre

LEMMA InsertPuts ==
    ASSUME MaxNodes \in Nat, NEW h, MapTypes(h), NEW s, Linked(h, s),
           h.fresh \in Nodes, NEW k \in 0..MaxNodes, NEW p \in 1..Len(s)+1, NEW at,
           p <= Len(s) => at = s[p],
           p > Len(s) => at = End /\ (s = <<>> \/ s[Len(s)] = h.last)
    PROVE  PutAt(h, s, p, k, Insert(h, at, k)) /\ MapTypes(Insert(h, at, k))
<1> DEFINE n == h.fresh
           h2 == Insert(h, at, k)
<1>1. /\ s \in Seq(Nodes) /\ Len(s) \in Nat /\ (s = <<>> <=> Len(s) = 0)
      /\ n \in Nodes /\ n # Null /\ n \in Int
      /\ \A i \in 1..Len(s) : s[i] \in Nodes /\ s[i] # Null /\ s[i] # n
      /\ \A i, j \in 1..Len(s) : s[i] = s[j] => i = j
      /\ Null \notin Nodes
  BY ChainIs DEF Nodes, Null
<1>2. /\ h.next \in [Nodes -> 0..MaxNodes] /\ h.prev \in [Nodes -> 0..MaxNodes]
      /\ h.key \in [Nodes -> 0..MaxNodes] /\ h.first \in 0..MaxNodes /\ h.last \in 0..MaxNodes
      /\ h.size \in Nat /\ h.deleted \subseteq Nodes /\ Shape(h)
  BY FieldsAre
<1>7. h.next[n] = Null /\ h.prev[n] = Null
  BY <1>1 DEF Linked
<1>3. CASE s = <<>>
  <2>1. h.size = 0 /\ h.first = Null /\ p = 1 /\ Len(s) = 0
    BY <1>1, <1>3 DEF Linked, Follows
  <2>2. h2 = [[h EXCEPT !.key[n] = k, !.first = n, !.size = @ + 1, !.fresh = @ + 1] EXCEPT !.last = n]
    BY <2>1 DEF Insert, PushFirst
  <2>3. /\ h2.key = [h.key EXCEPT ![n] = k] /\ h2.first = n /\ h2.last = n /\ h2.size = h.size + 1
        /\ h2.fresh = n + 1 /\ h2.next = h.next /\ h2.prev = h.prev /\ h2.deleted = h.deleted
        /\ Shape(h2)
    BY <1>2, <2>2 DEF Shape
  <2> HIDE DEF h2
  <2>4. h2.next = [m \in Nodes |-> IF m = n THEN IF p > Len(s) THEN Null ELSE s[p]
                                  ELSE IF p > 1 /\ m = s[p - 1] THEN n ELSE h.next[m]]
    BY <1>7, <1>1, <1>2, <2>1, <2>3
  <2>5. h2.prev = [m \in Nodes |-> IF m = n THEN IF p = 1 THEN Null ELSE s[p - 1]
                                  ELSE IF p <= Len(s) /\ m = s[p] THEN n ELSE h.prev[m]]
    BY <1>7, <1>1, <1>2, <2>1, <2>3
  <2>7. h2.first = (IF p = 1 THEN n ELSE h.first) /\ h2.last = (IF p > Len(s) THEN n ELSE h.last)
    BY <1>1, <2>1, <2>3
  <2>8. PutAt(h, s, p, k, h2)
    BY <2>3, <2>4, <2>5, <2>7 DEF PutAt
  <2>9. MapTypes(h2)
    BY <2>8, PutTypes, <2>3
  <2> QED BY <2>8, <2>9 DEF h2
<1>4. CASE s # <<>> /\ p = 1
  <2>1. h.size # 0 /\ h.first = s[1] /\ 1 \in 1..Len(s) /\ at = h.first /\ p <= Len(s)
    BY <1>1, <1>4 DEF Linked, Follows
  <2>2. h2 = [[h EXCEPT !.key[n] = k, !.first = n, !.size = @ + 1, !.fresh = @ + 1]
              EXCEPT !.prev[h.first] = n, !.next[n] = h.first]
    BY <2>1 DEF Insert, PushFirst
  <2>3. /\ h2.key = [h.key EXCEPT ![n] = k] /\ h2.first = n /\ h2.last = h.last /\ h2.size = h.size + 1
        /\ h2.fresh = n + 1 /\ h2.next = [h.next EXCEPT ![n] = h.first]
        /\ h2.prev = [h.prev EXCEPT ![h.first] = n] /\ h2.deleted = h.deleted
        /\ Shape(h2)
    BY <1>2, <2>2 DEF Shape
  <2> HIDE DEF h2
  <2>4. h2.next = [m \in Nodes |-> IF m = n THEN IF p > Len(s) THEN Null ELSE s[p]
                                  ELSE IF p > 1 /\ m = s[p - 1] THEN n ELSE h.next[m]]
    <3>1. s[1] \in Nodes /\ s[1] # n /\ ~(p > Len(s)) /\ ~(p > 1) /\ p <= Len(s) /\ p = 1
      BY <1>1, <1>4, <2>1
    <3>2. h2.next \in [Nodes -> 0..MaxNodes]
      <4>1. n \in 0..MaxNodes
        BY <1>1 DEF Nodes
      <4>2. h.next \in [Nodes -> 0..MaxNodes] /\ h.first \in 0..MaxNodes /\ h.last \in 0..MaxNodes
        BY <1>2
      <4>3. h2.next = [h.next EXCEPT ![n] = h.first]
        BY <2>3
      <4> HIDE DEF n, h2
      <4>4. [h.next EXCEPT ![n] = h.first] \in [Nodes -> 0..MaxNodes]
        BY <4>1, <4>2, SetExcept
      <4> QED BY <4>3, <4>4
    <3> HIDE DEF n
    <3>3. ASSUME NEW m \in Nodes
          PROVE  h2.next[m] = IF m = n THEN IF p > Len(s) THEN Null ELSE s[p]
                              ELSE IF p > 1 /\ m = s[p - 1] THEN n ELSE h.next[m]
      <4>1. h2.next[m] = IF m = n THEN h.first ELSE h.next[m]
        BY <1>1, <1>2, <2>3
      <4> QED BY <1>7, <2>1, <3>1, <4>1
    <3> QED BY <3>2, <3>3
  <2>5. h2.prev = [m \in Nodes |-> IF m = n THEN IF p = 1 THEN Null ELSE s[p - 1]
                                  ELSE IF p <= Len(s) /\ m = s[p] THEN n ELSE h.prev[m]]
    <3>1. s[1] \in Nodes /\ s[1] # n /\ ~(p > Len(s)) /\ ~(p > 1) /\ p <= Len(s) /\ p = 1
      BY <1>1, <1>4, <2>1
    <3>2. h2.prev \in [Nodes -> 0..MaxNodes]
      <4>1. n \in 0..MaxNodes
        BY <1>1 DEF Nodes
      <4>2. h.prev \in [Nodes -> 0..MaxNodes] /\ h.first \in 0..MaxNodes /\ h.last \in 0..MaxNodes
        BY <1>2
      <4>3. h2.prev = [h.prev EXCEPT ![h.first] = n]
        BY <2>3
      <4> HIDE DEF n, h2
      <4>4. [h.prev EXCEPT ![h.first] = n] \in [Nodes -> 0..MaxNodes]
        BY <4>1, <4>2, SetExcept
      <4> QED BY <4>3, <4>4
    <3> HIDE DEF n
    <3>3. ASSUME NEW m \in Nodes
          PROVE  h2.prev[m] = IF m = n THEN IF p = 1 THEN Null ELSE s[p - 1]
                              ELSE IF p <= Len(s) /\ m = s[p] THEN n ELSE h.prev[m]
      <4>1. h2.prev[m] = IF m = h.first THEN n ELSE h.prev[m]
        BY <1>1, <1>2, <2>3
      <4> QED BY <1>7, <2>1, <3>1, <4>1
    <3> QED BY <3>2, <3>3
  <2>7. h2.first = (IF p = 1 THEN n ELSE h.first) /\ h2.last = (IF p > Len(s) THEN n ELSE h.last)
    BY <1>1, <1>4, <2>1, <2>3
  <2>8. PutAt(h, s, p, k, h2)
    BY <2>3, <2>4, <2>5, <2>7 DEF PutAt
  <2>9. MapTypes(h2)
    BY <2>8, PutTypes, <2>3
  <2> QED BY <2>8, <2>9 DEF h2
<1>5. CASE s # <<>> /\ p > Len(s)
  <2>1. /\ h.size # 0 /\ h.first = s[1] /\ 1 \in 1..Len(s) /\ at = End /\ h.first # Null /\ p = Len(s) + 1
        /\ h.last = s[Len(s)] /\ Len(s) \in 1..Len(s) /\ h.first # End /\ p - 1 = Len(s) /\ p > 1
    BY <1>1, <1>5 DEF Linked, Follows, Null, End
  <2>2. h2 = [[h EXCEPT !.key[n] = k, !.last = n, !.size = @ + 1, !.fresh = @ + 1]
              EXCEPT !.next[h.last] = n, !.prev[n] = h.last]
    BY <2>1 DEF Insert, PushLast
  <2>3. /\ h2.key = [h.key EXCEPT ![n] = k] /\ h2.first = h.first /\ h2.last = n /\ h2.size = h.size + 1
        /\ h2.fresh = n + 1 /\ h2.next = [h.next EXCEPT ![h.last] = n]
        /\ h2.prev = [h.prev EXCEPT ![n] = h.last] /\ h2.deleted = h.deleted
        /\ Shape(h2)
    BY <1>2, <2>2 DEF Shape
  <2> HIDE DEF h2
  <2>4. h2.next = [m \in Nodes |-> IF m = n THEN IF p > Len(s) THEN Null ELSE s[p]
                                  ELSE IF p > 1 /\ m = s[p - 1] THEN n ELSE h.next[m]]
    <3>1. s[p - 1] \in Nodes /\ s[p - 1] # n /\ h.last = s[p - 1] /\ p > Len(s) /\ ~(p <= Len(s)) /\ p # 1
      BY <1>1, <1>5, <2>1
    <3>2. h2.next \in [Nodes -> 0..MaxNodes]
      <4>1. n \in 0..MaxNodes
        BY <1>1 DEF Nodes
      <4>2. h.next \in [Nodes -> 0..MaxNodes] /\ h.first \in 0..MaxNodes /\ h.last \in 0..MaxNodes
        BY <1>2
      <4>3. h2.next = [h.next EXCEPT ![h.last] = n]
        BY <2>3
      <4> HIDE DEF n, h2
      <4>4. [h.next EXCEPT ![h.last] = n] \in [Nodes -> 0..MaxNodes]
        BY <4>1, <4>2, SetExcept
      <4> QED BY <4>3, <4>4
    <3> HIDE DEF n
    <3>3. ASSUME NEW m \in Nodes
          PROVE  h2.next[m] = IF m = n THEN IF p > Len(s) THEN Null ELSE s[p]
                              ELSE IF p > 1 /\ m = s[p - 1] THEN n ELSE h.next[m]
      <4>1. h2.next[m] = IF m = h.last THEN n ELSE h.next[m]
        BY <1>1, <1>2, <2>3
      <4> QED BY <1>7, <2>1, <3>1, <4>1
    <3> QED BY <3>2, <3>3
  <2>5. h2.prev = [m \in Nodes |-> IF m = n THEN IF p = 1 THEN Null ELSE s[p - 1]
                                  ELSE IF p <= Len(s) /\ m = s[p] THEN n ELSE h.prev[m]]
    <3>1. s[p - 1] \in Nodes /\ s[p - 1] # n /\ h.last = s[p - 1] /\ p > Len(s) /\ ~(p <= Len(s)) /\ p # 1
      BY <1>1, <1>5, <2>1
    <3>2. h2.prev \in [Nodes -> 0..MaxNodes]
      <4>1. n \in 0..MaxNodes
        BY <1>1 DEF Nodes
      <4>2. h.prev \in [Nodes -> 0..MaxNodes] /\ h.first \in 0..MaxNodes /\ h.last \in 0..MaxNodes
        BY <1>2
      <4>3. h2.prev = [h.prev EXCEPT ![n] = h.last]
        BY <2>3
      <4> HIDE DEF n, h2
      <4>4. [h.prev EXCEPT ![n] = h.last] \in [Nodes -> 0..MaxNodes]
        BY <4>1, <4>2, SetExcept
      <4> QED BY <4>3, <4>4
    <3> HIDE DEF n
    <3>3. ASSUME NEW m \in Nodes
          PROVE  h2.prev[m] = IF m = n THEN IF p = 1 THEN Null ELSE s[p - 1]
                              ELSE IF p <= Len(s) /\ m = s[p] THEN n ELSE h.prev[m]
      <4>1. h2.prev[m] = IF m = n THEN h.last ELSE h.prev[m]
        BY <1>1, <1>2, <2>3
      <4> QED BY <1>7, <2>1, <3>1, <4>1
    <3> QED BY <3>2, <3>3
  <2>7. h2.first = (IF p = 1 THEN n ELSE h.first) /\ h2.last = (IF p > Len(s) THEN n ELSE h.last)
    BY <1>1, <1>5, <2>1, <2>3
  <2>8. PutAt(h, s, p, k, h2)
    BY <2>3, <2>4, <2>5, <2>7 DEF PutAt
  <2>9. MapTypes(h2)
    BY <2>8, PutTypes, <2>3
  <2> QED BY <2>8, <2>9 DEF h2
<1>6. CASE s # <<>> /\ p # 1 /\ p <= Len(s)
  <2>1. /\ h.first = s[1] /\ h.first # Null /\ at = s[p] /\ p \in 1..Len(s) /\ p - 1 \in 1..Len(s)
        /\ h.prev[at] = s[p - 1] /\ at \in Nodes /\ at # n /\ s[p - 1] # n /\ at # End /\ p > 1
    BY <1>1, <1>6 DEF Linked, Follows, Null, End
  <2>2. at # h.first
    <3>1. 1 \in 1..Len(s) /\ p \in 1..Len(s) /\ 1 < p
      BY <2>1
    <3>2. h.key[s[1]] < h.key[s[p]]
      BY <3>1 DEF Linked
    <3>3. h.key[s[1]] \in Int
      <4>1. s[1] \in Nodes
        BY <1>1, <3>1
      <4> QED BY <1>2, <4>1
    <3> QED BY <2>1, <3>2, <3>3
  <2>3. h2 = [h EXCEPT !.key[n] = k, !.size = @ + 1, !.fresh = @ + 1,
                       !.next[s[p - 1]] = n, !.prev[n] = s[p - 1], !.prev[at] = n, !.next[n] = at]
    BY <2>1, <2>2 DEF Insert
  <2>4. /\ h2.key = [h.key EXCEPT ![n] = k] /\ h2.first = h.first /\ h2.last = h.last /\ h2.size = h.size + 1
        /\ h2.fresh = n + 1 /\ h2.next = [[h.next EXCEPT ![s[p - 1]] = n] EXCEPT ![n] = at]
        /\ h2.prev = [[h.prev EXCEPT ![n] = s[p - 1]] EXCEPT ![at] = n] /\ h2.deleted = h.deleted
        /\ Shape(h2)
    BY <1>2, <2>3 DEF Shape
  <2> HIDE DEF h2
  <2>5. h2.next = [m \in Nodes |-> IF m = n THEN IF p > Len(s) THEN Null ELSE s[p]
                                  ELSE IF p > 1 /\ m = s[p - 1] THEN n ELSE h.next[m]]
    BY <1>7, <1>1, <1>2, <1>6, <2>1, <2>4
  <2>6. h2.prev = [m \in Nodes |-> IF m = n THEN IF p = 1 THEN Null ELSE s[p - 1]
                                  ELSE IF p <= Len(s) /\ m = s[p] THEN n ELSE h.prev[m]]
    BY <1>7, <1>1, <1>2, <1>6, <2>1, <2>4
  <2>7. h2.first = (IF p = 1 THEN n ELSE h.first) /\ h2.last = (IF p > Len(s) THEN n ELSE h.last)
    BY <1>1, <1>6, <2>1, <2>4
  <2>8. PutAt(h, s, p, k, h2)
    BY <2>4, <2>5, <2>6, <2>7 DEF PutAt
  <2>9. MapTypes(h2)
    BY <2>8, PutTypes, <2>4
  <2> QED BY <2>8, <2>9 DEF h2
<1> QED BY <1>1, <1>3, <1>4, <1>5, <1>6

LEMMA WithIs ==
    ASSUME MaxNodes \in Nat, NEW h, MapTypes(h), NEW s, Linked(h, s), h.fresh \in Nodes, NEW p \in 1..Len(s)+1
    PROVE  LET w == With(s, p, h.fresh) IN
           /\ p \in Nat /\ w \in Seq(Nodes) /\ Len(w) = Len(s) + 1 /\ w # <<>>
           /\ \A i \in 1..p-1 : i \in 1..Len(s) /\ w[i] = s[i]
           /\ w[p] = h.fresh
           /\ \A i \in p+1..Len(s)+1 : i - 1 \in 1..Len(s) /\ w[i] = s[i - 1]
           /\ \A i \in 1..Len(s)+1 : i \in 1..p-1 \/ i = p \/ i \in p+1..Len(s)+1
<1> DEFINE w == With(s, p, h.fresh)
<1>1. /\ s \in Seq(Nodes) /\ Len(s) \in Nat /\ \A i \in 1..Len(s) : s[i] \in Nodes
  BY ChainIs
<1>2. p \in Nat /\ p >= 1 /\ p <= Len(s) + 1
  BY <1>1
<1>3. \A i \in 1..p-1 : i \in 1..Len(s)
  BY <1>1, <1>2
<1>4. \A i \in p+1..Len(s)+1 : i - 1 \in 1..Len(s)
  BY <1>1, <1>2
<1>5. \A i \in 1..Len(s)+1 : i \in 1..p-1 \/ i = p \/ i \in p+1..Len(s)+1
  BY <1>1, <1>2
<1>6. \A i \in 1..p-1 : i \in 1..Len(s)+1 /\ w[i] = s[i]
  BY <1>1, <1>2 DEF With
<1>7. w[p] = h.fresh
  BY <1>1, <1>2 DEF With
<1>8. \A i \in p+1..Len(s)+1 : w[i] = s[i - 1]
  BY <1>1, <1>2 DEF With
<1>9. \A i \in 1..Len(s)+1 : w[i] \in Nodes
  BY <1>1, <1>3, <1>4, <1>5, <1>6, <1>7, <1>8
<1>10. w = [i \in 1..Len(s)+1 |-> w[i]]
  BY DEF With
<1> HIDE DEF w
<1>11. w \in [1..Len(s)+1 -> Nodes]
  BY <1>9, <1>10
<1>12. w \in Seq(Nodes) /\ Len(w) = Len(s) + 1
  <2>1. Len(s) + 1 \in Nat
    BY <1>1
  <2> QED BY <1>11, <2>1
<1>13. w # <<>>
  BY <1>1, <1>12, EmptySeq
<1> QED BY <1>2, <1>3, <1>4, <1>5, <1>6, <1>7, <1>8, <1>12, <1>13 DEF w

Between(h, s, p, k) ==
    /\ \A i \in 1..p-1 : h.key[s[i]] < k
    /\ \A i \in p..Len(s) : k < h.key[s[i]]

LEMMA PutLinks ==
    ASSUME MaxNodes \in Nat, NEW h, MapTypes(h), NEW s, Linked(h, s),
           h.fresh \in Nodes, NEW k \in 0..MaxNodes, NEW p \in 1..Len(s)+1,
           NEW h2, PutAt(h, s, p, k, h2), Between(h, s, p, k)
    PROVE  /\ Linked(h2, With(s, p, h.fresh))
           /\ KeysOf(h2, With(s, p, h.fresh)) = KeysOf(h, s) \cup {k}
           /\ (h.last = IF s = <<>> THEN Null ELSE s[Len(s)]) => h2.last = With(s, p, h.fresh)[Len(s) + 1]
<1> DEFINE n == h.fresh
           w == With(s, p, n)
           L == Len(s)
<1>1. /\ L \in Nat /\ (s = <<>> <=> L = 0) /\ L < n /\ n \in Nodes /\ n \in Nat /\ n # Null
      /\ \A i \in 1..L : s[i] \in Nodes /\ s[i] # Null /\ s[i] # n /\ s[i] < n /\ s[i] \in Nat
      /\ \A i, j \in 1..L : s[i] = s[j] => i = j
      /\ L = 0 => h.first = Null
      /\ L > 0 => h.first = s[1]
  BY ChainIs DEF Nodes, Null
<1>2. /\ p \in Nat /\ w \in Seq(Nodes) /\ Len(w) = L + 1 /\ w # <<>>
      /\ \A i \in 1..p-1 : i \in 1..L /\ w[i] = s[i]
      /\ w[p] = n
      /\ \A i \in p+1..L+1 : i - 1 \in 1..L /\ w[i] = s[i - 1]
      /\ \A i \in 1..L+1 : i \in 1..p-1 \/ i = p \/ i \in p+1..L+1
  BY WithIs
<1>3. 1 <= p /\ p <= L + 1
  BY <1>1
<1>4. /\ h2.key = [h.key EXCEPT ![n] = k] /\ h2.fresh = n + 1 /\ h2.size = h.size + 1
      /\ h2.deleted = h.deleted
      /\ h2.next = [m \in Nodes |-> IF m = n THEN IF p > L THEN Null ELSE s[p]
                                  ELSE IF p > 1 /\ m = s[p - 1] THEN n ELSE h.next[m]]
      /\ h2.prev = [m \in Nodes |-> IF m = n THEN IF p = 1 THEN Null ELSE s[p - 1]
                                  ELSE IF p <= L /\ m = s[p] THEN n ELSE h.prev[m]]
      /\ h2.first = (IF p = 1 THEN n ELSE h.first)
      /\ h2.last = (IF p > L THEN n ELSE h.last)
  BY DEF PutAt
<1>5. /\ h.key \in [Nodes -> 0..MaxNodes] /\ h.size \in Nat
  BY FieldsAre
<1>6. /\ \A i \in 1..L : /\ h.next[s[i]] = (IF i = L THEN Null ELSE s[i + 1])
                         /\ h.prev[s[i]] = (IF i = 1 THEN Null ELSE s[i - 1])
                         /\ s[i] \notin h.deleted
      /\ \A i, j \in 1..L : i < j => h.key[s[i]] < h.key[s[j]]
      /\ \A m \in Nodes : m >= n => h.next[m] = Null /\ h.prev[m] = Null /\ m \notin h.deleted
  BY DEF Linked, Follows
<1>0. /\ \A i \in 1..p-1 : h.key[s[i]] < k
      /\ \A i \in p..Len(s) : k < h.key[s[i]]
  BY DEF Between
<1> HIDE DEF n, w, L
<1>7. h2.first = w[1]
  <2>1. CASE p = 1
    BY <1>2, <1>4, <2>1
  <2>2. CASE p # 1
    <3>1. 1 \in 1..p-1 /\ L > 0
      BY <1>1, <1>2, <1>3, <2>2
    <3> QED BY <1>1, <1>2, <1>4, <2>2, <3>1
  <2> QED BY <2>1, <2>2
<1>8. ASSUME NEW i \in 1..L+1
      PROVE  /\ h2.next[w[i]] = (IF i = L + 1 THEN Null ELSE w[i + 1])
             /\ h2.prev[w[i]] = (IF i = 1 THEN Null ELSE w[i - 1])
             /\ w[i] < n + 1 /\ w[i] \notin h.deleted /\ w[i] \in Nodes
  <2>0. i \in Nat /\ i >= 1 /\ i <= L + 1
    BY <1>1
  <2>1. CASE i \in 1..p-1
    <3>1. i \in 1..L /\ w[i] = s[i] /\ i < p /\ i # L + 1
      BY <1>1, <1>2, <1>3, <2>0, <2>1
    <3>2. h2.next[w[i]] = w[i + 1]
      <4>1. CASE i = p - 1
        <5>1. i + 1 = p /\ p > 1
          BY <1>2, <2>0, <4>1
        <5> QED BY <1>1, <1>2, <1>4, <3>1, <4>1, <5>1, SMTT(30)
      <4>2. CASE i # p - 1
        <5>1. i + 1 \in 1..p-1 /\ i + 1 \in 1..L /\ i # L
          <6>1. p \in Nat /\ L \in Nat /\ i \in Nat /\ i < p - 1 /\ p <= L + 1
            BY <1>1, <1>2, <1>3, <2>0, <2>1, <4>2
          <6> QED BY <6>1
        <5>2. w[i + 1] = s[i + 1] /\ h.next[s[i]] = s[i + 1]
          BY <1>2, <1>6, <3>1, <5>1
        <5>3. p > 1 => p - 1 \in 1..L
          BY <1>1, <1>2, <1>3
        <5>4. ~(p > 1 /\ s[i] = s[p - 1])
          BY <1>1, <3>1, <4>2, <5>3
        <5> QED BY <1>1, <1>4, <3>1, <5>2, <5>4
      <4> QED BY <4>1, <4>2
    <3>3. h2.prev[w[i]] = (IF i = 1 THEN Null ELSE w[i - 1])
      <4>1. ~(p <= L /\ s[i] = s[p])
        <5>1. p <= L => p \in 1..L
          BY <1>1, <1>2, <1>3
        <5> QED BY <1>1, <2>0, <3>1, <5>1
      <4>2. h2.prev[w[i]] = h.prev[s[i]]
        BY <1>1, <1>4, <3>1, <4>1
      <4>3. i # 1 => i - 1 \in 1..p-1
        BY <1>2, <2>0, <2>1
      <4> QED BY <1>2, <1>6, <3>1, <4>2, <4>3
    <3> QED BY <1>1, <1>6, <3>1, <3>2, <3>3
  <2>2. CASE i = p
    <3>1. w[i] = n
      BY <1>2, <2>2
    <3>2. h2.next[n] = (IF p = L + 1 THEN Null ELSE w[p + 1])
      <4>1. CASE p = L + 1
        BY <1>1, <1>4, <4>1
      <4>2. CASE p # L + 1
        <5>1. p + 1 \in p+1..L+1 /\ ~(p > L) /\ (p + 1) - 1 = p
          BY <1>1, <1>2, <1>3, <4>2
        <5> QED BY <1>1, <1>2, <1>4, <4>2, <5>1
      <4> QED BY <4>1, <4>2
    <3>3. h2.prev[n] = (IF p = 1 THEN Null ELSE w[p - 1])
      <4>1. p # 1 => p - 1 \in 1..p-1
        BY <1>2, <1>3
      <4> QED BY <1>1, <1>2, <1>4, <4>1
    <3>4. n \notin h.deleted
      BY <1>1, <1>6
    <3> QED BY <1>1, <2>2, <3>1, <3>2, <3>3, <3>4
  <2>3. CASE i \in p+1..L+1
    <3>1. i - 1 \in 1..L /\ w[i] = s[i - 1] /\ i # 1 /\ i > p
      BY <1>1, <1>2, <1>3, <2>0, <2>3
    <3>2. h2.next[w[i]] = (IF i = L + 1 THEN Null ELSE w[i + 1])
      <4>1. p > 1 => p - 1 \in 1..L
        BY <1>1, <1>2, <1>3
      <4>2. ~(p > 1 /\ s[i - 1] = s[p - 1])
        <5>1. p - 1 # i - 1
          BY <1>2, <2>0, <3>1
        <5> QED BY <1>1, <3>1, <4>1, <5>1
      <4>3. h2.next[w[i]] = h.next[s[i - 1]]
        BY <1>1, <1>4, <3>1, <4>2
      <4>4. i # L + 1 => i + 1 \in p+1..L+1 /\ (i + 1) - 1 = i /\ (i - 1) + 1 = i /\ i - 1 # L
        BY <1>1, <1>2, <2>0, <3>1
      <4>5. i = L + 1 => i - 1 = L
        BY <1>1
      <4> QED BY <1>2, <1>6, <3>1, <4>3, <4>4, <4>5
    <3>3. h2.prev[w[i]] = w[i - 1]
      <4>1. CASE i = p + 1
        <5>1. i - 1 = p /\ p <= L
          BY <1>1, <1>2, <2>0, <4>1
        <5> QED BY <1>1, <1>2, <1>4, <3>1, <5>1
      <4>2. CASE i # p + 1
        <5>1. i - 1 \in p+1..L+1 /\ i - 1 # p /\ i - 1 # 1
          BY <1>1, <1>2, <1>3, <2>0, <3>1, <4>2
        <5>2. p <= L => p \in 1..L
          BY <1>1, <1>2, <1>3
        <5>3. ~(p <= L /\ s[i - 1] = s[p])
          BY <1>1, <3>1, <5>1, <5>2
        <5>4. h2.prev[w[i]] = h.prev[s[i - 1]]
          BY <1>1, <1>4, <3>1, <5>3
        <5> QED BY <1>2, <1>6, <3>1, <5>1, <5>4
      <4> QED BY <4>1, <4>2
    <3> QED BY <1>1, <1>6, <3>1, <3>2, <3>3
  <2> QED BY <1>2, <2>1, <2>2, <2>3
<1>9. ASSUME NEW m \in Nodes, m >= n + 1 PROVE h2.next[m] = Null /\ h2.prev[m] = Null /\ m \notin h.deleted
  <2>1. m \in Nat /\ m > n /\ m # n /\ m >= n
    BY <1>1, <1>9 DEF Nodes
  <2>2. ~(p > 1 /\ m = s[p - 1])
    <3>1. p > 1 => p - 1 \in 1..L
      BY <1>1, <1>2, <1>3
    <3> QED BY <1>1, <2>1, <3>1
  <2>3. ~(p <= L /\ m = s[p])
    <3>1. p <= L => p \in 1..L
      BY <1>1, <1>2, <1>3
    <3> QED BY <1>1, <2>1, <3>1
  <2> QED BY <1>4, <1>6, <2>1, <2>2, <2>3
<1>10. /\ \A i \in 1..L : h2.key[s[i]] = h.key[s[i]] /\ h.key[s[i]] \in Nat
       /\ h2.key[n] = k /\ k \in Nat
  BY <1>1, <1>4, <1>5
<1>11. ASSUME NEW i \in 1..L+1, NEW j \in 1..L+1, i < j PROVE h2.key[w[i]] < h2.key[w[j]]
  <2>0. i \in Nat /\ j \in Nat /\ i >= 1 /\ j <= L + 1
    BY <1>1
  <2>1. CASE i \in 1..p-1 /\ j \in 1..p-1
    <3>1. i \in 1..L /\ j \in 1..L /\ w[i] = s[i] /\ w[j] = s[j]
      BY <1>2, <2>1
    <3>2. h.key[s[i]] < h.key[s[j]]
      BY <1>6, <1>11, <3>1
    <3> QED BY <1>10, <3>1, <3>2
  <2>2. CASE i \in 1..p-1 /\ j = p
    <3>1. i \in 1..L /\ w[i] = s[i] /\ w[j] = n
      BY <1>2, <2>2
    <3>2. h.key[s[i]] < k
      BY <1>0, <2>2
    <3> QED BY <1>10, <3>1, <3>2
  <2>3. CASE i \in 1..p-1 /\ j \in p+1..L+1
    <3>1. i \in 1..L /\ j - 1 \in 1..L /\ w[i] = s[i] /\ w[j] = s[j - 1]
      BY <1>2, <2>3
    <3>2. i < j - 1
      BY <1>2, <2>0, <2>3
    <3> QED BY <1>6, <1>10, <3>1, <3>2
  <2>4. CASE i = p /\ j \in p+1..L+1
    <3>1. j - 1 \in 1..L /\ w[j] = s[j - 1] /\ w[i] = n
      BY <1>2, <2>4
    <3>2. j - 1 \in p..Len(s)
      BY <1>1, <1>2, <2>0, <2>4 DEF L
    <3> QED BY <1>0, <1>10, <3>1, <3>2
  <2>5. CASE i \in p+1..L+1 /\ j \in p+1..L+1
    <3>1. i - 1 \in 1..L /\ j - 1 \in 1..L /\ w[i] = s[i - 1] /\ w[j] = s[j - 1]
      BY <1>2, <2>5
    <3>2. i - 1 < j - 1
      BY <1>11, <2>0
    <3> QED BY <1>6, <1>10, <3>1, <3>2
  <2>6. \/ i \in 1..p-1 /\ (j \in 1..p-1 \/ j = p \/ j \in p+1..L+1)
        \/ i = p /\ j \in p+1..L+1
        \/ i \in p+1..L+1 /\ j \in p+1..L+1
    BY <1>1, <1>2, <1>11, <2>0
  <2> QED BY <2>1, <2>2, <2>3, <2>4, <2>5, <2>6
<1>12. h2.size # 0 /\ L + 1 < n + 1
  BY <1>1, <1>4, <1>5
<1>13. Linked(h2, w)
  <2>1. Follows(h2, w)
    BY <1>2, <1>4, <1>7, <1>8, <1>12 DEF Follows
  <2>2. \A i \in 1..Len(w) : /\ h2.prev[w[i]] = (IF i = 1 THEN Null ELSE w[i - 1])
                              /\ w[i] < h2.fresh /\ w[i] \notin h2.deleted
    <3> SUFFICES ASSUME NEW i \in 1..L+1
                 PROVE  /\ h2.prev[w[i]] = (IF i = 1 THEN Null ELSE w[i - 1])
                        /\ w[i] < h2.fresh /\ w[i] \notin h2.deleted
      BY <1>2
    <3>1. h2.fresh = n + 1 /\ h2.deleted = h.deleted
      BY <1>4
    <3> QED BY <1>8, <3>1
  <2>3. \A i, j \in 1..Len(w) : i < j => h2.key[w[i]] < h2.key[w[j]]
    BY <1>2, <1>11
  <2>4. \A m \in Nodes : m >= h2.fresh => h2.next[m] = Null /\ h2.prev[m] = Null /\ m \notin h2.deleted
    BY <1>4, <1>9
  <2>5. (h2.size = 0) <=> (w = <<>>)
    BY <1>2, <1>12
  <2> QED BY <2>1, <2>2, <2>3, <2>4, <2>5 DEF Linked
<1>14. KeysOf(h2, w) = KeysOf(h, s) \cup {k}
  <2>1. ASSUME NEW i \in 1..L+1 PROVE h2.key[w[i]] \in KeysOf(h, s) \cup {k}
    <3>0. \A j \in 1..L : h2.key[s[j]] \in KeysOf(h, s)
      BY <1>10 DEF KeysOf, L
    <3>1. CASE i = p
      BY <1>2, <1>10, <3>1
    <3>2. CASE i \in 1..p-1
      BY <1>2, <3>0, <3>2
    <3>3. CASE i \in p+1..L+1
      BY <1>2, <3>0, <3>3
    <3> QED BY <1>2, <3>1, <3>2, <3>3
  <2>2. k \in KeysOf(h2, w)
    <3>1. p \in 1..L+1
      BY <1>1, <1>2, <1>3
    <3> QED BY <1>2, <1>10, <3>1 DEF KeysOf
  <2>3. ASSUME NEW i \in 1..L PROVE h.key[s[i]] \in KeysOf(h2, w)
    <3>1. \E j \in 1..L+1 : w[j] = s[i]
      <4>0. i \in Nat /\ i >= 1 /\ i <= L
        BY <1>1
      <4>1. CASE i < p
        <5>1. i \in 1..p-1 /\ i \in 1..L+1
          BY <1>1, <1>2, <4>0, <4>1
        <5> QED BY <1>2, <5>1
      <4>2. CASE i >= p
        <5>1. i + 1 \in p+1..L+1 /\ (i + 1) - 1 = i /\ i + 1 \in 1..L+1
          BY <1>1, <1>2, <4>0, <4>2
        <5>2. w[i + 1] = s[i]
          BY <1>2, <5>1
        <5> QED BY <5>1, <5>2
      <4> QED BY <1>2, <4>0, <4>1, <4>2
    <3> QED BY <1>2, <1>10, <3>1 DEF KeysOf
  <2>4. KeysOf(h2, w) \subseteq KeysOf(h, s) \cup {k}
    <3> SUFFICES ASSUME NEW x \in KeysOf(h2, w) PROVE x \in KeysOf(h, s) \cup {k}
      OBVIOUS
    <3>1. PICK i \in 1..L+1 : x = h2.key[w[i]]
      BY <1>2 DEF KeysOf
    <3> QED BY <2>1, <3>1
  <2>5. KeysOf(h, s) \subseteq KeysOf(h2, w)
    BY <2>3 DEF KeysOf, L
  <2> QED BY <2>2, <2>4, <2>5
<1>15. ASSUME h.last = IF s = <<>> THEN Null ELSE s[L] PROVE h2.last = w[L + 1]
  <2>1. CASE p > L
    <3>1. p = L + 1
      BY <1>1, <1>2, <1>3, <2>1
    <3> QED BY <1>2, <1>4, <2>1, <3>1
  <2>2. CASE ~(p > L)
    <3>1. L + 1 \in p+1..L+1 /\ (L + 1) - 1 = L /\ L > 0
      BY <1>1, <1>2, <1>3, <2>2
    <3> QED BY <1>1, <1>2, <1>4, <1>15, <2>2, <3>1
  <2> QED BY <2>1, <2>2
<1> QED BY <1>13, <1>14, <1>15 DEF L, w, n

(* What an erased node leaves behind: its neighbours linked to each other.    *)
Erased(h, n, h2) ==
    /\ h2.next = [m \in Nodes |-> IF m = h.prev[n] THEN h.next[n] ELSE h.next[m]]
    /\ h2.prev = [m \in Nodes |-> IF m = h.next[n] THEN h.prev[n] ELSE h.prev[m]]
    /\ h2.deleted = h.deleted \cup {n} /\ h2.key = h.key /\ h2.first = h.first
    /\ h2.last = h.last /\ h2.size = h.size /\ h2.fresh = h.fresh
LEMMA ErasedFields ==
    ASSUME MaxNodes \in Nat, NEW h, MapTypes(h), NEW n \in Nodes
    PROVE  MapTypes(Erase(h, n)) /\ Erased(h, n, Erase(h, n))
<1> DEFINE h2 == Erase(h, n)
<1>1. /\ h.next \in [Nodes -> 0..MaxNodes] /\ h.prev \in [Nodes -> 0..MaxNodes]
      /\ h.key \in [Nodes -> 0..MaxNodes] /\ h.first \in 0..MaxNodes /\ h.last \in 0..MaxNodes
      /\ h.size \in Nat /\ h.fresh \in 1..MaxNodes+1 /\ h.deleted \in SUBSET Nodes
      /\ Shape(h)
  BY FieldsAre
<1>2. /\ h2.next = [m \in Nodes |-> IF m = h.prev[n] THEN h.next[n] ELSE h.next[m]]
      /\ h2.prev = [m \in Nodes |-> IF m = h.next[n] THEN h.prev[n] ELSE h.prev[m]]
      /\ h2.deleted = h.deleted \cup {n} /\ h2.key = h.key /\ h2.first = h.first
      /\ h2.last = h.last /\ h2.size = h.size /\ h2.fresh = h.fresh
      /\ Shape(h2)
  <2> DEFINE nx == [m \in Nodes |-> IF m = h.prev[n] THEN h.next[n] ELSE h.next[m]]
             pv == [m \in Nodes |-> IF m = h.next[n] THEN h.prev[n] ELSE h.prev[m]]
  <2>1. h2 = [h EXCEPT !.next = nx, !.prev = pv, !.deleted = @ \cup {n}]
    BY DEF Erase
  <2> HIDE DEF h2, nx, pv
  <2>2. /\ h2.next = nx /\ h2.prev = pv
        /\ h2.deleted = h.deleted \cup {n} /\ h2.key = h.key /\ h2.first = h.first
        /\ h2.last = h.last /\ h2.size = h.size /\ h2.fresh = h.fresh /\ Shape(h2)
    BY <1>1, <2>1 DEF Shape
  <2> QED BY <2>2 DEF nx, pv
<1> HIDE DEF h2
<1>3. h2.next \in [Nodes -> 0..MaxNodes] /\ h2.prev \in [Nodes -> 0..MaxNodes]
  BY <1>1, <1>2
<1>4. MapTypes(h2)
  BY <1>1, <1>2, <1>3, FieldsAre
<1>5. Erased(h, n, h2)
  BY <1>2 DEF Erased
<1> QED BY <1>4, <1>5 DEF h2

LEMMA EraseFirst ==
    ASSUME MaxNodes \in Nat, NEW h, MapTypes(h), NEW s, Linked(h, s), s # <<>>
    PROVE  Follows(Erase(h, s[1]), s) /\ s[1] \in Erase(h, s[1]).deleted
<1>1. /\ s \in Seq(Nodes) /\ Len(s) \in Nat /\ Len(s) < h.fresh /\ 1 \in 1..Len(s)
      /\ \A i \in 1..Len(s) : s[i] \in Nodes /\ s[i] # Null
  BY ChainIs
<1>2. h.prev[s[1]] = Null
  BY <1>1 DEF Linked
<1> DEFINE h2 == Erase(h, s[1])
<1>3. /\ h2.next = [m \in Nodes |-> IF m = h.prev[s[1]] THEN h.next[s[1]] ELSE h.next[m]]
      /\ h2.first = h.first /\ h2.fresh = h.fresh /\ s[1] \in h2.deleted
  <2>1. s[1] \in Nodes
    BY <1>1
  <2>2. Erased(h, s[1], h2)
    BY <2>1, ErasedFields
  <2> HIDE DEF h2
  <2>3. h2.deleted = h.deleted \cup {s[1]}
    BY <2>2 DEF Erased
  <2>4. s[1] \in h2.deleted
    BY <2>3
  <2> QED BY <2>2, <2>4 DEF Erased
<1> HIDE DEF h2
<1>4. \A i \in 1..Len(s) : h2.next[s[i]] = h.next[s[i]]
  BY <1>1, <1>2, <1>3
<1>5. Follows(h2, s)
  BY <1>3, <1>4 DEF Linked, Follows
<1> QED BY <1>3, <1>5 DEF h2

LEMMA EraseLater ==
    ASSUME MaxNodes \in Nat, NEW h, MapTypes(h), NEW s, Linked(h, s), NEW p \in 1..Len(s), p # 1
    PROVE  LET h2 == Erase(h, s[p])
               w == Without(s, p)
           IN  /\ Linked(h2, w) /\ w \in Seq(Nodes) /\ KeysOf(h2, w) = KeysOf(h, s) \ {h.key[s[p]]}
               /\ p # Len(s) => w # <<>> /\ w[Len(w)] = s[Len(s)]
<1> DEFINE n == s[p]
           w == Without(s, p)
           L == Len(s)
           h2 == Erase(h, n)
<1>1. /\ s \in Seq(Nodes) /\ L \in Nat /\ L < h.fresh /\ h.fresh \in Int
      /\ \A i \in 1..L : s[i] \in Nodes /\ s[i] # Null /\ s[i] < h.fresh
      /\ \A i, j \in 1..L : s[i] = s[j] => i = j
      /\ h.first = s[1]
  <2>1. L > 0
    BY ChainIs
  <2>2. h.fresh \in Int
    BY FieldsAre
  <2> QED BY <2>1, <2>2, ChainIs
<1>2. p \in Nat /\ 1 < p /\ p <= L
  BY <1>1
<1>3. /\ \A i \in 1..L : /\ h.next[s[i]] = (IF i = L THEN Null ELSE s[i + 1])
                         /\ h.prev[s[i]] = (IF i = 1 THEN Null ELSE s[i - 1])
                         /\ s[i] \notin h.deleted
      /\ \A i, j \in 1..L : i < j => h.key[s[i]] < h.key[s[j]]
      /\ \A m \in Nodes : m >= h.fresh => h.next[m] = Null /\ h.prev[m] = Null /\ m \notin h.deleted
      /\ h.size = 0 <=> s = <<>>
  BY DEF Linked, Follows
<1>4. n \in Nodes /\ h.key \in [Nodes -> 0..MaxNodes]
  BY <1>1, FieldsAre
<1>5. /\ h2.next = [m \in Nodes |-> IF m = h.prev[n] THEN h.next[n] ELSE h.next[m]]
      /\ h2.prev = [m \in Nodes |-> IF m = h.next[n] THEN h.prev[n] ELSE h.prev[m]]
      /\ h2.deleted = h.deleted \cup {n} /\ h2.key = h.key /\ h2.first = h.first
      /\ h2.size = h.size /\ h2.fresh = h.fresh
  <2>1. Erased(h, n, h2)
    BY <1>4, ErasedFields
  <2> HIDE DEF h2, n
  <2> QED BY <2>1 DEF Erased
<1>6. /\ w = [i \in 1..L-1 |-> IF i < p THEN s[i] ELSE s[i + 1]] /\ L - 1 \in Nat /\ L - 1 > 0
      /\ \A i \in 1..L-1 : /\ i \in 1..L /\ i + 1 \in 1..L
                           /\ i < p => w[i] = s[i]
                           /\ i >= p => w[i] = s[i + 1]
                           /\ w[i] = IF i < p THEN s[i] ELSE s[i + 1]
  BY <1>1, <1>2 DEF Without
<1>7. w \in Seq(Nodes) /\ Len(w) = L - 1 /\ w # <<>>
  <2>1. w \in [1..L-1 -> Nodes]
    BY <1>1, <1>6
  <2> HIDE DEF w
  <2>2. w \in Seq(Nodes) /\ Len(w) = L - 1
    <3>1. PICK k \in Nat : k = L - 1
      BY <1>6
    <3> QED BY <2>1, <3>1
  <2>3. L - 1 # 0
    BY <1>6
  <2> QED BY <2>2, <2>3, EmptySeq
<1> HIDE DEF h2, w, L
<1>8. n # s[1] /\ s # <<>>
  <2>1. 1 \in 1..L
    BY <1>1, <1>2
  <2> QED BY <1>1, <1>2, <2>1, EmptySeq DEF L
<1> HIDE DEF n
<1>9. /\ h.prev[n] = s[p - 1] /\ p - 1 \in 1..L
      /\ h.next[n] = (IF p = L THEN Null ELSE s[p + 1])
      /\ p # L => p + 1 \in 1..L
  BY <1>1, <1>2, <1>3 DEF n
<1>10. ASSUME NEW i \in 1..L-1
       PROVE  /\ h2.next[w[i]] = (IF i = L - 1 THEN Null ELSE w[i + 1])
              /\ h2.prev[w[i]] = (IF i = 1 THEN Null ELSE w[i - 1])
              /\ w[i] < h.fresh /\ w[i] \notin h2.deleted
  <2>0. i \in Nat /\ i >= 1 /\ i <= L - 1 /\ i \in 1..L /\ i + 1 \in 1..L
    BY <1>1
  <2>1. CASE i < p
    <3>1. w[i] = s[i] /\ s[i] \in Nodes /\ s[i] # n
      BY <1>1, <1>2, <1>6, <2>0, <2>1 DEF n
    <3>2. h2.next[s[i]] = (IF i = L - 1 THEN Null ELSE w[i + 1])
      <4>1. CASE i = p - 1
        <5>1. h2.next[s[i]] = h.next[n]
          BY <1>5, <1>9, <3>1, <4>1
        <5>2. i # L - 1 => w[i + 1] = s[p + 1]
          <6>1. i # L - 1 => i + 1 \in 1..L-1 /\ i + 1 >= p /\ (i + 1) + 1 = p + 1
            BY <1>1, <1>2, <2>0, <4>1
          <6> QED BY <1>6, <6>1
        <5>3. i = L - 1 <=> p = L
          BY <1>1, <1>2, <2>0, <4>1
        <5> QED BY <1>9, <5>1, <5>2, <5>3
      <4>2. CASE i # p - 1
        <5>1. i + 1 \in 1..L-1 /\ i + 1 < p /\ i # L /\ i # L - 1
          <6>1. i < p - 1 /\ p <= L /\ i \in Nat /\ p \in Nat /\ L \in Nat
            BY <1>1, <1>2, <2>0, <2>1, <4>2
          <6> QED BY <6>1
        <5>2. w[i + 1] = s[i + 1]
          BY <1>6, <5>1
        <5>3. s[i] # s[p - 1]
          BY <1>1, <1>9, <2>0, <4>2
        <5> QED BY <1>3, <1>5, <1>9, <2>0, <3>1, <5>1, <5>2, <5>3
      <4> QED BY <4>1, <4>2
    <3>3. h2.prev[s[i]] = (IF i = 1 THEN Null ELSE w[i - 1])
      <4>1. s[i] # h.next[n]
        <5>1. i # p + 1
          BY <1>2, <2>0, <2>1
        <5> QED BY <1>1, <1>9, <2>0, <5>1
      <4>2. i # 1 => i - 1 \in 1..L-1 /\ i - 1 < p
        BY <1>1, <1>2, <2>0, <2>1
      <4>3. h2.prev[s[i]] = h.prev[s[i]]
        BY <1>5, <3>1, <4>1
      <4> QED BY <1>3, <1>6, <2>0, <4>2, <4>3
    <3> QED BY <1>1, <1>3, <1>5, <2>0, <3>1, <3>2, <3>3
  <2>2. CASE i >= p
    <3>1. w[i] = s[i + 1] /\ s[i + 1] \in Nodes /\ s[i + 1] # n /\ i + 1 # 1 /\ i # 1
      <4>1. i + 1 # p /\ i + 1 # 1 /\ i # 1
        BY <1>2, <2>0, <2>2
      <4> QED BY <1>1, <1>6, <2>0, <2>2, <4>1 DEF n
    <3>2. h2.next[s[i + 1]] = (IF i = L - 1 THEN Null ELSE w[i + 1])
      <4>1. s[i + 1] # s[p - 1]
        <5>1. i + 1 # p - 1
          BY <1>2, <2>0, <2>2
        <5> QED BY <1>1, <1>9, <2>0, <5>1
      <4>2. h2.next[s[i + 1]] = h.next[s[i + 1]]
        BY <1>5, <1>9, <3>1, <4>1
      <4>3. i # L - 1 => i + 1 \in 1..L-1 /\ i + 1 >= p /\ i + 1 # L
        BY <1>1, <1>2, <2>0, <2>2
      <4>4. i = L - 1 => i + 1 = L
        BY <1>1
      <4>5. h.next[s[i + 1]] = (IF i + 1 = L THEN Null ELSE s[(i + 1) + 1])
        BY <1>3, <2>0
      <4>6. i # L - 1 => w[i + 1] = s[(i + 1) + 1]
        BY <1>6, <4>3
      <4> QED BY <4>2, <4>3, <4>4, <4>5, <4>6
    <3>3. h2.prev[s[i + 1]] = w[i - 1]
      <4>1. CASE i = p
        <5>1. p # L
          BY <1>1, <2>0, <4>1
        <5>2. h2.prev[s[i + 1]] = s[p - 1]
          BY <1>5, <1>9, <3>1, <4>1, <5>1
        <5>3. i - 1 \in 1..L-1 /\ i - 1 < p
          BY <1>1, <1>2, <2>0, <4>1
        <5> QED BY <1>6, <4>1, <5>2, <5>3
      <4>2. CASE i # p
        <5>1. i - 1 \in 1..L-1 /\ i - 1 >= p /\ (i - 1) + 1 = i /\ (i + 1) - 1 = i /\ i + 1 # p + 1
          BY <1>1, <1>2, <2>0, <2>2, <4>2
        <5>2. s[i + 1] # h.next[n]
          BY <1>1, <1>9, <2>0, <5>1
        <5>3. h2.prev[s[i + 1]] = h.prev[s[i + 1]]
          BY <1>5, <3>1, <5>2
        <5>4. h.prev[s[i + 1]] = s[i]
          BY <1>3, <2>0, <3>1, <5>1
        <5> QED BY <1>6, <5>1, <5>3, <5>4
      <4> QED BY <4>1, <4>2
    <3> QED BY <1>1, <1>3, <1>5, <2>0, <3>1, <3>2, <3>3
  <2> QED BY <1>2, <2>0, <2>1, <2>2
<1>11. h2.first = w[1]
  <2>1. 1 \in 1..L-1 /\ 1 < p
    BY <1>2, <1>6
  <2> QED BY <1>1, <1>5, <1>6, <2>1
<1>12. ASSUME NEW m \in Nodes, m >= h.fresh
       PROVE  h2.next[m] = Null /\ h2.prev[m] = Null /\ m \notin h2.deleted
  <2>0. m \in Int
    BY DEF Nodes
  <2>1. \A i \in 1..L : m # s[i]
    BY <1>1, <1>12, <2>0 DEF Nodes
  <2>2. m # Null
    BY DEF Nodes, Null
  <2>3. m # h.prev[n] /\ m # h.next[n] /\ m # n
    BY <1>9, <2>1, <2>2 DEF n, L
  <2> QED BY <1>3, <1>5, <1>12, <2>3
<1>13. ASSUME NEW i \in 1..L-1, NEW j \in 1..L-1, i < j PROVE h2.key[w[i]] < h2.key[w[j]]
  <2>0. /\ i \in Nat /\ j \in Nat /\ i \in 1..L /\ j \in 1..L /\ i + 1 \in 1..L /\ j + 1 \in 1..L
        /\ i < j + 1 /\ i + 1 < j + 1 /\ (j < p => i < p) /\ (~(i < p) => ~(j < p))
    BY <1>1, <1>2, <1>13
  <2>1. w[i] = (IF i < p THEN s[i] ELSE s[i + 1]) /\ w[j] = (IF j < p THEN s[j] ELSE s[j + 1])
    BY <1>6
  <2> QED BY <1>3, <1>5, <1>13, <2>0, <2>1
<1>14. Linked(h2, w)
  <2>1. Follows(h2, w)
    <3>1. Len(w) < h2.fresh
      BY <1>1, <1>5, <1>7
    <3> QED BY <1>7, <1>10, <1>11, <3>1 DEF Follows
  <2>2. \A i \in 1..Len(w) : /\ h2.prev[w[i]] = (IF i = 1 THEN Null ELSE w[i - 1])
                              /\ w[i] < h2.fresh /\ w[i] \notin h2.deleted
    BY <1>5, <1>7, <1>10
  <2>3. \A i, j \in 1..Len(w) : i < j => h2.key[w[i]] < h2.key[w[j]]
    BY <1>7, <1>13
  <2>4. \A m \in Nodes : m >= h2.fresh => h2.next[m] = Null /\ h2.prev[m] = Null /\ m \notin h2.deleted
    BY <1>5, <1>12
  <2>5. (h2.size = 0) <=> (w = <<>>)
    BY <1>3, <1>5, <1>7, <1>8
  <2> QED BY <2>1, <2>2, <2>3, <2>4, <2>5 DEF Linked
<1>15. KeysOf(h2, w) = KeysOf(h, s) \ {h.key[n]}
  <2>0. \A i \in 1..L : h.key[s[i]] = h.key[n] => i = p
    <3> SUFFICES ASSUME NEW i \in 1..L, i # p PROVE h.key[s[i]] # h.key[n]
      OBVIOUS
    <3>1. i < p \/ p < i
      BY <1>1, <1>2
    <3>2. h.key[s[i]] < h.key[s[p]] \/ h.key[s[p]] < h.key[s[i]]
      BY <1>3, <3>1 DEF L
    <3>3. h.key[s[i]] \in Int /\ h.key[s[p]] \in Int
      BY <1>1, <1>4 DEF L, n
    <3> QED BY <3>2, <3>3 DEF n
  <2>1. ASSUME NEW x \in KeysOf(h2, w) PROVE x \in KeysOf(h, s) /\ x # h.key[n]
    <3>1. PICK i \in 1..L-1 : x = h.key[w[i]]
      BY <1>5, <1>7 DEF KeysOf
    <3>2. i \in 1..L /\ i + 1 \in 1..L /\ (i < p => i # p) /\ (~(i < p) => i + 1 # p)
      BY <1>1, <1>2
    <3>3. PICK j \in 1..L : w[i] = s[j] /\ j # p
      BY <1>6, <3>2
    <3>4. x = h.key[s[j]] /\ x # h.key[n]
      BY <2>0, <3>1, <3>3
    <3> QED BY <3>4 DEF KeysOf, L
  <2>2. ASSUME NEW x \in KeysOf(h, s), x # h.key[n] PROVE x \in KeysOf(h2, w)
    <3>1. PICK j \in 1..L : x = h.key[s[j]]
      BY DEF KeysOf, L
    <3>2. j # p
      BY <2>2, <3>1 DEF n
    <3>3. \E i \in 1..L-1 : w[i] = s[j]
      <4>1. CASE j < p
        <5>1. j \in 1..L-1
          BY <1>1, <1>2, <4>1
        <5> QED BY <1>6, <4>1, <5>1
      <4>2. CASE ~(j < p)
        <5>1. j - 1 \in 1..L-1 /\ j - 1 >= p /\ (j - 1) + 1 = j
          BY <1>1, <1>2, <3>2, <4>2
        <5>2. w[j - 1] = s[j]
          BY <1>6, <5>1
        <5> QED BY <5>1, <5>2
      <4> QED BY <4>1, <4>2
    <3> QED BY <1>5, <1>7, <3>1, <3>3 DEF KeysOf
  <2> QED BY <2>1, <2>2
<1>16. ASSUME p # L PROVE w[Len(w)] = s[L]
  <2>1. L - 1 \in 1..L-1 /\ L - 1 >= p /\ (L - 1) + 1 = L
    BY <1>1, <1>2, <1>6, <1>16
  <2> QED BY <1>6, <1>7, <2>1
<1> QED BY <1>7, <1>14, <1>15, <1>16 DEF L, w, h2, n

-----------------------------------------------------------------------------
LEMMA ReachKeeps ==
    ASSUME ListInOrder, failure = End, NEW id \in Ids, Reach(id)
    PROVE  ListInOrder'
<1> DEFINE h == objects
           keys == {x \in 0..MaxNodes : x >= id}
           at == FindIf(h, keys)
           h2 == Subscript(h, id)
<1>1. /\ MaxNodes \in Nat /\ id \in 0..MaxNodes /\ MapTypes(h)
      /\ h.fresh \in Nodes /\ h.fresh \in 1..MaxNodes+1
      /\ objects' = h2 /\ failure' = (IF at < End THEN at ELSE failure)
      /\ kept' = (IF at < End THEN kept ELSE kept \cup {id})
      /\ erasedFirst' = erasedFirst /\ erasedLast' = erasedLast
  BY FactoryAssumption, FieldsAre DEF ListInOrder, Reach, SearchFails, Ids
<1>6. erasedFirst \in BOOLEAN /\ erasedLast \in BOOLEAN
  BY DEF ListInOrder
<1>2. h2 = (IF at < End \/ (at > End /\ h.key[at] = id) THEN h ELSE Insert(h, at, id))
  BY DEF Subscript
<1>3. PICK s \in Seq(Nodes) : ListKept(s)
  BY DEF ListInOrder
<1> HIDE DEF at, h2
<1>4. CASE erasedFirst
  <2>1. at = ReadsDeleted
    BY <1>1, <1>3, <1>4, FindsDeleted DEF ListKept, at
  <2>2. h2 = h /\ failure' = ReadsDeleted
    BY <1>1, <1>2, <2>1 DEF ReadsDeleted, End
  <2> QED BY <1>6, <1>1, <1>4, <2>2 DEF ListInOrder, ReadsDeleted, Endless, End
<1>5. CASE ~erasedFirst
  <2>1. /\ Linked(h, s) /\ Follows(h, s) /\ KeysOf(h, s) = kept /\ \A i \in 1..Len(s) : s[i] \notin h.deleted
        /\ ~erasedLast => h.last = IF s = <<>> THEN Null ELSE s[Len(s)]
    BY <1>3, <1>5 DEF ListKept, Linked
  <2>2. /\ Len(s) \in Nat /\ (s = <<>> <=> Len(s) = 0)
        /\ \A i \in 1..Len(s) : s[i] \in Nodes /\ s[i] \in Nat /\ s[i] > End
        /\ h.key \in [Nodes -> 0..MaxNodes]
        /\ \A i, j \in 1..Len(s) : i < j => h.key[s[i]] < h.key[s[j]]
    <3>1. /\ Len(s) \in Nat /\ (s = <<>> <=> Len(s) = 0) /\ \A i \in 1..Len(s) : s[i] \in Nodes
      BY <1>1, <2>1, ChainIs
    <3>2. h.key \in [Nodes -> 0..MaxNodes]
      BY <1>1, FieldsAre
    <3>3. \A i \in 1..Len(s) : s[i] \in Nat /\ s[i] > End
      BY <1>1, <3>1 DEF Nodes, End
    <3>4. \A i, j \in 1..Len(s) : i < j => h.key[s[i]] < h.key[s[j]]
      BY <2>1 DEF Linked
    <3> QED BY <3>1, <3>2, <3>3, <3>4
  <2>3. \/ \E p \in 1..Len(s) : FoundAt(h, s, keys, p) /\ at = s[p]
        \/ /\ NotFound(h, s, keys)
           /\ at = IF s = <<>> \/ s[Len(s)] = h.last THEN End ELSE Endless
    BY <1>1, <2>1, FindIs DEF at
  <2>4. CASE \E p \in 1..Len(s) : FoundAt(h, s, keys, p) /\ at = s[p] /\ h.key[s[p]] = id
    <3>1. PICK p \in 1..Len(s) : at = s[p] /\ h.key[s[p]] = id
      BY <2>4
    <3>2. at > End /\ h2 = h /\ ~(at < End)
      BY <1>2, <2>2, <3>1 DEF End
    <3>3. id \in KeysOf(h, s)
      BY <3>1 DEF KeysOf
    <3>4. kept' = kept /\ objects' = objects /\ failure' = failure
      BY <1>1, <2>1, <3>2, <3>3
    <3> QED BY <1>6, <1>1, <3>4 DEF ListInOrder, ListKept
  <2>5. ASSUME NEW p \in 1..Len(s)+1, ~(at < End), ~(at > End /\ h.key[at] = id),
               p <= Len(s) => at = s[p],
               p > Len(s) => at = End /\ (s = <<>> \/ s[Len(s)] = h.last),
               Between(h, s, p, id)
        PROVE  ListInOrder'
    <3>1. h2 = Insert(h, at, id)
      BY <1>2, <2>5
    <3>0. MaxNodes \in Nat /\ MapTypes(h) /\ h.fresh \in Nodes /\ id \in 0..MaxNodes /\ Linked(h, s)
      BY <1>1, <2>1
    <3>2. PutAt(h, s, p, id, h2) /\ MapTypes(h2)
      BY <2>5, <3>0, <3>1, InsertPuts
    <3>7. PICK w : w = With(s, p, h.fresh)
      OBVIOUS
    <3>3. /\ Linked(h2, w) /\ KeysOf(h2, w) = KeysOf(h, s) \cup {id}
          /\ (h.last = IF s = <<>> THEN Null ELSE s[Len(s)]) => h2.last = w[Len(s) + 1]
      <4>1. Between(h, s, p, id)
        BY <2>5
      <4>2. PutAt(h, s, p, id, h2)
        BY <3>2
      <4> HIDE DEF h
      <4>3. /\ Linked(h2, With(s, p, h.fresh)) /\ KeysOf(h2, With(s, p, h.fresh)) = KeysOf(h, s) \cup {id}
            /\ (h.last = IF s = <<>> THEN Null ELSE s[Len(s)]) => h2.last = With(s, p, h.fresh)[Len(s) + 1]
        BY <3>0, <4>1, <4>2, PutLinks
      <4> QED BY <3>7, <4>3
    <3>4. w \in Seq(Nodes) /\ Len(w) = Len(s) + 1 /\ w # <<>>
      BY <3>0, <3>7, WithIs
    <3>5. kept' = kept \cup {id} /\ failure' = End
      BY <1>1, <2>5
    <3>6. ListKept(w)'
      BY <1>1, <1>5, <2>1, <3>3, <3>4, <3>5 DEF ListKept
    <3> QED BY <1>6, <1>1, <3>2, <3>4, <3>5, <3>6 DEF ListInOrder, End, Endless
  <2>6. CASE \E p \in 1..Len(s) : FoundAt(h, s, keys, p) /\ at = s[p] /\ h.key[s[p]] # id
    <3>1. PICK p \in 1..Len(s) : FoundAt(h, s, keys, p) /\ at = s[p] /\ h.key[s[p]] # id
      BY <2>6
    <3>0. p \in Nat /\ 1 <= p /\ p <= Len(s) /\ p \in 1..Len(s)+1 /\ ~(p > Len(s))
      BY <2>2
    <3>2. \A i \in 1..p-1 : h.key[s[i]] < id
      <4> SUFFICES ASSUME NEW i \in 1..p-1 PROVE h.key[s[i]] < id
        OBVIOUS
      <4>1. i \in 1..Len(s)
        BY <2>2, <3>0
      <4>2. h.key[s[i]] \in 0..MaxNodes /\ h.key[s[i]] \notin keys
        BY <2>2, <3>1, <4>1 DEF FoundAt
      <4> QED BY <1>1, <4>2
    <3>3. h.key[s[p]] \in 0..MaxNodes /\ h.key[s[p]] >= id
      BY <2>2, <3>1 DEF FoundAt
    <3>4. \A i \in p..Len(s) : id < h.key[s[i]]
      <4> SUFFICES ASSUME NEW i \in p..Len(s) PROVE id < h.key[s[i]]
        OBVIOUS
      <4>1. i \in 1..Len(s) /\ (i = p \/ p < i)
        BY <2>2, <3>0
      <4>2. h.key[s[i]] \in 0..MaxNodes
        BY <2>2, <4>1
      <4>3. i = p \/ h.key[s[p]] < h.key[s[i]]
        BY <2>2, <3>1, <4>1
      <4> QED BY <1>1, <3>1, <3>3, <4>2, <4>3
    <3>5. ~(at < End) /\ h.key[at] # id
      BY <2>2, <3>1 DEF End
    <3>6. Between(h, s, p, id)
      BY <3>2, <3>4 DEF Between
    <3> QED BY <2>5, <3>0, <3>1, <3>5, <3>6
  <2>7. CASE NotFound(h, s, keys) /\ (s = <<>> \/ s[Len(s)] = h.last) /\ at = End
    <3> DEFINE p == Len(s) + 1
    <3>1. p \in 1..Len(s)+1 /\ ~(p <= Len(s)) /\ \A i \in p..Len(s) : FALSE
      BY <2>2
    <3>2. \A i \in 1..p-1 : h.key[s[i]] < id
      <4> SUFFICES ASSUME NEW i \in 1..p-1 PROVE h.key[s[i]] < id
        OBVIOUS
      <4>1. i \in 1..Len(s)
        BY <2>2
      <4>2. h.key[s[i]] \in 0..MaxNodes /\ h.key[s[i]] \notin keys
        BY <2>2, <2>7, <4>1 DEF NotFound
      <4> QED BY <1>1, <4>2
    <3>3. ~(at < End) /\ ~(at > End)
      BY <2>7 DEF End
    <3>4. Between(h, s, p, id)
      BY <3>1, <3>2 DEF Between
    <3>5. p > Len(s)
      BY <2>2 DEF p
    <3> QED BY <2>5, <2>7, <3>1, <3>3, <3>4, <3>5
  <2>8. CASE at = Endless /\ ~(s = <<>> \/ s[Len(s)] = h.last)
    <3>1. h2 = h /\ failure' = Endless
      BY <1>1, <1>2, <2>8 DEF Endless, End
    <3>2. erasedLast
      BY <2>1, <2>8
    <3> QED BY <1>6, <1>1, <3>1, <3>2 DEF ListInOrder, Endless, ReadsDeleted, End
  <2> QED BY <2>3, <2>4, <2>6, <2>7, <2>8
<1> QED BY <1>4, <1>5

LEMMA DestroyKeeps ==
    ASSUME ListInOrder, failure = End, NEW id \in Ids, Unlink(id)
    PROVE  ListInOrder'
<1> DEFINE h == objects
           at == FindIf(h, {id})
           h2 == EraseKey(h, id)
<1>1. /\ MaxNodes \in Nat /\ MapTypes(h) /\ h.fresh \in 1..MaxNodes+1
      /\ objects' = h2 /\ failure' = (IF at < End THEN at ELSE failure)
      /\ kept' = (IF at > End THEN kept \ {id} ELSE kept)
      /\ erasedFirst' = (erasedFirst \/ (at > End /\ at = h.first))
      /\ erasedLast' = (erasedLast \/ (at > End /\ at = h.last))
  BY FactoryAssumption, FieldsAre DEF ListInOrder, Unlink, SearchFails
<1>6. erasedFirst \in BOOLEAN /\ erasedLast \in BOOLEAN /\ erasedFirst' \in BOOLEAN /\ erasedLast' \in BOOLEAN
  BY <1>1 DEF ListInOrder
<1>2. h2 = (IF at <= End THEN h ELSE Erase(h, at))
  BY DEF EraseKey
<1>3. PICK s \in Seq(Nodes) : ListKept(s)
  BY DEF ListInOrder
<1> HIDE DEF at, h2
<1>4. CASE erasedFirst
  <2>1. at = ReadsDeleted
    BY <1>1, <1>3, <1>4, FindsDeleted DEF ListKept, at
  <2>2. h2 = h /\ failure' = ReadsDeleted
    BY <1>1, <1>2, <2>1 DEF ReadsDeleted, End
  <2>3. erasedFirst' /\ failure' # End /\ failure' # Endless
    <3>1. erasedFirst'
      BY <1>1, <1>4
    <3> QED BY <2>2, <3>1 DEF ReadsDeleted, Endless, End
  <2>4. MapTypes(objects')
    BY <1>1, <2>2
  <2> QED BY <1>6, <2>2, <2>3, <2>4 DEF ListInOrder
<1>5. CASE ~erasedFirst
  <2>1. /\ Linked(h, s) /\ Follows(h, s) /\ KeysOf(h, s) = kept /\ \A i \in 1..Len(s) : s[i] \notin h.deleted
        /\ ~erasedLast => h.last = IF s = <<>> THEN Null ELSE s[Len(s)]
    BY <1>3, <1>5 DEF ListKept, Linked
  <2>2. /\ Len(s) \in Nat /\ (s = <<>> <=> Len(s) = 0)
        /\ \A i \in 1..Len(s) : s[i] \in Nodes /\ s[i] \in Nat /\ s[i] > End
        /\ \A i, j \in 1..Len(s) : s[i] = s[j] => i = j
        /\ Len(s) > 0 => h.first = s[1]
    <3>1. /\ Len(s) \in Nat /\ (s = <<>> <=> Len(s) = 0) /\ \A i \in 1..Len(s) : s[i] \in Nodes
          /\ \A i, j \in 1..Len(s) : s[i] = s[j] => i = j
          /\ Len(s) > 0 => h.first = s[1]
      BY <1>1, <2>1, ChainIs
    <3> QED BY <3>1 DEF Nodes, End
  <2>3. \/ \E p \in 1..Len(s) : FoundAt(h, s, {id}, p) /\ at = s[p]
        \/ /\ NotFound(h, s, {id})
           /\ at = IF s = <<>> \/ s[Len(s)] = h.last THEN End ELSE Endless
    BY <1>1, <2>1, FindIs DEF at
  <2>4. ASSUME NEW p \in 1..Len(s), FoundAt(h, s, {id}, p), at = s[p] PROVE ListInOrder'
    <3>1. at > End /\ ~(at <= End) /\ ~(at < End) /\ at \in Nodes /\ h.key[at] = id /\ Len(s) > 0 /\ s # <<>>
      BY <2>2, <2>4 DEF FoundAt, End
    <3>2. h2 = Erase(h, at) /\ kept' = kept \ {id} /\ failure' = End /\ MapTypes(h2) /\ h2.last = h.last
      <4>1. h2 = Erase(h, at) /\ kept' = kept \ {id} /\ failure' = End
        BY <1>1, <1>2, <3>1
      <4>2. MapTypes(Erase(h, at)) /\ Erased(h, at, Erase(h, at))
        BY <1>1, <3>1, ErasedFields
      <4>3. MapTypes(h2) /\ Erased(h, at, h2)
        BY <4>1, <4>2
      <4> QED BY <4>1, <4>3 DEF Erased
    <3>3. CASE p = 1
      <4>1. erasedFirst' /\ Follows(h2, s) /\ s[1] \in h2.deleted
        BY <1>1, <2>1, <2>2, <2>4, <3>1, <3>2, <3>3, EraseFirst
      <4>2. ListKept(s)'
        BY <1>1, <3>1, <4>1 DEF ListKept
      <4> QED BY <1>6, <1>1, <3>2, <4>2 DEF ListInOrder, End, Endless
    <3>4. CASE p # 1
      <4> DEFINE w == Without(s, p)
      <4>1. /\ Linked(h2, w) /\ w \in Seq(Nodes) /\ KeysOf(h2, w) = KeysOf(h, s) \ {h.key[s[p]]}
            /\ p # Len(s) => w # <<>> /\ w[Len(w)] = s[Len(s)]
        BY <1>1, <2>1, <2>4, <3>2, <3>4, EraseLater
      <4>2. ~erasedFirst'
        <5>1. 1 \in 1..Len(s)
          BY <2>2, <3>1
        <5>2. at # h.first
          BY <2>2, <2>4, <3>1, <3>4, <5>1
        <5> QED BY <1>1, <1>5, <5>2
      <4>3. ~erasedLast' => /\ ~erasedLast /\ p # Len(s)
        BY <1>1, <2>1, <2>4, <3>1
      <4> HIDE DEF w
      <4>4. ListKept(w)'
        BY <1>1, <2>1, <2>4, <3>1, <3>2, <4>1, <4>2, <4>3 DEF ListKept
      <4> QED BY <1>6, <1>1, <3>2, <4>1, <4>4 DEF ListInOrder, End, Endless
    <3> QED BY <3>3, <3>4
  <2>5. CASE at = End
    <3>1. objects' = objects /\ kept' = kept /\ failure' = failure
          /\ erasedFirst' = erasedFirst /\ erasedLast' = erasedLast
      BY <1>1, <1>2, <1>5, <2>5 DEF End, ListInOrder
    <3> QED BY <3>1 DEF ListInOrder, ListKept
  <2>6. CASE at = Endless /\ ~(s = <<>> \/ s[Len(s)] = h.last)
    <3>1. h2 = h /\ failure' = Endless
      BY <1>1, <1>2, <2>6 DEF Endless, End
    <3>2. erasedLast /\ erasedLast'
      BY <1>1, <2>1, <2>6
    <3> QED BY <1>6, <1>1, <3>1, <3>2 DEF ListInOrder, Endless, ReadsDeleted, End
  <2> QED BY <2>3, <2>4, <2>5, <2>6
<1> QED BY <1>4, <1>5

LEMMA QuietKeeps ==
    ASSUME ListInOrder, UNCHANGED <<objects, failure, kept, erasedFirst, erasedLast>>
    PROVE  ListInOrder'
BY DEF ListInOrder, ListKept

LEMMA CallersAre == Direct \subseteq Callers /\ ByEcall \subseteq Callers /\ \A x \in Ids : x \in Nat
BY DEF Callers, Ids

LEMMA IdsStep ==
    ASSUME IdsInOrder, SerialIds, FactoryNext
    PROVE  IdsInOrder' /\ SerialIds'
<1>0. MaxId \in Nat
  BY FactoryAssumption
<1> USE DEF IdsInOrder, SerialIds
<1>8. ASSUME UNCHANGED <<entered, subject>>
      PROVE  /\ entered' \in [Direct -> {"no", "reach", "destroy"}] /\ subject' \in [Direct -> 0..MaxId]
             /\ \A t \in Direct : entered'[t] # "no" => subject'[t] \in Ids
  BY <1>8
<1>9. ASSUME NEW t \in Direct, NEW operation \in {"reach", "destroy"}, Leave(t, operation)
      PROVE  /\ entered' \in [Direct -> {"no", "reach", "destroy"}] /\ subject' \in [Direct -> 0..MaxId]
             /\ \A u \in Direct : entered'[u] # "no" => subject'[u] \in Ids
  BY <1>0, <1>9 DEF Leave
<1>1. ASSUME NEW t \in Direct, StartCreate(t) PROVE IdsInOrder' /\ SerialIds'
  <2>1. /\ creating[t] = "idle" /\ seqId < MaxId /\ loaded' = [loaded EXCEPT ![t] = seqId]
        /\ creating' = [creating EXCEPT ![t] = "increment"] /\ raced' = (raced \/ Busy)
        /\ seqId' = seqId /\ given' = given /\ UNCHANGED <<entered, subject>>
    BY <1>1 DEF StartCreate
  <2>2. IdsInOrder'
    BY <1>0, <1>8, <2>1
  <2>3. ASSUME ~raced' PROVE \A u \in Direct : creating[u] = "idle"
    BY <2>1, <2>3 DEF Busy
  <2>4. SerialIds'
    BY <2>1, <2>3
  <2> QED BY <2>2, <2>4
<1>2. ASSUME NEW t \in Direct, Increment(t) PROVE IdsInOrder' /\ SerialIds'
  <2>1. /\ creating[t] = "increment" /\ seqId' = loaded[t] + 1
        /\ creating' = [creating EXCEPT ![t] = "insert"]
        /\ loaded' = [loaded EXCEPT ![t] = 0] /\ given' = given /\ raced' = raced
        /\ loaded[t] \in 0..MaxId /\ loaded[t] < MaxId /\ UNCHANGED <<entered, subject>>
    BY <1>2 DEF Increment
  <2>2. seqId' \in Ids
    BY <1>0, <2>1 DEF Ids
  <2>3. IdsInOrder'
    BY <1>0, <1>8, <2>1, <2>2 DEF Ids
  <2>4. ASSUME ~raced PROVE /\ loaded[t] = seqId /\ seqId \in Nat /\ seqId' = seqId + 1
                            /\ \A u \in Direct : u # t => creating[u] = "idle"
                            /\ \A u \in Callers : \A id \in given[u] : id \in Nat /\ id <= seqId
    BY <2>1, <2>4, CallersAre
  <2>5. SerialIds'
    <3> SUFFICES ASSUME ~raced PROVE SerialIds'
      BY <2>1
    <3>1. \A u \in Callers : \A id \in given[u] : id <= seqId' /\ id # seqId'
      BY <2>4
    <3>2. \A u \in Direct : creating'[u] = (IF u = t THEN "insert" ELSE "idle")
      BY <2>1, <2>4
    <3> QED BY <2>1, <3>1, <3>2
  <2> QED BY <2>3, <2>5
<1>3. ASSUME NEW t \in Direct, InsertObject(t) PROVE IdsInOrder' /\ SerialIds'
  <2>1. /\ creating[t] = "insert" /\ creating' = [creating EXCEPT ![t] = "return"]
        /\ seqId' = seqId /\ loaded' = loaded /\ given' = given /\ raced' = raced /\ Leave(t, "reach")
    BY <1>3 DEF InsertObject
  <2> QED BY <1>9, <2>1
<1>4. ASSUME NEW t \in Direct, ReturnId(t) PROVE IdsInOrder' /\ SerialIds'
  <2>1. /\ creating[t] = "return" /\ creating' = [creating EXCEPT ![t] = "idle"]
        /\ given' = [given EXCEPT ![t] = @ \cup {seqId}]
        /\ seqId' = seqId /\ loaded' = loaded /\ raced' = raced /\ t \in Callers /\ seqId \in Ids
        /\ UNCHANGED <<entered, subject>>
    BY <1>4, CallersAre DEF ReturnId
  <2>2. IdsInOrder'
    BY <1>8, <2>1
  <2>3. SerialIds'
    <3> SUFFICES ASSUME ~raced PROVE SerialIds'
      BY <2>1
    <3>1. \A u \in Callers : seqId \notin given[u]
      BY <2>1
    <3>2. \A u \in Direct : creating'[u] = "idle"
      BY <2>1
    <3>3. \A u \in Callers : given'[u] = (IF u = t THEN given[t] \cup {seqId} ELSE given[u])
      BY <2>1
    <3>4. \A u \in Callers : \A id \in given'[u] : id <= seqId'
      BY <2>1, <3>3, CallersAre
    <3>5. \A u, v \in Callers : u # v => given'[u] \cap given'[v] = {}
      BY <3>1, <3>3
    <3> QED BY <3>2, <3>4, <3>5
  <2> QED BY <2>2, <2>3
<1>5. ASSUME NEW t \in ByEcall, CreateByEcall(t) PROVE IdsInOrder' /\ SerialIds'
  <2>1. /\ seqId < MaxId /\ seqId' = seqId + 1 /\ given' = [given EXCEPT ![t] = @ \cup {seqId + 1}]
        /\ raced' = (raced \/ Busy) /\ creating' = creating /\ loaded' = loaded
        /\ t \in Callers /\ seqId \in Nat /\ seqId + 1 \in Ids /\ UNCHANGED <<entered, subject>>
    <3>1. seqId < MaxId
      BY <1>5 DEF CreateByEcall
    <3>2. seqId + 1 \in Ids /\ seqId \in Nat
      BY <1>0, <3>1 DEF Ids
    <3> QED BY <1>5, <3>1, <3>2, CallersAre DEF CreateByEcall
  <2>2. IdsInOrder'
    BY <1>0, <1>8, <2>1 DEF Ids
  <2>3. SerialIds'
    <3> SUFFICES ASSUME ~raced' PROVE SerialIds'
      OBVIOUS
    <3>1. ~raced /\ \A u \in Direct : creating'[u] = "idle"
      BY <2>1 DEF Busy
    <3>2. \A u \in Callers : given'[u] = (IF u = t THEN given[t] \cup {seqId + 1} ELSE given[u])
      BY <2>1
    <3>3. \A u \in Callers : \A id \in given[u] : id \in Nat /\ id <= seqId
      BY <3>1, CallersAre
    <3>4. \A u \in Callers : seqId + 1 \notin given[u]
      BY <2>1, <3>3
    <3>5. \A u \in Callers : \A id \in given'[u] : id <= seqId'
      BY <2>1, <3>2, <3>3
    <3>6. \A u, v \in Callers : u # v => given'[u] \cap given'[v] = {}
      BY <3>1, <3>2, <3>4
    <3> QED BY <3>1, <3>5, <3>6
  <2> QED BY <2>2, <2>3
<1>6. ASSUME UNCHANGED callVars,
             \/ UNCHANGED <<entered, subject>>
             \/ \E t \in Direct, operation \in {"reach", "destroy"} : Leave(t, operation)
      PROVE  IdsInOrder' /\ SerialIds'
  <2>1. /\ entered' \in [Direct -> {"no", "reach", "destroy"}] /\ subject' \in [Direct -> 0..MaxId]
        /\ \A t \in Direct : entered'[t] # "no" => subject'[t] \in Ids
    BY <1>6, <1>8, <1>9
  <2> QED BY <1>6, <2>1 DEF callVars
<1>7. ASSUME NEW t \in Direct, NEW operation \in {"reach", "destroy"}, NEW id \in Ids, Enter(t, operation, id)
      PROVE  IdsInOrder' /\ SerialIds'
  <2>1. /\ entered' = [entered EXCEPT ![t] = operation] /\ subject' = [subject EXCEPT ![t] = id]
        /\ UNCHANGED callVars /\ id \in 0..MaxId
    BY <1>0, <1>7 DEF Enter, Ids
  <2> QED BY <2>1 DEF callVars
<1>10. ASSUME NEW t \in Direct, StartInsert(t) PROVE IdsInOrder' /\ SerialIds'
  BY <1>7, <1>10 DEF StartInsert
<1>11. ASSUME NEW t \in Direct, NEW id \in Ids, StartUse(t, id) \/ StartDestroy(t, id)
       PROVE  IdsInOrder' /\ SerialIds'
  BY <1>7, <1>11 DEF StartUse, StartDestroy
<1>12. ASSUME NEW t \in Direct, Use(t) \/ Destroy(t) PROVE IdsInOrder' /\ SerialIds'
  BY <1>6, <1>12 DEF Use, Destroy
<1>13. ASSUME NEW id \in Ids, UseByEcall(id) \/ DestroyByEcall(id) PROVE IdsInOrder' /\ SerialIds'
  BY <1>6, <1>13 DEF UseByEcall, DestroyByEcall
<1>14. CASE Overlap
  BY <1>6, <1>14 DEF Overlap
<1> HIDE DEF IdsInOrder, SerialIds
<1> QED BY <1>1, <1>2, <1>3, <1>4, <1>5, <1>10, <1>11, <1>12, <1>13, <1>14 DEF FactoryNext

LEMMA FactoryInitially == FactoryInit => FactoryInductive
<1> SUFFICES ASSUME FactoryInit PROVE FactoryInductive
  OBVIOUS
<1>0. MaxNodes \in Nat /\ MaxId \in Nat
  BY FactoryAssumption
<1>1. MapTypes(objects)
  BY <1>0 DEF FactoryInit, NewMap, MapTypes, Null
<1>2. ListKept(<<>>)
  <2> DEFINE s == <<>>
  <2>1. s \in Seq(Nodes) /\ Len(s) = 0 /\ \A i : i \notin 1..Len(s)
    OBVIOUS
  <2> HIDE DEF s
  <2>2. /\ objects.first = Null /\ objects.last = Null /\ objects.size = 0 /\ objects.fresh = 1
        /\ objects.deleted = {} /\ \A n \in Nodes : objects.next[n] = Null /\ objects.prev[n] = Null
    BY DEF FactoryInit, NewMap
  <2>3. s = <<>>
    BY DEF s
  <2>4. Linked(objects, s)
    BY <2>1, <2>2, <2>3 DEF Linked, Follows
  <2>5. KeysOf(objects, s) = {}
    BY <2>1 DEF KeysOf
  <2> QED BY <2>2, <2>3, <2>4, <2>5 DEF ListKept, FactoryInit, s
<1>3. ListInOrder
  <2>1. <<>> \in Seq(Nodes)
    OBVIOUS
  <2>2. failure = End /\ erasedFirst = FALSE /\ erasedLast = FALSE
    BY DEF FactoryInit
  <2>3. \E s \in Seq(Nodes) : ListKept(s)
    BY <1>2, <2>1
  <2>4. End # Endless
    BY DEF End, Endless
  <2> QED BY <1>1, <2>2, <2>3, <2>4 DEF ListInOrder
<1>4. IdsInOrder /\ SerialIds
  <2>1. /\ seqId = 0 /\ raced = FALSE /\ creating = [t \in Direct |-> "idle"] /\ loaded = [t \in Direct |-> 0]
        /\ given = [t \in Callers |-> {}]
    BY DEF FactoryInit
  <2>4. /\ entered = [t \in Direct |-> "no"] /\ subject = [t \in Direct |-> 0]
    BY DEF FactoryInit
  <2>2. IdsInOrder
    <3>0. 0 \in 0..MaxId
      BY <1>0
    <3>1. seqId \in 0..MaxId /\ 0 \in 0..MaxId /\ raced \in BOOLEAN
      BY <2>1, <3>0
    <3>2. /\ creating \in [Direct -> {"idle", "increment", "insert", "return"}]
          /\ loaded \in [Direct -> 0..MaxId]
      BY <2>1, <3>1
    <3>3. given \in [Callers -> SUBSET Ids]
      BY <2>1
    <3>4. \A t \in Direct : creating[t] = "idle"
      BY <2>1
    <3>5. /\ entered \in [Direct -> {"no", "reach", "destroy"}] /\ subject \in [Direct -> 0..MaxId]
          /\ \A t \in Direct : entered[t] = "no"
      BY <2>4, <3>0
    <3> QED BY <3>1, <3>2, <3>3, <3>4, <3>5 DEF IdsInOrder
  <2>3. SerialIds
    BY <2>1 DEF SerialIds
  <2> QED BY <2>2, <2>3
<1> QED BY <1>3, <1>4 DEF FactoryInductive

LEMMA FactoryStep == FactoryInductive /\ [FactoryNext]_factoryVars => FactoryInductive'
<1> SUFFICES ASSUME FactoryInductive, [FactoryNext]_factoryVars PROVE FactoryInductive'
  OBVIOUS
<1>0. ListInOrder /\ IdsInOrder /\ SerialIds
  BY DEF FactoryInductive
<1>1. CASE FactoryNext
  <2>0. failure = End
    BY <1>1 DEF FactoryNext
  <2>1. ASSUME UNCHANGED mapVars PROVE ListInOrder'
    BY <1>0, <2>1, QuietKeeps DEF mapVars
  <2>2. ASSUME NEW t \in Direct, InsertObject(t) \/ Use(t) \/ Destroy(t) PROVE ListInOrder'
    <3>1. subject[t] \in Ids /\ (Reach(subject[t]) \/ Unlink(subject[t]))
      BY <1>0, <2>2 DEF InsertObject, Use, Destroy, Leave, IdsInOrder
    <3>2. PICK id \in Ids : Reach(id) \/ Unlink(id)
      BY <3>1
    <3> QED BY <1>0, <2>0, <3>2, ReachKeeps, DestroyKeeps
  <2>3. ASSUME NEW t \in ByEcall, CreateByEcall(t) PROVE ListInOrder'
    <3>1. seqId < MaxId /\ seqId \in 0..MaxId /\ Reach(seqId + 1) /\ MaxId \in Nat
      BY <1>0, <2>3, FactoryAssumption DEF CreateByEcall, IdsInOrder
    <3>2. seqId + 1 \in Ids
      BY <3>1 DEF Ids
    <3>3. PICK id \in Ids : id = seqId + 1
      BY <3>2
    <3>4. Reach(id)
      BY <3>1, <3>3
    <3> QED BY <1>0, <2>0, <3>4, ReachKeeps
  <2>4. ASSUME NEW id \in Ids, UseByEcall(id) \/ DestroyByEcall(id) PROVE ListInOrder'
    BY <1>0, <2>0, <2>4, ReachKeeps, DestroyKeeps DEF UseByEcall, DestroyByEcall
  <2>6. ASSUME NEW t \in Direct,
               \/ StartCreate(t) \/ Increment(t) \/ StartInsert(t) \/ ReturnId(t)
               \/ \E id \in Ids : StartUse(t, id) \/ StartDestroy(t, id)
        PROVE  UNCHANGED mapVars
    BY <2>6 DEF StartCreate, Increment, StartInsert, ReturnId, StartUse, StartDestroy, Enter
  <2>7. Overlap => UNCHANGED mapVars
    BY DEF Overlap
  <2>5. ListInOrder'
    BY <1>1, <2>1, <2>2, <2>3, <2>4, <2>6, <2>7 DEF FactoryNext
  <2> QED BY <1>0, <1>1, <2>5, IdsStep DEF FactoryInductive
<1>2. CASE UNCHANGED factoryVars
  <2>1. ListInOrder'
    BY <1>0, <1>2, QuietKeeps DEF factoryVars
  <2>2. IdsInOrder' /\ SerialIds'
    BY <1>0, <1>2 DEF factoryVars, IdsInOrder, SerialIds
  <2> QED BY <2>1, <2>2 DEF FactoryInductive
<1> QED BY <1>1, <1>2

LEMMA FactoryHolds == FactoryInductive => FactoryInv
<1> SUFFICES ASSUME FactoryInductive PROVE FactoryInv
  OBVIOUS
<1>0. ListInOrder /\ IdsInOrder /\ SerialIds
  BY DEF FactoryInductive
<1>1. FailuresAreAtTheEnds
  BY <1>0 DEF FailuresAreAtTheEnds, ListInOrder, ReadsDeleted, End
<1>2. IdsUniqueSerially
  BY <1>0 DEF IdsUniqueSerially, SerialIds
<1>3. MapIsExact
  <2> SUFFICES ASSUME ~(erasedFirst \/ erasedLast) PROVE MapIsExact
    BY DEF MapIsExact
  <2>1. failure = End
    BY <1>0 DEF ListInOrder
  <2>2. PICK s \in Seq(Nodes) : ListKept(s)
    BY <1>0, <2>1 DEF ListInOrder
  <2>3. Linked(objects, s) /\ Follows(objects, s) /\ KeysOf(objects, s) = kept
    BY <2>2 DEF ListKept, Linked
  <2>4. Order(objects) = s /\ DOMAIN s = 1..Len(s) /\ Len(s) \in Nat
    <3>1. MaxNodes \in Nat /\ objects.fresh \in 1..MaxNodes+1
      BY <1>0, FactoryAssumption, FieldsAre DEF ListInOrder
    <3> QED BY <2>3, <3>1, OrderIs
  <2>5. {objects.key[s[i]] : i \in DOMAIN s} = kept
    BY <2>3, <2>4 DEF KeysOf
  <2>6. ASSUME NEW i \in DOMAIN s, i > 1
        PROVE  objects.key[s[i - 1]] < objects.key[s[i]] /\ objects.prev[s[i]] = s[i - 1]
    <3>1. i \in 1..Len(s) /\ i - 1 \in 1..Len(s) /\ i - 1 < i /\ i # 1
      BY <2>4, <2>6
    <3> QED BY <2>3, <3>1 DEF Linked
  <2> QED BY <2>1, <2>4, <2>5, <2>6 DEF MapIsExact
<1> QED BY <1>1, <1>2, <1>3 DEF FactoryInv

(* The factories, for any callers, ids and nodes and for calls preempted in   *)
(* the middle of an operation of the map, until two are inside it at once: as *)
(* long as neither end of the list was destroyed, the map is exact and every  *)
(* search ends (ecs_list.h and ecs_map.h); what goes wrong goes wrong at the  *)
(* ends; and calls of create that do not overlap give every id once           *)
(* (cs251_mutex.h:90).                                                        *)
THEOREM FactorySafe == FactorySpec => []FactoryInv
<1>1. FactoryInit => FactoryInductive
  BY FactoryInitially
<1>2. FactoryInductive /\ [FactoryNext]_factoryVars => FactoryInductive'
  BY FactoryStep
<1>3. FactoryInductive => FactoryInv
  BY FactoryHolds
<1> QED BY <1>1, <1>2, <1>3, PTL DEF FactorySpec
=============================================================================
