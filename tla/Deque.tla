------------------------------- MODULE Deque -------------------------------
(* The circular queue the kernel keeps its threads and the bytes of its pipes *)
(* in (os_kernel/src/ecs_queue.h), as operators on a record: its storage_, a  *)
(* vector of `room' slots, and the two indexes into it. One slot stays free,  *)
(* so that equal indexes mean an empty queue. A queue that is full is turned  *)
(* until it starts at slot 0 and grows by one slot (by two the first time).   *)
EXTENDS Integers, Sequences

CONSTANT Blank      \* what a slot holds before anything is stored in it

NewDeque == [store |-> <<>>, room |-> 0, begin |-> 0, end |-> 0]

Size(d) == IF d.end >= d.begin THEN d.end - d.begin ELSE d.end + d.room - d.begin
Capacity(d) == IF d.room = 0 THEN 0 ELSE d.room - 1

(* x % n for x < 2n, which is all the indexes ask for; RISC-V's remainder by  *)
(* zero is the dividend, and so is this.                                      *)
Wrap(x, n) == IF x < n THEN x ELSE x - n

Foremost(d) == d.store[d.begin]
Contents(d) == [k \in 1..Size(d) |-> d.store[Wrap(d.begin + k - 1, d.room)]]

-----------------------------------------------------------------------------
Inverted(s, first, last) ==
    [i \in DOMAIN s |-> IF i \in first..last THEN s[first + last - i] ELSE s[i]]

(* Three inversions turn the storage; the free slot becomes the last one. *)
NormalizeForgets(d) ==       \* mutant: the indexes move and the data does not
    IF d.begin = 0 THEN d ELSE [d EXCEPT !.begin = 0, !.end = d.room - 1]
Normalize(d) ==
    IF d.begin = 0 THEN d
    ELSE LET halves == Inverted(Inverted(d.store, 0, d.begin - 1), d.begin, d.room - 1)
         IN [store |-> Inverted(halves, 0, d.room - 1), room |-> d.room,
             begin |-> 0, end |-> d.room - 1]

Resized(d, n) ==
    [store |-> [i \in 0..n-1 |-> IF i < d.room THEN d.store[i] ELSE Blank],
     room |-> n, begin |-> d.begin, end |-> d.end]

Grown(d) == Resized(Normalize(d), Capacity(d) + 2)
Stored(d, v) == [d EXCEPT !.store[d.end] = v]
NextEnd(d) == Wrap(d.end + 1, d.room)

PushBack(d, v) ==
    LET g == IF Size(d) = Capacity(d) THEN Grown(d) ELSE d
    IN [Stored(g, v) EXCEPT !.end = NextEnd(g)]

PopFront(d) == [d EXCEPT !.begin = Wrap(d.begin + 1, d.room)]

-----------------------------------------------------------------------------
(* What the indexes and the storage of a queue that is used as it should be   *)
(* always satisfy.                                                            *)
WellFormed(d, Values) ==
    /\ d.room \in Nat \ {1}
    /\ d.store \in [0..d.room-1 -> Values \cup {Blank}]
    /\ d = [store |-> d.store, room |-> d.room, begin |-> d.begin, end |-> d.end]
    /\ d.begin \in 0..Capacity(d)
    /\ d.end \in 0..Capacity(d)
    /\ \A k \in 1..Size(d) : Contents(d)[k] \in Values
=============================================================================
