------------------------------ MODULE NodeMap ------------------------------
(* ecs::map over ecs::list (os_kernel/src/ecs_map.h, ecs_list.h): the doubly  *)
(* linked list of pairs, in the order of their keys, in which the factories   *)
(* keep their mutexes, condition variables and pipes. Operators on a record:  *)
(* the nodes' fields, begin_, rbegin_ and size_, and the nodes deleted. Nodes *)
(* are numbered in the order of their allocation, and 0 is nullptr.           *)
EXTENDS Integers, Sequences, SequencesExt

CONSTANT MaxNodes      \* bound on the nodes allocated

Nodes == 1..MaxNodes
Null == 0

NewMap == [next |-> [n \in Nodes |-> Null], prev |-> [n \in Nodes |-> Null],
           key |-> [n \in Nodes |-> 0], first |-> Null, last |-> Null,
           size |-> 0, fresh |-> 1, deleted |-> {}]

(* The nodes an iterator visits from begin(). *)
Order(h) ==
    LET walk[k \in 0..MaxNodes] ==
            IF k = 0 THEN IF h.first = Null THEN <<>> ELSE <<h.first>>
            ELSE LET way == walk[k - 1] IN
                 IF way = <<>> \/ h.next[Last(way)] = Null THEN way
                 ELSE Append(way, h.next[Last(way)])
    IN walk[MaxNodes]

(* What find_if can come to, besides a node: end(), a deleted node that it    *)
(* reads, or no end at all. The iterator stops at the node without a next and *)
(* is then end() only if that node is rbegin_.                                *)
End == 0
ReadsDeleted == -1
Endless == -2

FindIf(h, keys) ==
    LET order == Order(h)
        hits == {i \in DOMAIN order : h.key[order[i]] \in keys}
        hit == CHOOSE i \in hits : \A j \in hits : i <= j
        seen == IF hits = {} THEN DOMAIN order ELSE 1..hit
    IN IF \E i \in seen : order[i] \in h.deleted THEN ReadsDeleted
       ELSE IF hits # {} THEN order[hit]
       ELSE IF order = <<>> \/ Last(order) = h.last THEN End ELSE Endless

-----------------------------------------------------------------------------
(* list::push_back, push_front and insert, of a new node *)
PushLast(h, k) ==
    LET n == h.fresh
        linked == [h EXCEPT !.key[n] = k, !.last = n, !.size = @ + 1, !.fresh = @ + 1]
    IN IF h.size = 0 THEN [linked EXCEPT !.first = n]
       ELSE [linked EXCEPT !.next[h.last] = n, !.prev[n] = h.last]

PushFirst(h, k) ==
    LET n == h.fresh
        linked == [h EXCEPT !.key[n] = k, !.first = n, !.size = @ + 1, !.fresh = @ + 1]
    IN IF h.size = 0 THEN [linked EXCEPT !.last = n]
       ELSE [linked EXCEPT !.prev[h.first] = n, !.next[n] = h.first]

Insert(h, at, k) ==
    IF h.first = Null \/ at = h.first THEN PushFirst(h, k)
    ELSE IF at = End THEN PushLast(h, k)
    ELSE LET n == h.fresh
             before == h.prev[at]
         IN [h EXCEPT !.key[n] = k, !.size = @ + 1, !.fresh = @ + 1,
                      !.next[before] = n, !.prev[n] = before, !.prev[at] = n, !.next[n] = at]

(* list::erase mends the neighbours; begin_, rbegin_ and size_ are as before *)
Erase(h, n) ==
    [h EXCEPT !.next = [m \in Nodes |-> IF m = h.prev[n] THEN h.next[n] ELSE @[m]],
              !.prev = [m \in Nodes |-> IF m = h.next[n] THEN h.prev[n] ELSE @[m]],
              !.deleted = @ \cup {n}]

-----------------------------------------------------------------------------
(* map::operator[]: the first pair whose key is not less, or a new pair       *)
(* before it                                                                  *)
SubscriptAppends(h, k) ==    \* mutant: a new pair always goes to the end
    LET at == FindIf(h, {k}) IN IF at = End THEN PushLast(h, k) ELSE h
Subscript(h, k) ==
    LET at == FindIf(h, {x \in 0..MaxNodes : x >= k}) IN
    IF at < End \/ (at > End /\ h.key[at] = k) THEN h ELSE Insert(h, at, k)

(* map::erase *)
EraseKey(h, k) ==
    LET at == FindIf(h, {k}) IN IF at <= End THEN h ELSE Erase(h, at)

(* The loop either search runs, which the two operators above leave alone     *)
(* when it does not end well.                                                 *)
SearchFails(h, keys) == FindIf(h, keys) < End
=============================================================================
