------------------------------ MODULE FifoLock ------------------------------
(* What the mutexes promise: the clients that have asked for a lock form one  *)
(* queue, whose head has the lock; a client joins at the end and is not asked *)
(* to again, and only the head leaves.                                        *)
EXTENDS Sequences

CONSTANTS Clients, Locks
VARIABLE queue

Queued(t, m) == \E i \in DOMAIN queue[m] : queue[m][i] = t

Ask(t, m) ==
    /\ ~Queued(t, m)
    /\ queue' = [queue EXCEPT ![m] = Append(@, t)]
Release(m) ==
    /\ queue[m] # <<>>
    /\ queue' = [queue EXCEPT ![m] = Tail(@)]

Init == queue = [m \in Locks |-> <<>>]
Next == \E m \in Locks : (\E t \in Clients : Ask(t, m)) \/ Release(m)
Spec == Init /\ [][Next]_queue
=============================================================================
