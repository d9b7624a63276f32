-------------------------------- MODULE Pipe --------------------------------
(* A pipe: ThreadSafeQueue (os_kernel/src/cs251_thread_safe_queue.h) behind   *)
(* the read and write of PipeInternal (cs251_pipe.h). The mutex is the queue  *)
(* of FifoLock, which Kernel is shown to implement, and wait and notifyOne    *)
(* are atomic, as Kernel's CriticalSectionsAtomic says they are. enqueue of   *)
(* one element and dequeue() are a write and a read of one byte.              *)
EXTENDS Deque, FiniteSets

CONSTANTS
    Clients,     \* the threads that use the pipe,
    Writers,     \* those that write,
    Readers,     \* those that read
    Bytes,       \* what they write
    NoOne,       \* no client
    MaxLen,      \* bound on the length of a transfer
    MaxQueued    \* bound on the bytes in the queue and asked to go into it

ASSUME PipeAssumption ==
    /\ IsFiniteSet(Clients) /\ Writers \subseteq Clients /\ Readers \subseteq Clients
    /\ Blank \notin Bytes /\ NoOne \notin Clients
    /\ MaxLen \in Nat /\ MaxQueued \in Nat

VARIABLES
    stage,     \* stage[t]: where t is in its call
    queue,     \* q_
    lockQueue, \* the clients that hold (the first) or wait for mtx_que_
    waiting,   \* the clients on the list of cond_que_
    output,    \* output[t]: the bytes t's write has still to store
    wanted,    \* wanted[t]: n of t's read, then pop_n - i once it is known
    input,     \* input[t]: what t's read has copied to its buffer
    uneven     \* some write had several bytes or some read asked for none

pipeVars == <<stage, queue, lockQueue, waiting, output, wanted, input, uneven>>

Stages == {"idle", "w_lock", "w_push", "w_notify", "r_lock", "r_wait", "r_woken", "r_pop"}
At(t, s) == stage[t] = s
InStage(set) == {t \in Clients : stage[t] \in set}
Goto(t, s) == stage' = [stage EXCEPT ![t] = s]
Holds(t) == lockQueue # <<>> /\ Head(lockQueue) = t
AskLock(t) == lockQueue' = Append(lockQueue, t)
Unlock == lockQueue' = Tail(lockQueue)

Lengths(n) == UNION {[1..k -> Bytes] : k \in 0..n}
Asked[s \in SUBSET Clients] ==
    IF s = {} THEN 0 ELSE LET t == CHOOSE t \in s : TRUE
                          IN Len(output[t]) + Asked[s \ {t}]

-----------------------------------------------------------------------------
(* write *)
Write(t) ==
    /\ t \in Writers /\ At(t, "idle")
    /\ \E bytes \in Lengths(MaxLen) :
          /\ Size(queue) + Asked[Clients] + Len(bytes) <= MaxQueued
          /\ output' = [output EXCEPT ![t] = bytes]
          /\ uneven' = (uneven \/ Len(bytes) > 1)
    /\ AskLock(t) /\ Goto(t, "w_lock")
    /\ UNCHANGED <<queue, waiting, wanted, input>>

WriteLocked(t) ==
    /\ At(t, "w_lock") /\ Holds(t)
    /\ Goto(t, "w_push")
    /\ UNCHANGED <<queue, lockQueue, waiting, output, wanted, input, uneven>>

PushByte(t) ==
    /\ At(t, "w_push") /\ output[t] # <<>>
    /\ queue' = PushBack(queue, Head(output[t]))
    /\ output' = [output EXCEPT ![t] = Tail(@)]
    /\ UNCHANGED <<stage, lockQueue, waiting, wanted, input, uneven>>

PushDone(t) ==
    /\ At(t, "w_push") /\ output[t] = <<>>
    /\ Unlock /\ Goto(t, "w_notify")
    /\ UNCHANGED <<queue, waiting, output, wanted, input, uneven>>

(* one notifyOne, after the unlock, whatever was written *)
NotifyNobody(t) ==           \* mutant: nobody is notified
    /\ At(t, "w_notify")
    /\ Goto(t, "idle")
    /\ UNCHANGED <<queue, lockQueue, waiting, output, wanted, input, uneven>>
Notify(t) ==
    /\ At(t, "w_notify")
    /\ IF waiting = <<>>
       THEN Goto(t, "idle") /\ UNCHANGED waiting
       ELSE /\ stage' = [stage EXCEPT ![t] = "idle", ![Head(waiting)] = "r_woken"]
            /\ waiting' = Tail(waiting)
    /\ UNCHANGED <<queue, lockQueue, output, wanted, input, uneven>>

-----------------------------------------------------------------------------
(* read *)
Read(t) ==
    /\ t \in Readers /\ At(t, "idle")
    /\ \E n \in 0..MaxLen :
          /\ wanted' = [wanted EXCEPT ![t] = n]
          /\ uneven' = (uneven \/ n = 0)
    /\ AskLock(t) /\ Goto(t, "r_lock")
    /\ UNCHANGED <<queue, waiting, output, input>>

(* the loop of dequeue: wait releases the mutex, and a client that was woken  *)
(* asks for it again and tests again                                          *)
WaitWhileEmpty(t) ==
    /\ At(t, "r_lock") /\ Holds(t) /\ Size(queue) = 0
    /\ waiting' = Append(waiting, t)
    /\ Unlock /\ Goto(t, "r_wait")
    /\ UNCHANGED <<queue, output, wanted, input, uneven>>

Relock(t) ==
    /\ At(t, "r_woken")
    /\ AskLock(t) /\ Goto(t, "r_lock")
    /\ UNCHANGED <<queue, waiting, output, wanted, input, uneven>>

ReadAsAsked(t) ==            \* mutant: n is not cut to what is there
    /\ At(t, "r_lock") /\ Holds(t) /\ Size(queue) # 0
    /\ Goto(t, "r_pop")
    /\ UNCHANGED <<queue, lockQueue, waiting, output, wanted, input, uneven>>
ReadNonEmpty(t) ==
    /\ At(t, "r_lock") /\ Holds(t) /\ Size(queue) # 0
    /\ wanted' = [wanted EXCEPT ![t] = IF @ < Size(queue) THEN @ ELSE Size(queue)]
    /\ Goto(t, "r_pop")
    /\ UNCHANGED <<queue, lockQueue, waiting, output, input, uneven>>

PopByte(t) ==
    /\ At(t, "r_pop") /\ wanted[t] > 0
    /\ input' = [input EXCEPT ![t] = Append(@, Foremost(queue))]
    /\ queue' = PopFront(queue)
    /\ wanted' = [wanted EXCEPT ![t] = @ - 1]
    /\ UNCHANGED <<stage, lockQueue, waiting, output, uneven>>

PopDone(t) ==
    /\ At(t, "r_pop") /\ wanted[t] = 0
    /\ input' = [input EXCEPT ![t] = <<>>]
    /\ Unlock /\ Goto(t, "idle")
    /\ UNCHANGED <<queue, waiting, output, wanted, uneven>>

-----------------------------------------------------------------------------
PipeInit ==
    /\ stage = [t \in Clients |-> "idle"]
    /\ queue = NewDeque /\ lockQueue = <<>> /\ waiting = <<>>
    /\ output = [t \in Clients |-> <<>>] /\ input = [t \in Clients |-> <<>>]
    /\ wanted = [t \in Clients |-> 0]
    /\ uneven = FALSE

(* The steps of a call that has begun: the scheduler runs a ready thread in   *)
(* its turn, so these are fair; whether a thread calls is its own affair.     *)
CallStep(t) ==
    \/ WriteLocked(t) \/ PushByte(t) \/ PushDone(t) \/ Notify(t)
    \/ WaitWhileEmpty(t) \/ Relock(t) \/ ReadNonEmpty(t) \/ PopByte(t) \/ PopDone(t)

PipeNext == \E t \in Clients : Write(t) \/ Read(t) \/ CallStep(t)
PipeSpec == PipeInit /\ [][PipeNext]_pipeVars

-----------------------------------------------------------------------------
(* The variables have their types, and the list of the condition variable is *)
(* exactly the clients that wait.                                             *)
PipeTypeOK ==
    /\ stage \in [Clients -> Stages]
    /\ WellFormed(queue, Bytes)
    /\ lockQueue \in Seq(Clients) /\ waiting \in Seq(Clients)
    /\ output \in [Clients -> Seq(Bytes)] /\ input \in [Clients -> Seq(Bytes)]
    /\ wanted \in [Clients -> 0..MaxLen]
    /\ uneven \in BOOLEAN
    /\ \A t \in Clients : At(t, "r_wait") <=> \E i \in DOMAIN waiting : waiting[i] = t

(* The clients that change the queue hold its mutex, so there is one at most, *)
(* and it never takes a byte that is not there.                               *)
OneAtATime ==
    \A t \in InStage({"w_push", "r_pop"}) :
        Holds(t) /\ (At(t, "r_pop") => wanted[t] <= Size(queue))

Channel == INSTANCE ByteChannel WITH
    chan <- Contents(queue),
    busy <- IF InStage({"w_push", "r_pop"}) = {} THEN NoOne
            ELSE CHOOSE t \in Clients : stage[t] \in {"w_push", "r_pop"},
    got <- input

(* The circular storage, the mutex and the waiting implement ByteChannel:     *)
(* write and read move bytes in order, once, a whole transfer at a time.      *)
ImplementsChannel == Channel!Spec

(* As long as every write has one byte and every read asks for some, a reader *)
(* sleeps beside bytes only while as many calls are still on their way to the *)
(* notification or to the bytes: the single notifyOne is enough. (A write of  *)
(* two bytes wakes one of two readers; that is what `uneven' excludes.)       *)
StrandedOnlyUnevenly ==
    waiting # <<>> /\ ~uneven =>
        Size(queue) <= Cardinality(InStage({"w_push", "w_notify", "r_woken", "r_lock", "r_pop"}))

(* One at a time, each with the bytes that are there, and nobody forgotten.   *)
PipeInv == PipeTypeOK /\ OneAtATime /\ StrandedOnlyUnevenly

(* A write returns: neither the readers nor the other writers keep it waiting *)
(* for the mutex for ever.                                                    *)
WriteReturns ==
    \A t \in Writers :
        stage[t] \in {"w_lock", "w_push", "w_notify"} ~> stage[t] = "idle"

(* With single bytes, a reader does not sleep for ever beside bytes.           *)
ReaderServed ==
    \A t \in Readers :
        (At(t, "r_wait") /\ Size(queue) > 0) ~> (~At(t, "r_wait") \/ Size(queue) = 0 \/ uneven)

(* Nobody who uses the pipe is kept for ever.                                 *)
CallsReturn == WriteReturns /\ ReaderServed
=============================================================================
