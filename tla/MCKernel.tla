------------------------------ MODULE MCKernel ------------------------------
(* Instances of Kernel for TLC: an idle thread and two or three others, and   *)
(* what the code of each of them calls.                                       *)
EXTENDS KernelInv, TLC

CONSTANTS idle, a, b, c

McThreads3 == {idle, a, b}
McThreads4 == {idle, a, b, c}
McBoot2 == <<idle, a>>
McBoot3 == <<idle, a, b>>
McBoot4 == <<idle, a, b, c>>

All(calls) == [t \in Threads |-> IF t = idle THEN {"yield"} ELSE calls]

LockCalls  == All({"yield", "lock", "trylock", "unlock"})
SyncCalls  == [All({"lock", "trylock", "unlock", "wait", "notifyOne", "notifyAll"})
                 EXCEPT ![c] = {"yield", "lock", "unlock"}]
LifeCalls  == [All({"sleep", "exit"})
                 EXCEPT ![a] = {"create", "yield", "notifyOne", "notifyAll", "exit"},
                        ![b] = {"create", "join", "sleep", "exit"}]
JoinCalls  == All({"join", "exit"})
LiveCalls  == [All({"lock", "unlock", "wait", "sleep"})
                 EXCEPT ![b] = {"lock", "unlock", "notifyOne"}]
=============================================================================
