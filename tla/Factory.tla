------------------------------ MODULE Factory ------------------------------
(* MutexFactory (os_kernel/src/cs251_mutex.h:85-110); the factories of the    *)
(* condition variables and of the pipes are the same code. A thread of the    *)
(* kernel calls the factory directly and can be preempted between any two     *)
(* statements of create and in the middle of a search, an insertion or an     *)
(* erasure of the map's list (ecs_list.h:94-122, 181-216); a cartridge's      *)
(* thread calls it through an ecall, with interrupts off. lock, unlock, wait, *)
(* read and so on reach their object by operator[], which makes one for an id *)
(* nobody created. What the list becomes when a call enters the map while     *)
(* another is inside is not followed: the behaviour ends there.               *)
EXTENDS NodeMap, FiniteSets

CONSTANTS
    Direct,      \* threads that call the factory directly
    ByEcall,     \* threads that call it through c_system_call
    MaxId        \* bound on the ids used

Callers == Direct \cup ByEcall
Ids == 1..MaxId

ASSUME FactoryAssumption ==
    /\ MaxId \in Nat /\ MaxNodes \in Nat /\ MaxId <= MaxNodes
    /\ Direct \cap ByEcall = {}

VARIABLES
    seqId,       \* seq_id_
    objects,     \* mtx_map_
    creating,    \* creating[t]: the statement of create t is at
    loaded,      \* loaded[t]: seq_id_ as t's increment has read it
    entered,     \* what t, inside the map, does there, or "no"
    subject,     \* ... and the id it does it with
    overlapped,  \* a call has entered the map while another was inside
    given,       \* given[t]: the ids create has returned to t
    kept,        \* the ids that were made and not destroyed
    raced,       \* two calls of create have overlapped
    erasedFirst, \* destroy has deleted the node begin_ points to
    erasedLast,  \* and the node rbegin_ points to
    failure      \* a search read a deleted node, or does not end

mapVars == <<objects, kept, erasedFirst, erasedLast, failure>>
callVars == <<seqId, creating, loaded, given, raced>>
factoryVars == <<seqId, creating, loaded, given, raced, entered, subject, overlapped,
                 objects, kept, erasedFirst, erasedLast, failure>>

-----------------------------------------------------------------------------
(* operator[] on id, and what becomes of the program: a search that fails is  *)
(* the end of what can be said of it                                          *)
Reach(id) ==
    LET keys == {x \in 0..MaxNodes : x >= id} IN
    /\ objects.fresh \in Nodes
    /\ objects' = Subscript(objects, id)
    /\ failure' = IF SearchFails(objects, keys) THEN FindIf(objects, keys) ELSE failure
    /\ kept' = IF SearchFails(objects, keys) THEN kept ELSE kept \cup {id}
    /\ UNCHANGED <<erasedFirst, erasedLast>>

(* destroy of id *)
Unlink(id) ==
    LET at == FindIf(objects, {id}) IN
    /\ objects' = EraseKey(objects, id)
    /\ failure' = IF SearchFails(objects, {id}) THEN at ELSE failure
    /\ kept' = IF at > End THEN kept \ {id} ELSE kept
    /\ erasedFirst' = (erasedFirst \/ (at > End /\ at = objects.first))
    /\ erasedLast' = (erasedLast \/ (at > End /\ at = objects.last))

-----------------------------------------------------------------------------
(* A direct call of the map has a beginning and an end, and the thread may be *)
(* preempted between them.                                                    *)
Inside(t) == entered[t] # "no"
MapIsFree == \A t \in Direct : ~Inside(t)

Enter(t, operation, id) ==
    /\ MapIsFree
    /\ entered' = [entered EXCEPT ![t] = operation]
    /\ subject' = [subject EXCEPT ![t] = id]
    /\ UNCHANGED <<mapVars, callVars, overlapped>>

Leave(t, operation) ==
    /\ entered[t] = operation
    /\ entered' = [entered EXCEPT ![t] = "no"]
    /\ subject' = [subject EXCEPT ![t] = 0]
    /\ UNCHANGED overlapped

Overlap ==
    /\ \E t \in Direct : Inside(t)
    /\ \E u \in Callers : u \in Direct => ~Inside(u)
    /\ overlapped' = TRUE
    /\ UNCHANGED <<mapVars, callVars, entered, subject>>

-----------------------------------------------------------------------------
(* create *)
Busy == \E t \in Direct : creating[t] # "idle"

StartCreate(t) ==
    /\ creating[t] = "idle" /\ ~Inside(t) /\ seqId < MaxId
    /\ loaded' = [loaded EXCEPT ![t] = seqId]
    /\ creating' = [creating EXCEPT ![t] = "increment"]
    /\ raced' = (raced \/ Busy)
    /\ UNCHANGED <<mapVars, seqId, given, entered, subject, overlapped>>

Increment(t) ==
    /\ creating[t] = "increment"
    /\ seqId' = loaded[t] + 1
    /\ loaded' = [loaded EXCEPT ![t] = 0]
    /\ creating' = [creating EXCEPT ![t] = "insert"]
    /\ UNCHANGED <<mapVars, given, raced, entered, subject, overlapped>>

StartInsert(t) == creating[t] = "insert" /\ Enter(t, "reach", seqId)

InsertObject(t) ==
    /\ creating[t] = "insert"
    /\ Leave(t, "reach") /\ Reach(subject[t])
    /\ creating' = [creating EXCEPT ![t] = "return"]
    /\ UNCHANGED <<seqId, loaded, given, raced>>

ReturnId(t) ==
    /\ creating[t] = "return"
    /\ given' = [given EXCEPT ![t] = @ \cup {seqId}]
    /\ creating' = [creating EXCEPT ![t] = "idle"]
    /\ UNCHANGED <<mapVars, seqId, loaded, raced, entered, subject, overlapped>>

(* The system call: the three statements at once. *)
CreateByEcall(t) ==
    /\ MapIsFree /\ seqId < MaxId
    /\ seqId' = seqId + 1
    /\ Reach(seqId + 1)
    /\ given' = [given EXCEPT ![t] = @ \cup {seqId + 1}]
    /\ raced' = (raced \/ Busy)
    /\ UNCHANGED <<creating, loaded, entered, subject, overlapped>>

-----------------------------------------------------------------------------
(* lock, unlock, try_lock of any id, and destroy *)
StartUse(t, id) == creating[t] = "idle" /\ Enter(t, "reach", id)
StartDestroy(t, id) == creating[t] = "idle" /\ Enter(t, "destroy", id)

Use(t) == creating[t] = "idle" /\ Leave(t, "reach") /\ Reach(subject[t]) /\ UNCHANGED callVars
Destroy(t) == Leave(t, "destroy") /\ Unlink(subject[t]) /\ UNCHANGED callVars

UseByEcall(id) ==
    MapIsFree /\ Reach(id) /\ UNCHANGED <<callVars, entered, subject, overlapped>>
DestroyByEcall(id) ==
    MapIsFree /\ Unlink(id) /\ UNCHANGED <<callVars, entered, subject, overlapped>>

-----------------------------------------------------------------------------
FactoryInit ==
    /\ seqId = 0 /\ objects = NewMap
    /\ creating = [t \in Direct |-> "idle"] /\ loaded = [t \in Direct |-> 0]
    /\ entered = [t \in Direct |-> "no"] /\ subject = [t \in Direct |-> 0] /\ overlapped = FALSE
    /\ given = [t \in Callers |-> {}] /\ kept = {}
    /\ raced = FALSE /\ erasedFirst = FALSE /\ erasedLast = FALSE /\ failure = End

FactoryNext ==
    /\ failure = End /\ ~overlapped
    /\ \/ \E t \in Direct :
             \/ StartCreate(t) \/ Increment(t) \/ StartInsert(t) \/ InsertObject(t) \/ ReturnId(t)
             \/ Use(t) \/ Destroy(t)
             \/ \E id \in Ids : StartUse(t, id) \/ StartDestroy(t, id)
       \/ \E t \in ByEcall : CreateByEcall(t)
       \/ ByEcall # {} /\ \E id \in Ids : UseByEcall(id) \/ DestroyByEcall(id)
       \/ Overlap
FactorySpec == FactoryInit /\ [][FactoryNext]_factoryVars

-----------------------------------------------------------------------------
(* As long as neither end of the list was destroyed, the map is a map: the    *)
(* nodes are those of the objects kept, each once and in the order of their   *)
(* ids, the way back is the way there, and a search ends.                     *)
MapIsExact ==
    ~(erasedFirst \/ erasedLast) =>
        LET order == Order(objects) IN
        /\ failure = End
        /\ {objects.key[order[i]] : i \in DOMAIN order} = kept
        /\ \A i \in DOMAIN order : i > 1 =>
              /\ objects.key[order[i - 1]] < objects.key[order[i]]
              /\ objects.prev[order[i]] = order[i - 1]

(* What goes wrong goes wrong at the ends: only after the newest object was   *)
(* destroyed can a search never end (the next create is one), and only after  *)
(* the oldest or the newest was can one read a deleted node.                  *)
FailuresAreAtTheEnds ==
    /\ failure = Endless => erasedLast
    /\ failure = ReadsDeleted => erasedFirst \/ erasedLast

(* As long as no two calls of create overlap, an id is given once; two that   *)
(* do may be given the same (cs251_mutex.h:88-93).                            *)
IdsUniqueSerially ==
    ~raced => \A t \in Callers, u \in Callers : t # u => given[t] \cap given[u] = {}

(* An object is found by the id it was given, up to these exceptions, for as  *)
(* long as no two calls are inside the map at once.                           *)
FactoryInv == ~overlapped => MapIsExact /\ FailuresAreAtTheEnds /\ IdsUniqueSerially
=============================================================================
