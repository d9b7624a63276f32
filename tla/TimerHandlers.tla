--------------------------- MODULE TimerHandlers ---------------------------
(* The handlers a cartridge registers for the timer's interrupt               *)
(* (riscv-firmware/src/timer.c): a singly linked list (SList.c) behind a      *)
(* sentinel node. Registering is a system call and the walk is the interrupt, *)
(* both with interrupts off. deregister_handler has no system call yet; it is *)
(* here with any argument, as its header offers it.                           *)
EXTENDS Integers, Sequences, SequencesExt

CONSTANTS
    Handlers,    \* the functions registered
    Leftovers,   \* what malloc may leave in the sentinel: handlers or Garbage
    Garbage,
    MaxHandlers, \* bound on the length of the list and of what it should be
    MaxCalls     \* bound on call_back_cnt

VARIABLES
    sentinel,    \* "null" before initList, "live", or "freed" while node points to it
    junk,        \* the data of the sentinel, which nothing initialises
    nodes,       \* the data of the nodes behind it
    curr,        \* the position of handle_timer's walk, 0 outside it
    calls,       \* call_back_cnt
    walked,      \* the handlers the current or last walk has called
    registered,  \* the handlers registered and not cancelled, in order
    strange      \* a cancellation named a handler that is not registered, or
                 \* that the sentinel's junk equals

timerVars == <<sentinel, junk, nodes, curr, calls, walked, registered, strange>>

InitList ==
    IF sentinel # "null" THEN UNCHANGED <<sentinel, junk>>
    ELSE sentinel' = "live" /\ junk' \in Leftovers

-----------------------------------------------------------------------------
(* insertNode goes to the last node, whatever the walk is at *)
InsertFirst(h) ==            \* mutant: the new node goes right behind the sentinel
    /\ curr = 0 /\ sentinel # "freed"
    /\ Len(nodes) < MaxHandlers /\ Len(registered) < MaxHandlers
    /\ InitList
    /\ nodes' = <<h>> \o nodes
    /\ registered' = Append(registered, h)
    /\ UNCHANGED <<curr, calls, walked, strange>>
Register(h) ==
    /\ curr = 0 /\ sentinel # "freed"
    /\ Len(nodes) < MaxHandlers /\ Len(registered) < MaxHandlers
    /\ InitList
    /\ nodes' = Append(nodes, h)
    /\ registered' = Append(registered, h)
    /\ UNCHANGED <<curr, calls, walked, strange>>

(* deleteNode stops at the node that has the handler or at the last one, the  *)
(* sentinel being node 0, and frees that node either way.                     *)
StopsAt(h) ==
    LET data == <<junk>> \o nodes
        hits == {i \in DOMAIN data : data[i] = h}
    IN IF hits = {} THEN Len(nodes) ELSE (CHOOSE i \in hits : \A j \in hits : i <= j) - 1

Deregister(h) ==
    /\ curr = 0 /\ sentinel = "live"
    /\ LET i == StopsAt(h) IN
       IF i = 0 THEN sentinel' = "freed" /\ nodes' = <<>>
                ELSE nodes' = RemoveAt(nodes, i) /\ UNCHANGED sentinel
    /\ registered' = RemoveFirst(registered, h)
    /\ strange' = (strange \/ ~Contains(registered, h) \/ junk = h)
    /\ UNCHANGED <<junk, curr, calls, walked>>

-----------------------------------------------------------------------------
(* handle_time_interrupt, then handle_timer node by node *)
StartWalk ==
    /\ curr = 0 /\ sentinel # "freed"
    /\ calls + Len(nodes) <= MaxCalls
    /\ InitList
    /\ curr' = IF nodes = <<>> THEN 0 ELSE 1
    /\ walked' = <<>>
    /\ UNCHANGED <<nodes, calls, registered, strange>>

Call ==
    /\ curr > 0
    /\ walked' = Append(walked, nodes[curr])
    /\ calls' = calls + 1
    /\ curr' = IF curr = Len(nodes) THEN 0 ELSE curr + 1
    /\ UNCHANGED <<sentinel, junk, nodes, registered, strange>>

TimerInit ==
    /\ sentinel = "null" /\ junk = Garbage /\ nodes = <<>> /\ curr = 0
    /\ calls = 0 /\ walked = <<>> /\ registered = <<>> /\ strange = FALSE
TimerNext ==
    \/ \E h \in Handlers : Register(h) \/ Deregister(h)
    \/ StartWalk \/ Call
TimerSpec == TimerInit /\ [][TimerNext]_timerVars

-----------------------------------------------------------------------------
(* include/timer.h:22-26: "cancle a handler using the identifier given at the *)
(* register step @param handler_identifier @return 1-successful, 0-failed".   *)
(* A cancellation leaves the handlers of the others alone.                    *)
CancelsItsOwn == sentinel # "freed" /\ nodes = registered

(* So it is until a handler is named that is not registered, or the memory of *)
(* the sentinel happens to hold its address.                                  *)
CancelsItsOwnIfKnown == ~strange => CancelsItsOwn

(* An interrupt calls the handlers on the list one after another, none twice  *)
(* and none left out.                                                         *)
WalkCallsAll == curr # 0 => curr \in DOMAIN nodes /\ walked = SubSeq(nodes, 1, curr - 1)

HandlersInv == CancelsItsOwnIfKnown /\ WalkCallsAll
=============================================================================
