---------------------------- MODULE ByteChannel ----------------------------
(* What a pipe promises: bytes come out in the order they went in, each of    *)
(* them once and to one reader, and a transfer, which one client makes at a   *)
(* time, puts its bytes side by side.                                         *)
EXTENDS Sequences

CONSTANTS Clients, Bytes, NoOne
VARIABLES
    chan,    \* the bytes under way
    busy,    \* the client whose transfer is being made, or NoOne
    got      \* got[t]: what t's transfer has taken so far

vars == <<chan, busy, got>>

Init == chan = <<>> /\ busy = NoOne /\ got = [t \in Clients |-> <<>>]

Begin(t) == busy = NoOne /\ busy' = t /\ UNCHANGED <<chan, got>>
Put(t, b) == busy = t /\ chan' = Append(chan, b) /\ UNCHANGED <<busy, got>>
Take(t) ==
    /\ busy = t /\ chan # <<>>
    /\ got' = [got EXCEPT ![t] = Append(@, Head(chan))]
    /\ chan' = Tail(chan)
    /\ UNCHANGED busy
End(t) ==
    /\ busy = t /\ busy' = NoOne
    /\ got' = [got EXCEPT ![t] = <<>>]
    /\ UNCHANGED chan

Next == \E t \in Clients : Begin(t) \/ (\E b \in Bytes : Put(t, b)) \/ Take(t) \/ End(t)
Spec == Init /\ [][Next]_vars
=============================================================================
