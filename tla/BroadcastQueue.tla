--------------------------- MODULE BroadcastQueue ---------------------------
(***************************************************************************)
(* What a port promises: every open listener receives every message pushed *)
(* while it is open, once and in the order of the pushes, until it leaves. *)
(***************************************************************************)
EXTENDS Sequences

CONSTANTS Listeners, Messages, PortOf(_)

VARIABLES open,     \* the listeners registered in their port
          queue     \* the messages each of them has still to take

vars == <<open, queue>>

Init == open = {} /\ queue = [l \in Listeners |-> <<>>]

Join(l) ==
    /\ open' = open \union {l}
    /\ queue' = [queue EXCEPT ![l] = <<>>]

Push(p, m) ==
    /\ open' = open
    /\ queue' = [l \in Listeners |->
                    IF l \in open /\ PortOf(l) = p THEN Append(queue[l], m) ELSE queue[l]]

Take(l) ==
    /\ open' = open
    /\ queue[l] # <<>>
    /\ queue' = [queue EXCEPT ![l] = Tail(@)]

Leave(l) ==
    /\ open' = open \ {l}
    /\ queue[l] = <<>>
    /\ UNCHANGED queue

\* Most steps of an implementation leave the queues alone: that is tried first.
Next ==
    \/ UNCHANGED vars
    \/ \E l \in Listeners \ open : Join(l)
    \/ \E l \in open : Take(l) \/ Leave(l) \/ \E m \in Messages : Push(PortOf(l), m)

Spec == Init /\ [][Next]_vars
=============================================================================
