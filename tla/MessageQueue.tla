---------------------------- MODULE MessageQueue -----------------------------
(***************************************************************************)
(* What the message stack of messagesManager.c promises: a bounded queue.  *)
(* A message is acknowledged when it enters, and the acknowledged messages *)
(* are taken by the main loop once each, in the order they entered.        *)
(***************************************************************************)
EXTENDS Naturals, Sequences

CONSTANTS
    Messages,      \* the messages clients may send
    NSTACK         \* places in the stack (10 in the code)

VARIABLES
    queue,         \* messages entered and not yet taken
    taken          \* messages taken by the main loop, in order

Init == queue = <<>> /\ taken = <<>>

Enter(m) == Len(queue) < NSTACK /\ queue' = Append(queue, m) /\ taken' = taken

Take ==
    /\ queue # <<>>
    /\ taken' = Append(taken, Head(queue))
    /\ queue' = Tail(queue)

Next == (\E m \in Messages : Enter(m)) \/ Take

Spec == Init /\ [][Next]_<<queue, taken>>
==============================================================================
