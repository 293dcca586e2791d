------------------------------ MODULE Mailbox ------------------------------
(* What the relay promises the owners of its queues: a message is stored once *)
(* and in one queue; it keeps its number, becomes read and stays read; and    *)
(* only a restart of the server takes it away, with all the others.           *)
EXTENDS Naturals, Sequences

CONSTANTS Users,  \* owners of a queue
          Ids     \* messages that may be stored

VARIABLE box      \* box[u]: the messages of u, by number

Stored(u) == {box[u][n].id : n \in DOMAIN box[u]}

Init == box = [u \in Users |-> <<>>]

Deliver(u, i) ==
    /\ \A v \in Users : i \notin Stored(v)
    /\ box' = [box EXCEPT ![u] = Append(@, [id |-> i, read |-> FALSE])]

MarkRead(u, n) == box' = [box EXCEPT ![u][n].read = TRUE]

Restart == box' = [u \in Users |-> <<>>]

Next ==
    \/ \E u \in Users :
          \/ \E i \in Ids : Deliver(u, i)
          \/ \E n \in DOMAIN box[u] : MarkRead(u, n)
    \/ Restart

Spec == Init /\ [][Next]_box
==============================================================================
