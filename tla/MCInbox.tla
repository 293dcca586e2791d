------------------------------- MODULE MCInbox -------------------------------
(* Small instances of Inbox for TLC.                                          *)
EXTENDS Inbox, TLC

CONSTANTS alice, bob, friends, c1, c2

(* Paths in which each name occurs: exactly the folder's own.                 *)
OwnPath == [d \in Folders |-> {d}]

(* bob's name is part of alice's, as with ana and joana: it occurs in the path *)
(* of her folder too.                                                          *)
BobInAlice == [d \in Folders |-> IF d = bob THEN {alice, bob} ELSE {d}]

Len3 == [u \in Users |-> IF u = alice THEN 5 ELSE 3]

Rank == [f \in Folders |-> CASE f = alice -> 1 [] f = bob -> 2 [] OTHER -> 3]

(* Both users are active and belong to the one group; or bob has no folder,   *)
(* and the group has members but no folder any more.                          *)
MCInit ==
    /\ Init
    /\ \/ exists = Folders /\ member = [g \in Groups |-> Users]
       \/ exists = {alice} /\ member = [g \in Groups |-> {alice}]

MCSpec == MCInit /\ [][Next]_vars

Symmetry == Permutations(Children)
==============================================================================
