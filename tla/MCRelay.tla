------------------------------ MODULE MCRelay ------------------------------
(* Small instances of Relay for TLC.                                          *)
EXTENDS Relay, TLC

CONSTANTS ana, rui

(* Every user has run a command before, on the server that is running.        *)
MCInit ==
    /\ client = <<>> /\ handler = <<>> /\ wire = <<>>
    /\ uids = [u \in Users |-> <<u, 0>>]
    /\ queue = [u \in Users |-> <<>>]
    /\ key = [u \in Users |-> 0]
    /\ expired = {}
    /\ epoch = 0

MCSpec == MCInit /\ [][Next]_vars

MCFairSpec == MCSpec /\ Fairness

Symmetry == Permutations(Users)
==============================================================================
