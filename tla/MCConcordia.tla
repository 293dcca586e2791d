----------------------------- MODULE MCConcordia -----------------------------
(* A small instance of Concordia for TLC: alice and bob are active, belong to *)
(* one group that alice owns, and one message waits in the group and one in   *)
(* bob's folder.                                                              *)
EXTENDS Concordia, TLC

CONSTANTS alice, bob, friends, c1, c2

OwnPath == [d \in Folders |-> {d}]

Len3 == [u \in Users |-> 3]

Rank == [f \in Folders |-> CASE f = alice -> 1 [] f = bob -> 2 [] OTHER -> 3]

Waiting(f, m) ==
    [info |-> [id |-> 1, name |-> f, nameSender |-> alice, time |-> 0,
               tam |-> 1, read |-> 0, nReplys |-> 0, isReply |-> 0],
     msg |-> m, text |-> m, base |-> 1, trailer |-> <<>>]

MCInit ==
    /\ exists = Folders
    /\ member = [g \in Groups |-> Users]
    /\ dir = [f \in Folders |-> CASE f = bob -> {Waiting(bob, 100)}
                                  [] f = friends -> {Waiting(friends, 101)}
                                  [] OTHER -> {}]
    /\ now = 0 /\ served = 0 /\ stops = 0
    /\ job = [c \in Children |-> IdleJob]
    /\ sent = {100, 101} /\ removed = {} /\ answers = {}
    /\ sysgroup = Groups /\ owned = Groups
    /\ owner = [g \in Groups |-> alice]
    /\ task = [c \in Children |-> Acc!IdleJob]
    /\ doomed = {} /\ gone = {}
    /\ expelled = [g \in Groups |-> 0]

For(command, user, dest, len, mid) ==
    [command |-> command, user |-> user, dest |-> dest, len |-> len, mid |-> mid]

By(command, user, dest, other) ==
    [command |-> command, user |-> user, dest |-> dest, other |-> other]

(* bob reads, answers and removes what alice and he send; alice rules the     *)
(* group, and bob would have one of the same name.                            *)
MailAsked ==
    {For("enviar", alice, bob, 1, 0), For("enviar", alice, friends, 1, 0),
     For("enviar", bob, friends, 1, 0),
     For("ler", bob, None, 0, 1), For("remover", bob, None, 0, 1),
     For("responder", bob, None, 1, 1)}

GroupAsked ==
    {By("criar", alice, friends, None), By("criar", bob, friends, None),
     By("remover", alice, friends, None),
     By("adicionar", alice, friends, bob), By("remover-user", alice, friends, bob),
     By("ativar", bob, bob, None), By("desativar", bob, bob, None)}

MCSpec == MCInit /\ [][CNext]_cvars

Symmetry == Permutations(Children)
==============================================================================
