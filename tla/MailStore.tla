------------------------------ MODULE MailStore ------------------------------
(* What a store of messages promises its users, without files, file names or  *)
(* identifiers: a message is delivered once into one folder; then it may be   *)
(* marked as read, have replies counted, and be removed by a user.  Nothing   *)
(* else ever happens to it, and no step touches two messages.                 *)
EXTENDS Naturals

CONSTANTS Folders,  \* where messages are delivered
          Msgs      \* messages that may be sent

VARIABLES mail,     \* mail[f]: what folder f holds
          delivered \* messages delivered so far

vars == <<mail, delivered>>

Init ==
    /\ mail = [f \in Folders |-> {}]
    /\ delivered = {}

Deliver(f, m) ==
    /\ m \notin delivered
    /\ delivered' = delivered \cup {m}
    /\ mail' = [mail EXCEPT ![f] =
                  @ \cup {[msg |-> m, read |-> FALSE, replies |-> 0]}]

Replace(f, old, new) ==
    /\ mail' = [mail EXCEPT ![f] = (@ \ {old}) \cup {new}]
    /\ UNCHANGED delivered

MarkRead(f, x) == ~ x.read /\ Replace(f, x, [x EXCEPT !.read = TRUE])

CountReply(f, x) == Replace(f, x, [x EXCEPT !.replies = @ + 1])

Remove(f, x) ==
    /\ mail' = [mail EXCEPT ![f] = @ \ {x}]
    /\ UNCHANGED delivered

Next ==
    \E f \in Folders :
        \/ \E m \in Msgs : Deliver(f, m)
        \/ \E x \in mail[f] : MarkRead(f, x) \/ CountReply(f, x) \/ Remove(f, x)

Spec == Init /\ [][Next]_vars
==============================================================================
