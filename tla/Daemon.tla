-------------------------------- MODULE Daemon --------------------------------
(* How a request of the Concordia clients reaches a child of the daemon, and  *)
(* how the answer comes back.  Requests go through one named pipe, which each *)
(* start of the daemon removes and makes anew; the daemon forks one child a   *)
(* second, whether there is a request or not, and never waits for any; the    *)
(* child takes one request, handles it, and answers through a named pipe that *)
(* the client makes AFTER it has sent the request.                            *)
EXTENDS Naturals, Sequences, FiniteSets

CONSTANTS
    Clients,       \* process ids that clients run under, one after the other
    MaxProcs,      \* processes the system lets the daemon have
    PipeCap,       \* requests the request pipe holds
    MaxRequests,   \* bound: client processes that are started
    MaxStops,      \* bound: times the daemon and its children are killed
    MaxInterrupts, \* bound: times a user interrupts a client
    None           \* no request

ASSUME DaemonAssumption ==
    /\ MaxProcs \in Nat \ {0}
    /\ PipeCap \in Nat \ {0}
    /\ MaxRequests \in Nat
    /\ MaxStops \in Nat
    /\ MaxInterrupts \in Nat
    /\ None \notin Nat \X Clients

(* A request: its number (not in the code), and the process id it carries.    *)
Request == (1..MaxRequests) \X Clients
Pid(r) == r[2]

VARIABLES
    main,     \* what the daemon's main process is doing
    fifo,     \* which making of the request pipe has the name; 0 is none
    starts,   \* times the request pipe was made
    pipe,     \* the requests in it
    child,    \* child[n]: the n-th process forked since the last start
    client,   \* client[k]: the client that runs under k
    back,     \* process ids whose answer pipe has a name
    reply,    \* reply[k]: the answers in the answer pipe of k
    count,    \* counters of requests, stops and interrupts
    fate      \* history: requests taken, lost, silent, dropped, and answers got

vars == <<main, fifo, starts, pipe, child, client, back, reply, count, fate>>

Procs == 1..MaxProcs
FreeProc == [pc |-> "free", req |-> None]
Zombie == [pc |-> "zombie", req |-> None]
NoClient == [pc |-> "none", req |-> None, end |-> 0]

Init ==
    /\ main = "down"
    /\ fifo = 0
    /\ starts = 0
    /\ pipe = <<>>
    /\ child = [n \in Procs |-> FreeProc]
    /\ client = [k \in Clients |-> NoClient]
    /\ back = {}
    /\ reply = [k \in Clients |-> <<>>]
    /\ count = [requests |-> 0, stops |-> 0, interrupts |-> 0]
    /\ fate = [taken |-> {}, lost |-> {}, silent |-> {}, dropped |-> {}, got |-> {}]

daemon == <<main, fifo, starts>>
answering == <<back, reply>>

------------------------------------------------------------------------------
(* The main process.                                                          *)

(* unlink(FIFO): clients that wait to open the old pipe are not told.         *)
UnlinkFifo ==
    /\ main = "down"
    /\ main' = "boot"
    /\ fifo' = 0
    /\ UNCHANGED <<starts, pipe, child, client, answering, count, fate>>

MakeFifo ==
    /\ main = "boot"
    /\ main' = "open"
    /\ fifo' = starts + 1
    /\ starts' = starts + 1
    /\ UNCHANGED <<pipe, child, client, answering, count, fate>>

HasOpen(k) == client[k].pc \in {"writing", "written"} /\ client[k].end = fifo
Opening(k) == client[k].pc = "opening" /\ client[k].end = fifo

(* open(FIFO, O_RDONLY) returns when some client opens it to write.           *)
OpenFifo ==
    /\ main = "open"
    /\ \E k \in Clients : Opening(k)
    /\ main' = "loop"
    /\ UNCHANGED <<fifo, starts, pipe, child, client, answering, count, fate>>

(* Variant: forks only when no child is left over.                            *)
ForkAlone ==
    /\ main = "loop"
    /\ child = [n \in Procs |-> FreeProc]
    /\ child' = [child EXCEPT ![1].pc = "read"]
    /\ UNCHANGED <<daemon, pipe, client, answering, count, fate>>

(* One turn of the loop.  A fork that fails is not noticed; a child that has  *)
(* exited keeps its process, since nobody waits for it.                       *)
Fork ==
    /\ main = "loop"
    /\ \E n \in Procs :
          /\ child[n] = FreeProc
          /\ \A m \in Procs : child[m] = FreeProc => n <= m
          /\ child' = [child EXCEPT ![n].pc = "read"]
    /\ UNCHANGED <<daemon, pipe, client, answering, count, fate>>

------------------------------------------------------------------------------
(* A child.                                                                   *)

Goto(n, pc) == child' = [child EXCEPT ![n].pc = pc]
ExitChild(n) == child' = [child EXCEPT ![n] = Zombie]

(* Variant: leaves what it reads.                                             *)
TakePeek(n) ==
    /\ child[n].pc = "read"
    /\ pipe # <<>>
    /\ child' = [child EXCEPT ![n] = [pc |-> "handle", req |-> Head(pipe)]]
    /\ fate' = [fate EXCEPT !.taken = @ \cup {Head(pipe)}]
    /\ UNCHANGED <<daemon, pipe, client, answering, count>>

(* read() of a request: end of file if the pipe is empty and no client has it *)
(* open, and it blocks while one has.                                         *)
Take(n) ==
    /\ child[n].pc = "read"
    /\ \/ /\ pipe # <<>>
          /\ child' = [child EXCEPT ![n] = [pc |-> "handle", req |-> Head(pipe)]]
          /\ pipe' = Tail(pipe)
          /\ fate' = [fate EXCEPT !.taken = @ \cup {Head(pipe)}]
       \/ /\ pipe = <<>>
          /\ \A k \in Clients : ~ HasOpen(k)
          /\ ExitChild(n)
          /\ UNCHANGED <<pipe, fate>>
    /\ UNCHANGED <<daemon, client, answering, count>>

(* The handler: it ends in one call of returnListToClient, or in an exit      *)
(* without any.                                                               *)
Handle(n) ==
    /\ child[n].pc = "handle"
    /\ \/ Goto(n, "answer") /\ UNCHANGED fate
       \/ /\ ExitChild(n)
          /\ fate' = [fate EXCEPT !.silent = @ \cup {child[n].req}]
    /\ UNCHANGED <<daemon, pipe, client, answering, count>>

(* Variant: waits until the client has the pipe open.                         *)
OpenBackLate(n) ==
    LET k == Pid(child[n].req)
    IN  /\ child[n].pc = "answer"
        /\ \/ /\ k \notin back
              /\ ExitChild(n)
              /\ fate' = [fate EXCEPT !.lost = @ \cup {child[n].req}]
           \/ /\ k \in back
              /\ client[k].pc = "reading"
              /\ Goto(n, "write")
              /\ UNCHANGED fate
        /\ UNCHANGED <<daemon, pipe, client, answering, count>>

(* open(fifo_<pid>, O_WRONLY): it fails if there is no such name, and then so *)
(* does the write; otherwise it blocks until a client opens it to read.       *)
OpenBack(n) ==
    LET k == Pid(child[n].req)
    IN  /\ child[n].pc = "answer"
        /\ \/ /\ k \notin back
              /\ ExitChild(n)
              /\ fate' = [fate EXCEPT !.lost = @ \cup {child[n].req}]
              /\ UNCHANGED client
           \/ /\ k \in back
              /\ client[k].pc \in {"listening", "reading"}
              /\ Goto(n, "write")
              /\ client' = [client EXCEPT ![k].pc = "reading"]
              /\ UNCHANGED fate
        /\ UNCHANGED <<daemon, pipe, answering, count>>

(* Variant: answers again.                                                    *)
WriteBackTwice(n) ==
    LET k == Pid(child[n].req)
    IN  /\ child[n].pc = "write"
        /\ reply' = IF client[k].pc = "reading"
                    THEN [reply EXCEPT ![k] = Append(@, child[n].req)] ELSE reply
        /\ Goto(n, "answer")
        /\ UNCHANGED <<daemon, pipe, client, back, count, fate>>

(* write and close; a client that has gone in between makes the write fail.   *)
WriteBack(n) ==
    LET k == Pid(child[n].req)
    IN  /\ child[n].pc = "write"
        /\ reply' = IF client[k].pc = "reading"
                    THEN [reply EXCEPT ![k] = Append(@, child[n].req)] ELSE reply
        /\ ExitChild(n)
        /\ UNCHANGED <<daemon, pipe, client, back, count, fate>>

------------------------------------------------------------------------------
(* A client.                                                                  *)

Advance(k, pc) == client' = [client EXCEPT ![k].pc = pc]

(* send_to_deamon: open(FIFO, O_WRONLY) fails without the name ...            *)
OpenRequest(k) ==
    /\ client[k].pc = "none"
    /\ count.requests < MaxRequests
    /\ count' = [count EXCEPT !.requests = @ + 1]
    /\ client' = [client EXCEPT ![k] =
                    IF fifo = 0 THEN NoClient
                    ELSE [pc |-> "opening", req |-> <<count.requests + 1, k>>,
                          end |-> fifo]]
    /\ UNCHANGED <<daemon, pipe, child, answering, fate>>

(* ... and waits for the daemon to open that same pipe.                       *)
Opened(k) ==
    /\ Opening(k)
    /\ main = "loop"
    /\ Advance(k, "writing")
    /\ UNCHANGED <<daemon, pipe, child, answering, count, fate>>

(* Variant: does not wait for room.                                           *)
WriteAnyway(k) ==
    /\ client[k].pc = "writing"
    /\ main = "loop" /\ client[k].end = fifo
    /\ pipe' = Append(pipe, client[k].req)
    /\ Advance(k, "written")
    /\ UNCHANGED <<daemon, child, answering, count, fate>>

(* write: the request goes in whole, or the client dies for want of a reader. *)
Write(k) ==
    /\ client[k].pc = "writing"
    /\ \/ /\ main = "loop" /\ client[k].end = fifo
          /\ Len(pipe) < PipeCap
          /\ pipe' = Append(pipe, client[k].req)
          /\ Advance(k, "written")
       \/ /\ main # "loop" \/ client[k].end # fifo
          /\ client' = [client EXCEPT ![k] = NoClient]
          /\ UNCHANGED pipe
    /\ UNCHANGED <<daemon, child, answering, count, fate>>

CloseRequest(k) ==
    /\ client[k].pc = "written"
    /\ Advance(k, "closed")
    /\ UNCHANGED <<daemon, pipe, child, answering, count, fate>>

(* mkfifo of the answer pipe, and the start of the open that waits for the    *)
(* daemon's child.  A name left by an earlier client is as good.              *)
MakeBack(k) ==
    /\ client[k].pc = "closed"
    /\ back' = back \cup {k}
    /\ Advance(k, "listening")
    /\ UNCHANGED <<daemon, pipe, child, reply, count, fate>>

Writer(k) == \E n \in Procs : child[n].pc = "write" /\ Pid(child[n].req) = k

(* read, and unlink of the answer pipe, which listar_mensagens leaves out.    *)
ReadBack(k) ==
    /\ client[k].pc = "reading"
    /\ reply[k] # <<>> \/ ~ Writer(k)
    /\ fate' = IF reply[k] = <<>> THEN fate
               ELSE [fate EXCEPT !.got = @ \cup {<<client[k].req, Head(reply[k])>>}]
    /\ reply' = [reply EXCEPT ![k] = <<>>]
    /\ back' \in {back, back \ {k}}
    /\ client' = [client EXCEPT ![k] = NoClient]
    /\ UNCHANGED <<daemon, pipe, child, count>>

------------------------------------------------------------------------------
(* "pkill -f ./daemon" kills main process and children; what is in the pipe   *)
(* is gone with its last reader.  A user may interrupt a client.              *)
Stop ==
    /\ main \in {"open", "loop"}
    /\ count.stops < MaxStops
    /\ count' = [count EXCEPT !.stops = @ + 1]
    /\ main' = "down"
    /\ pipe' = <<>>
    /\ child' = [n \in Procs |-> FreeProc]
    /\ fate' = [fate EXCEPT !.dropped = @
                   \cup {pipe[i] : i \in 1..Len(pipe)}
                   \cup ({child[n].req : n \in Procs} \ {None})]
    /\ UNCHANGED <<fifo, starts, client, answering>>

Interrupt(k) ==
    /\ client[k].pc # "none"
    /\ count.interrupts < MaxInterrupts
    /\ count' = [count EXCEPT !.interrupts = @ + 1]
    /\ client' = [client EXCEPT ![k] = NoClient]
    /\ reply' = [reply EXCEPT ![k] = <<>>]
    /\ UNCHANGED <<daemon, pipe, child, back, fate>>

Child(n) == Take(n) \/ Handle(n) \/ OpenBack(n) \/ WriteBack(n)
Client(k) == Opened(k) \/ Write(k) \/ CloseRequest(k) \/ MakeBack(k) \/ ReadBack(k)

Next ==
    \/ UnlinkFifo \/ MakeFifo \/ OpenFifo \/ Fork \/ Stop
    \/ \E n \in Procs : Child(n)
    \/ \E k \in Clients : OpenRequest(k) \/ Client(k) \/ Interrupt(k)

Spec == Init /\ [][Next]_vars

(* The main process, its children and the clients are never suspended for     *)
(* good.  That somebody starts the daemon, or a client, is not assumed.       *)
FairSpec ==
    /\ Spec
    /\ WF_vars(MakeFifo) /\ WF_vars(OpenFifo) /\ WF_vars(Fork)
    /\ \A n \in Procs : WF_vars(Child(n))
    /\ \A k \in Clients : WF_vars(Client(k))

------------------------------------------------------------------------------
(* Properties.                                                                *)

ClientSteps == {"none", "opening", "writing", "written", "closed", "listening",
                "reading"}
ChildSteps == {"free", "read", "handle", "answer", "write", "zombie"}

(* The types, and: the request pipe never holds more than it can, a process   *)
(* works on a request exactly from its read on, and a running daemon listens  *)
(* on the pipe that has the name.                                             *)
TypeOK ==
    /\ main \in {"down", "boot", "open", "loop"}
    /\ starts \in 0..(MaxStops + 1)
    /\ fifo \in {0, starts}
    /\ main \in {"open", "loop"} => fifo # 0
    /\ pipe \in Seq(Request)
    /\ Len(pipe) <= PipeCap
    /\ child \in [Procs -> [pc : ChildSteps, req : Request \cup {None}]]
    /\ \A n \in Procs : child[n].req # None
                            <=> child[n].pc \in {"handle", "answer", "write"}
    /\ client \in [Clients -> [pc : ClientSteps, req : Request \cup {None},
                               end : 0..(MaxStops + 1)]]
    /\ \A k \in Clients : client[k].pc # "none" =>
            client[k].req \in Request /\ Pid(client[k].req) = k
    /\ back \subseteq Clients
    /\ reply \in [Clients -> Seq(Request)]
    /\ count \in [requests : 0..MaxRequests, stops : 0..MaxStops,
                  interrupts : 0..MaxInterrupts]
    /\ fate \in [taken : SUBSET Request, lost : SUBSET Request,
                 silent : SUBSET Request, dropped : SUBSET Request,
                 got : SUBSET (Request \X Request)]

InPipe == {pipe[i] : i \in 1..Len(pipe)}
InChild == {child[n].req : n \in Procs} \ {None}
InReply(k) == {reply[k][i] : i \in 1..Len(reply[k])}

(* However forks, reads, kills and restarts interleave, a client that still   *)
(* waits has its request in exactly one place: in the pipe, with one child,   *)
(* answered in its own pipe, or past an event that left it without an answer. *)
RequestAccounted ==
    /\ \A k \in Clients :
          client[k].pc \in {"written", "closed", "listening", "reading"} =>
              client[k].req \in
                  UNION {InPipe, InChild, InReply(k), fate.lost, fate.silent,
                         fate.dropped}
    /\ Cardinality(InPipe) = Len(pipe)
    /\ InPipe \cap fate.taken = {}
    /\ \A m, n \in Procs : child[m].req = child[n].req /\ m # n => child[m].req = None
    /\ InChild \cap (fate.lost \cup fate.silent \cup fate.dropped) = {}

(* Unless a user interrupts a client, what a client reads is the answer to    *)
(* its own request, even when clients run under the same process id one after *)
(* the other, leave their pipes behind, and the daemon is killed.             *)
AnswerIsOwn ==
    count.interrupts = 0 => \A g \in fate.got : g[1] = g[2]

(* While there are processes left for all requests in the pipe, each of them  *)
(* is taken by a child, unless the daemon is killed.                          *)
Room == Len(pipe) <= Cardinality({n \in Procs : child[n].pc \in {"free", "read"}})

AttendedWhileRoom ==
    \A r \in Request :
        (r \in InPipe /\ Room) ~> (r \in fate.taken \cup fate.dropped)

(* The two opens of the answer pipe never wait for one another in vain: a     *)
(* request that was taken is answered, unless its handler exits without an    *)
(* answer, the child comes before the pipe has a name, the daemon is killed,  *)
(* or a client is interrupted.                                                *)
AnsweredUnless ==
    \A r \in Request :
        r \in fate.taken ~>
            \/ <<r, r>> \in fate.got
            \/ r \in fate.lost \cup fate.silent \cup fate.dropped
            \/ count.interrupts > 0
==============================================================================
