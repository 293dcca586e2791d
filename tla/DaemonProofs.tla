----------------------------- MODULE DaemonProofs -----------------------------
(* Theorems about Daemon, for any number of clients, processes, requests,     *)
(* kills and interrupts: its variables keep their types, a request that a     *)
(* client waits for is in one place, and an answer goes to the client that    *)
(* asked, even when process ids come again.                                   *)
EXTENDS Daemon, FiniteSetTheorems, SequenceTheorems, TLAPS

------------------------------------------------------------------------------
(* The inductive invariant.                                                   *)

Elements(s) == {s[i] : i \in 1..Len(s)}
Injective(s) == \A i, j \in 1..Len(s) : s[i] = s[j] => i = j

(* Every start but one that is running was ended by a stop.                   *)
Running == IF main \in {"open", "loop"} THEN 1 ELSE 0
TypeInv == TypeOK /\ starts = count.stops + Running

(* The requests that have left their clients: this set only grows.            *)
Sent == InPipe \cup fate.taken \cup fate.dropped

(* Requests are numbered as clients start, so a new one was never sent.       *)
Numbered ==
    /\ \A r \in Sent : r[1] <= count.requests
    /\ \A k \in Clients : client[k].pc # "none" =>
          client[k].req[1] <= count.requests

Unsent ==
    \A k \in Clients : client[k].pc \in {"opening", "writing"} =>
        client[k].req \notin Sent

(* A request is in the pipe once and before a child has it, and with one      *)
(* child at most, which has done nothing about it so far.                     *)
Once ==
    /\ Injective(pipe)
    /\ InPipe \cap (fate.taken \cup fate.dropped) = {}

Ended == fate.lost \cup fate.silent \cup fate.dropped

WithOne ==
    /\ InChild \subseteq fate.taken
    /\ fate.lost \cup fate.silent \subseteq fate.taken
    /\ InChild \cap Ended = {}
    /\ \A m, n \in Procs : child[m].req = child[n].req /\ m # n =>
          child[m].req = None

Waits(k) == client[k].pc \in {"written", "closed", "listening", "reading"}

Accounted ==
    \A k \in Clients : Waits(k) =>
        client[k].req \in UNION {InPipe, InChild, InReply(k), Ended}

(* A child that has opened the answer pipe of a client that still waits for   *)
(* this answer will find it reading.                                          *)
WriterHeard ==
    \A n \in Procs : child[n].pc = "write" =>
        LET k == Pid(child[n].req)
        IN  client[k].req = child[n].req => client[k].pc = "reading"

(* Answers are only in the pipe of a client that reads them, and a request    *)
(* that was answered is with no child any more.                               *)
Answers ==
    /\ \A k \in Clients : reply[k] # <<>> => client[k].pc = "reading"
    /\ \A k \in Clients : InReply(k) \subseteq fate.taken \ InChild

(* Nobody was interrupted: a request that is still in the pipe or with a      *)
(* child is that of the client now running under its process id; and a client *)
(* that reads has its own child at work, or nobody's.                         *)
Mine ==
    /\ \A r \in InPipe \cup InChild : client[Pid(r)].req = r /\ Waits(Pid(r))
    /\ \A k \in Clients : \A r \in InReply(k) : client[k].req = r
    /\ \A k \in Clients : client[k].pc = "reading" =>
          /\ client[k].req \notin InPipe
          /\ \A n \in Procs : child[n].req = client[k].req => child[n].pc = "write"
    /\ \A g \in fate.got : g[1] = g[2]

Own == count.interrupts = 0 => Mine

Inv ==
    /\ TypeInv /\ Numbered /\ Unsent /\ Once /\ WithOne /\ Accounted
    /\ WriterHeard /\ Answers /\ Own

------------------------------------------------------------------------------
(* Sequences and what is in them.                                             *)

(* What Append adds.                                                          *)
LEMMA AppendElements ==
    ASSUME NEW S, NEW s \in Seq(S), NEW e \in S
    PROVE  /\ Append(s, e) \in Seq(S)
           /\ Len(Append(s, e)) = Len(s) + 1
           /\ Elements(Append(s, e)) = Elements(s) \cup {e}
           /\ Injective(s) /\ e \notin Elements(s) => Injective(Append(s, e))
PROOF
<1> DEFINE t == Append(s, e)
<1>1. /\ t \in Seq(S) /\ Len(t) = Len(s) + 1 /\ Len(s) \in Nat
      /\ \A i \in 1..Len(s) : t[i] = s[i]
      /\ t[Len(s) + 1] = e
  BY AppendProperties, LenProperties
<1> HIDE DEF t
<1>2. Elements(t) = Elements(s) \cup {e}
  BY <1>1 DEF Elements
<1>3. ASSUME Injective(s), e \notin Elements(s)
      PROVE  Injective(t)
  BY <1>1, <1>3 DEF Injective, Elements
<1> QED
  BY <1>1, <1>2, <1>3 DEF t

(* What Tail leaves.                                                          *)
LEMMA TailElements ==
    ASSUME NEW S, NEW s \in Seq(S), s # <<>>
    PROVE  /\ Tail(s) \in Seq(S) /\ Head(s) \in S
           /\ Len(Tail(s)) = Len(s) - 1
           /\ Head(s) \in Elements(s)
           /\ Elements(s) = Elements(Tail(s)) \cup {Head(s)}
           /\ Injective(s) => Injective(Tail(s)) /\ Head(s) \notin Elements(Tail(s))
PROOF
<1> DEFINE t == Tail(s)
<1>1. /\ t \in Seq(S) /\ Head(s) \in S /\ Len(t) = Len(s) - 1
      /\ Len(s) \in Nat \ {0} /\ Head(s) = s[1]
      /\ \A i \in 1..Len(t) : t[i] = s[i + 1]
  BY HeadTailProperties, LenProperties, EmptySeq
<1> HIDE DEF t
<1>2. ASSUME NEW i \in 1..Len(s)
      PROVE  s[i] \in Elements(t) \cup {Head(s)}
  <2>1. CASE i = 1
    BY <2>1, <1>1
  <2>2. CASE i # 1
    <3>1. i - 1 \in 1..Len(t) /\ t[i - 1] = s[i]
      BY <2>2, <1>1
    <3> QED
      BY <3>1 DEF Elements
  <2> QED
    BY <2>1, <2>2
<1>3. ASSUME NEW i \in 1..Len(t)
      PROVE  t[i] \in Elements(s)
  BY <1>1 DEF Elements
<1>4. Head(s) \in Elements(s)
  BY <1>1 DEF Elements
<1>5. Elements(s) = Elements(t) \cup {Head(s)}
  BY <1>2, <1>3, <1>4 DEF Elements
<1>6. ASSUME Injective(s)
      PROVE  Injective(t) /\ Head(s) \notin Elements(t)
  <2>1. \A i, j \in 1..Len(s) : s[i] = s[j] => i = j
    BY <1>1, <1>6 DEF Injective
  <2>2. Injective(t)
    BY <1>1, <2>1 DEF Injective
  <2>3. ASSUME NEW i \in 1..Len(t), t[i] = Head(s)
        PROVE  FALSE
    BY <1>1, <2>1, <2>3
  <2> QED
    BY <2>2, <2>3 DEF Elements
<1> QED
  BY <1>1, <1>4, <1>5, <1>6 DEF t

(* A sequence without repetition has as many elements as places.              *)
LEMMA InjectiveLen ==
    ASSUME NEW S, NEW s \in Seq(S), Injective(s)
    PROVE  Cardinality(Elements(s)) = Len(s)
PROOF
<1>1. Len(s) \in Nat /\ DOMAIN s = 1..Len(s)
  BY LenProperties
<1> DEFINE f == [i \in 1..Len(s) |-> s[i]]
<1>2. f \in Bijection(1..Len(s), Elements(s))
  BY <1>1 DEF Bijection, Injection, Surjection, IsInjective, Injective, Elements
<1>3. ExistsBijection(1..Len(s), Elements(s))
  BY <1>2 DEF ExistsBijection
<1> QED
  BY <1>1, <1>3, FS_CountingElements

LEMMA PipeElements ==
    InPipe = Elements(pipe) /\ \A k : InReply(k) = Elements(reply[k])
PROOF
  BY DEF InPipe, InReply, Elements

------------------------------------------------------------------------------
(* The invariant holds initially.                                             *)

LEMMA InitInv == Init => Inv
PROOF
<1> SUFFICES ASSUME Init
             PROVE  Inv
  OBVIOUS
<1> USE DaemonAssumption
<1>1. InPipe = {} /\ InChild = {} /\ \A k \in Clients : InReply(k) = {}
  BY EmptySeq DEF Init, InPipe, InChild, InReply, FreeProc
<1>2. TypeOK
  BY EmptySeq DEF Init, TypeOK, ClientSteps, ChildSteps, FreeProc, NoClient, Request
<1>3. TypeInv
  BY <1>2 DEF TypeInv, Init, Running
<1>4. Numbered /\ Unsent /\ Once /\ WithOne /\ Accounted
  BY <1>1 DEF Init, Numbered, Unsent, Once, WithOne, Accounted, Sent, Ended, Waits,
     FreeProc, NoClient, Injective
<1>5. WriterHeard /\ Answers /\ Own
  BY <1>1 DEF Init, WriterHeard, Answers, Own, Mine, FreeProc, NoClient
<1> QED
  BY <1>3, <1>4, <1>5 DEF Inv

------------------------------------------------------------------------------
(* Every step keeps the types.                                                *)

LEMMA NoneIsNoRequest == None \notin Request
PROOF
  BY DaemonAssumption DEF Request

(* The parts of TypeOK that are functions or records.                         *)
ChildType(c) ==
    /\ c \in [Procs -> [pc : ChildSteps, req : Request \cup {None}]]
    /\ \A n \in Procs : c[n].req # None <=> c[n].pc \in {"handle", "answer", "write"}

ClientRecord == [pc : ClientSteps, req : Request \cup {None}, end : 0..(MaxStops + 1)]
ClientType(c) ==
    /\ c \in [Clients -> ClientRecord]
    /\ \A k \in Clients : c[k].pc # "none" => c[k].req \in Request /\ Pid(c[k].req) = k

FateType ==
    [taken : SUBSET Request, lost : SUBSET Request, silent : SUBSET Request,
     dropped : SUBSET Request, got : SUBSET (Request \X Request)]

CountType == [requests : 0..MaxRequests, stops : 0..MaxStops, interrupts : 0..MaxInterrupts]

MainType ==
    /\ main \in {"down", "boot", "open", "loop"}
    /\ starts \in 0..(MaxStops + 1)
    /\ fifo \in {0, starts}
    /\ main \in {"open", "loop"} => fifo # 0
    /\ starts = count.stops + Running

PipeType == pipe \in Seq(Request) /\ Len(pipe) <= PipeCap
BackType == back \subseteq Clients /\ reply \in [Clients -> Seq(Request)]

LEMMA TypeParts ==
    /\ TypeInv => /\ MainType /\ PipeType /\ BackType
                  /\ ChildType(child) /\ ClientType(client)
                  /\ count \in CountType /\ fate \in FateType
    /\ /\ MainType' /\ PipeType' /\ BackType'
       /\ ChildType(child') /\ ClientType(client')
       /\ count' \in CountType /\ fate' \in FateType
       => TypeInv'
PROOF
  BY DEF TypeInv, TypeOK, MainType, PipeType, BackType, ChildType, ClientType,
     ClientRecord, CountType, FateType

(* A counter below its bound.                                                 *)
LEMMA CountSteps ==
    ASSUME count \in CountType
    PROVE  /\ count.requests < MaxRequests =>
                /\ [count EXCEPT !.requests = @ + 1] \in CountType
                /\ [count EXCEPT !.requests = @ + 1].stops = count.stops
                /\ count.requests + 1 \in 1..MaxRequests
           /\ count.interrupts < MaxInterrupts =>
                /\ [count EXCEPT !.interrupts = @ + 1] \in CountType
                /\ [count EXCEPT !.interrupts = @ + 1].stops = count.stops
PROOF
<1>1. ASSUME count.requests < MaxRequests
      PROVE  count.requests + 1 \in 0..MaxRequests /\ count.requests + 1 \in 1..MaxRequests
  BY <1>1, DaemonAssumption DEF CountType
<1>2. ASSUME count.interrupts < MaxInterrupts
      PROVE  count.interrupts + 1 \in 0..MaxInterrupts
  BY <1>2, DaemonAssumption DEF CountType
<1> QED
  BY <1>1, <1>2 DEF CountType

(* One process, or one client, moves on.                                      *)
LEMMA ChildMoves ==
    ASSUME ChildType(child), NEW n \in Procs, NEW p \in ChildSteps,
           child[n].req # None <=> p \in {"handle", "answer", "write"}
    PROVE  /\ ChildType([child EXCEPT ![n].pc = p])
           /\ [child EXCEPT ![n].pc = p][n].pc = p
           /\ \A m \in Procs : /\ [child EXCEPT ![n].pc = p][m].req = child[m].req
                               /\ m # n => [child EXCEPT ![n].pc = p][m] = child[m]
PROOF
  BY DEF ChildType

LEMMA ChildSet ==
    ASSUME ChildType(child), NEW n \in Procs,
           NEW c \in [pc : ChildSteps, req : Request \cup {None}],
           c.req # None <=> c.pc \in {"handle", "answer", "write"}
    PROVE  /\ ChildType([child EXCEPT ![n] = c])
           /\ [child EXCEPT ![n] = c][n] = c
           /\ \A m \in Procs \ {n} : [child EXCEPT ![n] = c][m] = child[m]
PROOF
  BY DEF ChildType

LEMMA ClientMoves ==
    ASSUME ClientType(client), NEW k \in Clients, NEW p \in ClientSteps,
           client[k].pc # "none"
    PROVE  /\ ClientType([client EXCEPT ![k].pc = p])
           /\ [client EXCEPT ![k].pc = p][k].pc = p
           /\ \A j \in Clients : /\ [client EXCEPT ![k].pc = p][j].req = client[j].req
                                 /\ j # k => [client EXCEPT ![k].pc = p][j] = client[j]
PROOF
<1> DEFINE c == [client EXCEPT ![k].pc = p]
<1>1. c \in [Clients -> ClientRecord]
  BY DEF ClientType, ClientRecord
<1>2. c[k].pc = p /\ c[k].req = client[k].req
  BY DEF ClientType, ClientRecord
<1>3. \A j \in Clients \ {k} : c[j] = client[j]
  BY DEF ClientType
<1> QED
  BY <1>1, <1>2, <1>3 DEF ClientType

LEMMA ClientSet ==
    ASSUME ClientType(client), NEW k \in Clients, NEW c \in ClientRecord,
           c.pc # "none" => c.req \in Request /\ Pid(c.req) = k
    PROVE  /\ ClientType([client EXCEPT ![k] = c])
           /\ [client EXCEPT ![k] = c][k] = c
           /\ \A j \in Clients \ {k} : [client EXCEPT ![k] = c][j] = client[j]
PROOF
  BY DEF ClientType

(* What a client that ends leaves.                                            *)
LEMMA NoClientType == NoClient \in ClientRecord /\ NoClient.pc = "none" /\ NoClient.req = None
PROOF
  BY DaemonAssumption DEF NoClient, ClientRecord, ClientSteps

LEMMA ZombieType ==
    /\ Zombie \in [pc : ChildSteps, req : Request \cup {None}]
    /\ Zombie.pc = "zombie" /\ Zombie.req = None
PROOF
  BY DEF Zombie, ChildSteps

(* The main process.                                                          *)
LEMMA MainTypes ==
    ASSUME TypeInv, UnlinkFifo \/ MakeFifo \/ OpenFifo \/ Fork \/ Stop
    PROVE  TypeInv'
PROOF
<1> USE DaemonAssumption, TypeParts DEF MainType, PipeType, BackType, CountType, Running,
       daemon, answering
<1>1. CASE UnlinkFifo
  BY <1>1 DEF UnlinkFifo
<1>2. CASE MakeFifo
  BY <1>2 DEF MakeFifo
<1>3. CASE OpenFifo
  BY <1>3 DEF OpenFifo
<1>4. CASE Fork
  <2>1. PICK n \in Procs : child[n] = FreeProc /\ child' = [child EXCEPT ![n].pc = "read"]
    BY <1>4 DEF Fork
  <2>2. child[n].req = None /\ "read" \in ChildSteps
    BY <2>1 DEF FreeProc, ChildSteps
  <2>3. ChildType(child')
    BY <2>1, <2>2, ChildMoves
  <2> QED
    BY <1>4, <2>3 DEF Fork
<1>5. CASE Stop
  <2>1. InPipe \subseteq Request
    BY LenProperties, ElementOfSeq DEF InPipe
  <2>2. {child[n].req : n \in Procs} \ {None} \subseteq Request
    BY DEF ChildType
  <2>3. fate' \in FateType
    BY <1>5, <2>1, <2>2 DEF Stop, InPipe, FateType
  <2>4. ChildType(child')
    BY <1>5 DEF Stop, FreeProc, ChildType, ChildSteps
  <2>5. /\ main \in {"open", "loop"} /\ main' = "down"
        /\ count' = [count EXCEPT !.stops = @ + 1] /\ count.stops < MaxStops
        /\ pipe' = <<>>
        /\ fifo' = fifo /\ starts' = starts /\ client' = client /\ back' = back
        /\ reply' = reply
    BY <1>5 DEF Stop
  <2>6. PipeType'
    BY <2>5, EmptySeq
  <2>7. MainType' /\ BackType' /\ count' \in CountType
    BY <2>5
  <2> QED
    BY <2>3, <2>4, <2>5, <2>6, <2>7
<1> QED
  BY <1>1, <1>2, <1>3, <1>4, <1>5

(* A child.                                                                   *)
LEMMA ChildTypes ==
    ASSUME TypeInv, NEW n \in Procs, Child(n)
    PROVE  TypeInv'
PROOF
<1> USE DaemonAssumption, TypeParts DEF MainType, PipeType, BackType, Running, daemon,
       answering, Goto, ExitChild
<1>1. CASE Take(n)
  <2>1. CASE pipe # <<>>
    <3>1. Tail(pipe) \in Seq(Request) /\ Head(pipe) \in Request
          /\ Len(Tail(pipe)) = Len(pipe) - 1 /\ Len(pipe) \in Nat
      BY <2>1, TailElements, LenProperties
    <3>2. ChildType([child EXCEPT ![n] = [pc |-> "handle", req |-> Head(pipe)]])
      BY <3>1, ChildSet, NoneIsNoRequest DEF ChildSteps
    <3>3. [fate EXCEPT !.taken = @ \cup {Head(pipe)}] \in FateType
      BY <3>1 DEF FateType
    <3>4. /\ child' = [child EXCEPT ![n] = [pc |-> "handle", req |-> Head(pipe)]]
          /\ fate' = [fate EXCEPT !.taken = @ \cup {Head(pipe)}]
          /\ pipe' = Tail(pipe)
          /\ UNCHANGED <<main, fifo, starts, back, reply, client, count>>
      BY <1>1, <2>1 DEF Take
    <3>5. ChildType(child') /\ fate' \in FateType
      BY <3>2, <3>3, <3>4
    <3>6. PipeType'
      BY <3>1, <3>4
    <3> QED
      BY <3>4, <3>5, <3>6
  <2>2. CASE pipe = <<>>
    BY <1>1, <2>2, ChildSet, ZombieType DEF Take
  <2> QED
    BY <2>1, <2>2
<1>2. ASSUME child[n].req # None
      PROVE  /\ ChildType([child EXCEPT ![n] = Zombie])
             /\ [fate EXCEPT !.silent = @ \cup {child[n].req}] \in FateType
             /\ [fate EXCEPT !.lost = @ \cup {child[n].req}] \in FateType
             /\ child[n].req \in Request
  <2>1. child[n].req \in Request
    BY <1>2 DEF ChildType
  <2>2. ChildType([child EXCEPT ![n] = Zombie])
    BY ChildSet, ZombieType
  <2> QED
    BY <2>1, <2>2 DEF FateType
<1>3. CASE Handle(n)
  <2>1. child[n].pc = "handle" /\ child[n].req # None
    BY <1>3 DEF Handle, ChildType
  <2>2. ChildType([child EXCEPT ![n].pc = "answer"])
    BY <2>1, ChildMoves DEF ChildSteps
  <2>3. ChildType(child') /\ fate' \in FateType
    BY <1>2, <1>3, <2>1, <2>2 DEF Handle
  <2> QED
    BY <1>3, <2>3 DEF Handle
<1>4. CASE OpenBack(n)
  <2>1. child[n].pc = "answer" /\ child[n].req # None
    BY <1>4 DEF OpenBack, ChildType
  <2>2. ChildType([child EXCEPT ![n].pc = "write"])
    BY <2>1, ChildMoves DEF ChildSteps
  <2>3. ASSUME NEW k \in Clients, client[k].pc \in {"listening", "reading"}
        PROVE  ClientType([client EXCEPT ![k].pc = "reading"])
    BY <2>3, ClientMoves DEF ClientSteps
  <2>4. Pid(child[n].req) \in Clients
    BY <1>2, <2>1 DEF Request, Pid
  <2>5. ChildType(child') /\ fate' \in FateType /\ ClientType(client')
    BY <1>2, <1>4, <2>1, <2>2, <2>3, <2>4 DEF OpenBack
  <2> QED
    BY <1>4, <2>5 DEF OpenBack
<1>5. CASE WriteBack(n)
  <2>1. child[n].pc = "write" /\ child[n].req # None
    BY <1>5 DEF WriteBack, ChildType
  <2>2. ASSUME NEW k \in Clients
        PROVE  [reply EXCEPT ![k] = Append(@, child[n].req)] \in [Clients -> Seq(Request)]
    <3>1. Append(reply[k], child[n].req) \in Seq(Request)
      BY <1>2, <2>1, AppendElements
    <3> QED
      BY <3>1
  <2>3. Pid(child[n].req) \in Clients
    BY <1>2, <2>1 DEF Request, Pid
  <2>4. reply' \in [Clients -> Seq(Request)]
    BY <1>5, <2>2, <2>3 DEF WriteBack
  <2> QED
    BY <1>2, <1>5, <2>1, <2>4 DEF WriteBack
<1> QED
  BY <1>1, <1>3, <1>4, <1>5 DEF Child

(* A client.                                                                  *)
LEMMA ClientTypes ==
    ASSUME TypeInv, NEW k \in Clients, OpenRequest(k) \/ Client(k) \/ Interrupt(k)
    PROVE  TypeInv'
PROOF
<1> USE DaemonAssumption, TypeParts DEF MainType, PipeType, BackType, Running, daemon,
       answering, Advance
<1>1. /\ ClientType([client EXCEPT ![k] = NoClient])
      /\ [reply EXCEPT ![k] = <<>>] \in [Clients -> Seq(Request)]
  BY ClientSet, NoClientType, EmptySeq
<1>2. ASSUME client[k].pc # "none", NEW p \in ClientSteps
      PROVE  ClientType([client EXCEPT ![k].pc = p])
  BY <1>2, ClientMoves
<1>3. CASE OpenRequest(k)
  <2>1. count.requests + 1 \in 1..MaxRequests /\ count' \in CountType
        /\ count'.stops = count.stops
    BY <1>3, CountSteps DEF OpenRequest
  <2>2. CASE fifo = 0
    BY <1>1, <1>3, <2>1, <2>2 DEF OpenRequest
  <2>3. CASE fifo # 0
    <3> DEFINE c == [pc |-> "opening", req |-> <<count.requests + 1, k>>, end |-> fifo]
    <3>1. <<count.requests + 1, k>> \in Request /\ c \in ClientRecord
          /\ c.req \in Request /\ Pid(c.req) = k
      BY <2>1 DEF Request, ClientRecord, ClientSteps, Pid
    <3>2. ClientType([client EXCEPT ![k] = c])
      BY <3>1, ClientSet
    <3> QED
      BY <1>3, <2>1, <2>3, <3>2 DEF OpenRequest
  <2> QED
    BY <2>2, <2>3
<1>4. CASE Opened(k)
  BY <1>2, <1>4 DEF Opened, Opening, ClientSteps
<1>5. CASE Write(k)
  <2>1. CASE pipe' = Append(pipe, client[k].req) /\ Len(pipe) < PipeCap
             /\ Advance(k, "written")
    <3>1. pipe' \in Seq(Request) /\ Len(pipe') = Len(pipe) + 1 /\ Len(pipe) \in Nat
      BY <1>5, <2>1, AppendElements, LenProperties DEF Write, ClientType
    <3> QED
      BY <1>2, <1>5, <2>1, <3>1 DEF Write, ClientSteps
  <2>2. CASE pipe' = pipe /\ client' = [client EXCEPT ![k] = NoClient]
    BY <1>1, <1>5, <2>2 DEF Write
  <2> QED
    BY <1>5, <2>1, <2>2 DEF Write
<1>6. CASE CloseRequest(k)
  BY <1>2, <1>6 DEF CloseRequest, ClientSteps
<1>7. CASE MakeBack(k)
  BY <1>2, <1>7 DEF MakeBack, ClientSteps
<1>8. CASE ReadBack(k)
  <2>1. client[k].req \in Request /\ (reply[k] # <<>> => Head(reply[k]) \in Request)
    BY <1>8, TailElements DEF ReadBack, ClientType
  <2>2. fate' \in FateType
    <3>1. /\ fate \in FateType
          /\ \/ fate' = fate
             \/ /\ reply[k] # <<>>
                /\ fate' = [fate EXCEPT !.got = @ \cup {<<client[k].req, Head(reply[k])>>}]
      BY <1>8 DEF ReadBack
    <3> DEFINE g == fate.got \cup {<<client[k].req, Head(reply[k])>>}
    <3>2. reply[k] # <<>> => g \subseteq Request \X Request
      BY <2>1, <3>1 DEF FateType
    <3> HIDE DEF g
    <3>3. ASSUME NEW h \in FateType, g \subseteq Request \X Request
          PROVE  [h EXCEPT !.got = g] \in FateType
      BY <3>3 DEF FateType
    <3>4. CASE reply[k] # <<>> /\ fate' = [fate EXCEPT !.got = g]
      BY <3>1, <3>2, <3>3, <3>4
    <3> QED
      BY <3>1, <3>4 DEF g
  <2>3. /\ client' = [client EXCEPT ![k] = NoClient]
        /\ reply' = [reply EXCEPT ![k] = <<>>]
        /\ back' \in {back, back \ {k}}
        /\ UNCHANGED <<main, fifo, starts, pipe, child, count>>
    BY <1>8 DEF ReadBack
  <2>4. ClientType(client') /\ reply' \in [Clients -> Seq(Request)]
    BY <1>1, <2>3
  <2>5. back' \in SUBSET Clients
    BY <2>3
  <2> QED
    BY <2>2, <2>3, <2>4, <2>5
<1>9. CASE Interrupt(k)
  <2>1. count' \in CountType /\ count'.stops = count.stops
    BY <1>9, CountSteps DEF Interrupt
  <2> QED
    BY <1>1, <1>9, <2>1 DEF Interrupt
<1> QED
  BY <1>3, <1>4, <1>5, <1>6, <1>7, <1>8, <1>9 DEF Client

------------------------------------------------------------------------------
(* Every step keeps the rest of the invariant.                                *)

Rest ==
    /\ Numbered /\ Unsent /\ Once /\ WithOne /\ Accounted
    /\ WriterHeard /\ Answers /\ Own

(* A process has no request or a request of a client.                         *)
LEMMA ChildRequests ==
    ASSUME TypeInv
    PROVE  /\ InChild \subseteq Request
           /\ \A n \in Procs : child[n].pc \in {"handle", "answer", "write"} =>
                 child[n].req \in InChild
           /\ \A n \in Procs : child[n].req \in InChild => child[n].req # None
           /\ \A r \in InChild : \E n \in Procs : child[n].req = r
PROOF
  BY TypeParts DEF InChild, ChildType

(* Steps that move no request: forks, and a handler on its way to an answer.  *)
LEMMA ChildQuiet ==
    ASSUME TypeInv, Rest,
           \A n \in Procs : /\ child'[n].req = child[n].req
                            /\ child'[n].pc = "write" <=> child[n].pc = "write",
           UNCHANGED <<pipe, client, reply, count, fate>>
    PROVE  Rest'
PROOF
<1>1. InPipe' = InPipe
  BY DEF InPipe
<1>2. InChild' = InChild
  BY DEF InChild
<1>3. Sent' = Sent /\ Ended' = Ended
  BY <1>1 DEF Sent, Ended
<1>4. Numbered' /\ Unsent'
  BY <1>3 DEF Rest, Numbered, Unsent
<1>5. Once'
  BY <1>1 DEF Rest, Once
<1>6. WithOne'
  BY <1>2, <1>3 DEF Rest, WithOne
<1>7. Accounted'
  BY <1>1, <1>2, <1>3 DEF Rest, Accounted, Waits, InReply
<1>8. WriterHeard' /\ Answers'
  BY <1>2 DEF Rest, WriterHeard, Answers, InReply
<1>9. Own'
  BY <1>1, <1>2 DEF Rest, Own, Mine, Waits, InReply
<1> QED
  BY <1>4, <1>5, <1>6, <1>7, <1>8, <1>9 DEF Rest

LEMMA MainRest ==
    ASSUME TypeInv, Rest, UnlinkFifo \/ MakeFifo \/ OpenFifo \/ Fork
    PROVE  Rest'
PROOF
<1>1. UNCHANGED <<pipe, client, reply, count, fate>>
  BY DEF UnlinkFifo, MakeFifo, OpenFifo, Fork, answering
<1>2. \A n \in Procs : /\ child'[n].req = child[n].req
                       /\ child'[n].pc = "write" <=> child[n].pc = "write"
  <2>1. CASE child' = child
    BY <2>1
  <2>2. CASE Fork
    <3>1. PICK n \in Procs : child[n] = FreeProc /\ child' = [child EXCEPT ![n].pc = "read"]
      BY <2>2 DEF Fork
    <3>2. child[n].req = None /\ child[n].pc = "free" /\ "read" \in ChildSteps
      BY <3>1 DEF FreeProc, ChildSteps
    <3>3. child'[n].pc = "read"
          /\ \A m \in Procs : child'[m].req = child[m].req /\ (m # n => child'[m] = child[m])
      BY <3>1, <3>2, ChildMoves, TypeParts
    <3> QED
      BY <3>2, <3>3
  <2> QED
    BY <2>1, <2>2 DEF UnlinkFifo, MakeFifo, OpenFifo
<1> QED
  BY <1>1, <1>2, ChildQuiet

(* A kill: what was in the pipe or with a child is dropped.                   *)
LEMMA StopRest ==
    ASSUME TypeInv, Rest, Stop
    PROVE  Rest'
PROOF
<1>1. /\ InPipe' = {} /\ pipe' = <<>>
      /\ InChild' = {} /\ \A n \in Procs : child'[n].req = None /\ child'[n].pc = "free"
      /\ client' = client /\ reply' = reply
      /\ count'.requests = count.requests /\ count'.interrupts = count.interrupts
  BY TypeParts, EmptySeq DEF Stop, InPipe, InChild, FreeProc, answering, CountType
<1>2. /\ fate'.dropped = fate.dropped \cup InPipe \cup InChild
      /\ fate'.taken = fate.taken /\ fate'.lost = fate.lost /\ fate'.silent = fate.silent
      /\ fate'.got = fate.got
  BY TypeParts DEF Stop, FateType, InPipe, InChild
<1>3. Sent' = Sent /\ Ended' = Ended \cup InPipe \cup InChild
  BY <1>1, <1>2 DEF Sent, Ended, Rest, WithOne
<1>4. Numbered' /\ Unsent'
  BY <1>1, <1>3 DEF Rest, Numbered, Unsent
<1>5. Once' /\ WithOne'
  BY <1>1, <1>2, EmptySeq DEF Rest, Once, WithOne, Injective
<1>6. Accounted'
  <2> SUFFICES ASSUME NEW k \in Clients, Waits(k)'
               PROVE  client[k].req \in InReply(k) \cup Ended'
    BY <1>1 DEF Accounted, InReply
  <2>1. client[k].req \in UNION {InPipe, InChild, InReply(k), Ended}
    BY <1>1 DEF Rest, Accounted, Waits
  <2> QED
    BY <2>1, <1>3
<1>7. WriterHeard' /\ Answers'
  BY <1>1, <1>2 DEF Rest, WriterHeard, Answers, InReply
<1>8. Own'
  <2>1. \A k \in Clients : client[k].pc = "reading" => client[k].req # None
    BY TypeParts, NoneIsNoRequest DEF ClientType
  <2> QED
    BY <1>1, <1>2, <2>1 DEF Rest, Own, Mine, InReply
<1> QED
  BY <1>4, <1>5, <1>6, <1>7, <1>8 DEF Rest

(* A child exits: only it had its request, and nobody has it now.             *)
LEMMA ExitEffect ==
    ASSUME TypeInv, WithOne, NEW n \in Procs, ExitChild(n)
    PROVE  /\ child'[n].req = None /\ child'[n].pc = "zombie"
           /\ \A m \in Procs \ {n} : child'[m] = child[m]
           /\ InChild' = InChild \ {child[n].req}
PROOF
<1>1. /\ child'[n].req = None /\ child'[n].pc = "zombie"
      /\ \A m \in Procs \ {n} : child'[m] = child[m]
  BY TypeParts, ChildSet, ZombieType DEF ExitChild
<1>2. \A m \in Procs \ {n} : child[m].req = child[n].req => child[m].req = None
  BY DEF WithOne
<1> QED
  BY <1>1, <1>2 DEF InChild

(* A child reads a request: it was in the pipe, and is with this child now.   *)
LEMMA TakeRest ==
    ASSUME TypeInv, Rest, NEW n \in Procs, Take(n)
    PROVE  Rest'
PROOF
<1>1. CASE pipe = <<>>
  <2>1. child[n].req = None /\ ExitChild(n) /\ UNCHANGED <<pipe, client, reply, count, fate>>
    BY <1>1, TypeParts DEF Take, ChildType, answering
  <2>2. \A m \in Procs : /\ child'[m].req = child[m].req
                         /\ child'[m].pc = "write" <=> child[m].pc = "write"
    BY <2>1, ExitEffect, TypeParts DEF Rest, ChildType
  <2> QED
    BY <2>1, <2>2, ChildQuiet
<1>2. CASE pipe # <<>>
  <2> DEFINE r == Head(pipe)
  <2>1. /\ child[n].pc = "read" /\ child[n].req = None
        /\ child' = [child EXCEPT ![n] = [pc |-> "handle", req |-> r]]
        /\ pipe' = Tail(pipe) /\ fate' = [fate EXCEPT !.taken = @ \cup {r}]
        /\ UNCHANGED <<client, reply, count>>
    BY <1>2, TypeParts DEF Take, ChildType, answering
  <2>2. Elements(pipe) = InPipe /\ Elements(pipe)' = InPipe'
    BY DEF Elements, InPipe
  <2>3. /\ r \in Request /\ r \in InPipe /\ InPipe = InPipe' \cup {r} /\ r \notin InPipe'
        /\ Injective(pipe')
    BY <1>2, <2>1, <2>2, TypeParts, TailElements DEF PipeType, Rest, Once
  <2>4. /\ child'[n].req = r /\ child'[n].pc = "handle"
        /\ \A m \in Procs \ {n} : child'[m] = child[m]
    <3> DEFINE c == [pc |-> "handle", req |-> r]
    <3>1. /\ c \in [pc : ChildSteps, req : Request \cup {None}]
          /\ c.pc = "handle" /\ c.req = r /\ r # None
      BY <2>3, NoneIsNoRequest DEF ChildSteps
    <3>2. child' = [child EXCEPT ![n] = c]
      BY <2>1
    <3> HIDE DEF c
    <3>3. child'[n] = c /\ \A m \in Procs \ {n} : child'[m] = child[m]
      BY <3>1, <3>2, TypeParts, ChildSet
    <3> QED
      BY <3>1, <3>3
  <2>5. /\ fate'.taken = fate.taken \cup {r} /\ fate'.dropped = fate.dropped
        /\ fate'.lost = fate.lost /\ fate'.silent = fate.silent /\ fate'.got = fate.got
    BY <2>1, TypeParts DEF FateType
  <2>6. InChild' = InChild \cup {r}
    BY <2>1, <2>3, <2>4, NoneIsNoRequest DEF InChild
  <2>7. r \notin fate.taken \cup fate.dropped
    BY <2>3 DEF Rest, Once
  <2> HIDE DEF r
  <2>8. Sent' = Sent /\ Ended' = Ended
    BY <2>3, <2>5 DEF Sent, Ended
  <2>9. Numbered' /\ Unsent'
    BY <2>1, <2>8 DEF Rest, Numbered, Unsent
  <2>10. Once'
    BY <2>3, <2>5 DEF Rest, Once
  <2>11. WithOne'
    <3>1. r \notin InChild /\ r \notin Ended
      BY <2>7 DEF Rest, WithOne, Ended
    <3>2. \A m \in Procs \ {n} : child[m].req # r
      BY <2>3, <3>1, NoneIsNoRequest DEF InChild
    <3>3. \A m, o \in Procs : child'[m].req = child'[o].req /\ m # o => child'[m].req = None
      BY <2>4, <3>2 DEF Rest, WithOne
    <3> QED
      BY <2>5, <2>6, <2>8, <3>1, <3>3 DEF Rest, WithOne
  <2>12. Accounted'
    BY <2>1, <2>3, <2>6, <2>8 DEF Rest, Accounted, Waits, InReply
  <2>13. WriterHeard'
    BY <2>1, <2>4 DEF Rest, WriterHeard
  <2>14. Answers'
    BY <2>1, <2>5, <2>6, <2>7 DEF Rest, Answers, InReply
  <2>15. Own'
    <3>1. ASSUME Mine
          PROVE  Mine'
      <4>1. \A k \in Clients : client[k].pc = "reading" =>
                \A m \in Procs : child'[m].req = client[k].req => child'[m].pc = "write"
        BY <2>3, <2>4, <3>1 DEF Mine
      <4>2. \A q \in InPipe' \cup InChild' : client[Pid(q)].req = q /\ Waits(Pid(q))
        BY <2>3, <2>6, <3>1 DEF Mine
      <4> QED
        BY <2>1, <2>3, <2>5, <3>1, <4>1, <4>2 DEF Mine, Waits, InReply
    <3> QED
      BY <2>1, <3>1 DEF Rest, Own
  <2> QED
    BY <2>9, <2>10, <2>11, <2>12, <2>13, <2>14, <2>15 DEF Rest
<1> QED
  BY <1>1, <1>2

(* A child exits without an answer, before or after it looked for the pipe.   *)
LEMMA SilentRest ==
    ASSUME TypeInv, Rest, NEW n \in Procs, ExitChild(n), child[n].req # None,
           \/ fate' = [fate EXCEPT !.silent = @ \cup {child[n].req}]
           \/ fate' = [fate EXCEPT !.lost = @ \cup {child[n].req}],
           UNCHANGED <<pipe, client, reply, count>>
    PROVE  Rest'
PROOF
<1> DEFINE r == child[n].req
<1>1. /\ child'[n].req = None /\ child'[n].pc = "zombie"
      /\ \A m \in Procs \ {n} : child'[m] = child[m]
      /\ InChild' = InChild \ {r}
      /\ r \in InChild
  BY ExitEffect DEF Rest, InChild
<1>2. /\ fate'.taken = fate.taken /\ fate'.dropped = fate.dropped /\ fate'.got = fate.got
      /\ Ended' = Ended \cup {r}
      /\ fate'.lost \cup fate'.silent = fate.lost \cup fate.silent \cup {r}
  BY TypeParts DEF FateType, Ended
<1>3. InPipe' = InPipe /\ Sent' = Sent
  BY <1>2 DEF InPipe, Sent
<1>4. r \in fate.taken
  BY <1>1 DEF Rest, WithOne
<1> HIDE DEF r
<1>5. Numbered' /\ Unsent' /\ Once'
  BY <1>2, <1>3 DEF Rest, Numbered, Unsent, Once
<1>6. WithOne'
  <2>1. \A m, o \in Procs : child'[m].req = child'[o].req /\ m # o => child'[m].req = None
    BY <1>1 DEF Rest, WithOne
  <2> QED
    BY <1>1, <1>2, <1>4, <2>1 DEF Rest, WithOne
<1>7. Accounted'
  BY <1>1, <1>2, <1>3 DEF Rest, Accounted, Waits, InReply
<1>8. WriterHeard' /\ Answers'
  BY <1>1, <1>2 DEF Rest, WriterHeard, Answers, InReply
<1>9. Own'
  <2>1. \A k \in Clients : client[k].pc = "reading" => client[k].req # None
    BY TypeParts, NoneIsNoRequest DEF ClientType
  <2>2. ASSUME Mine
        PROVE  Mine'
    <3>1. \A k \in Clients : client[k].pc = "reading" =>
              \A m \in Procs : child'[m].req = client[k].req => child'[m].pc = "write"
      BY <1>1, <2>1, <2>2 DEF Mine
    <3> QED
      BY <1>1, <1>2, <1>3, <2>2, <3>1 DEF Mine, Waits, InReply
  <2> QED
    BY <2>2 DEF Rest, Own
<1> QED
  BY <1>5, <1>6, <1>7, <1>8, <1>9 DEF Rest

LEMMA HandleRest ==
    ASSUME TypeInv, Rest, NEW n \in Procs, Handle(n)
    PROVE  Rest'
PROOF
<1>1. /\ child[n].pc = "handle" /\ child[n].req # None
      /\ UNCHANGED <<pipe, client, reply, count>>
  BY TypeParts DEF Handle, ChildType, answering
<1>2. CASE Goto(n, "answer") /\ UNCHANGED fate
  <2>1. \A m \in Procs : /\ child'[m].req = child[m].req
                         /\ child'[m].pc = "write" <=> child[m].pc = "write"
    <3>1. "answer" \in ChildSteps /\ child' = [child EXCEPT ![n].pc = "answer"]
      BY <1>2 DEF ChildSteps, Goto
    <3>2. child'[n].pc = "answer"
          /\ \A m \in Procs : child'[m].req = child[m].req /\ (m # n => child'[m] = child[m])
      BY <1>1, <3>1, TypeParts, ChildMoves
    <3> QED
      BY <1>1, <3>2
  <2> QED
    BY <1>1, <1>2, <2>1, ChildQuiet
<1>3. CASE ExitChild(n) /\ fate' = [fate EXCEPT !.silent = @ \cup {child[n].req}]
  BY <1>1, <1>3, SilentRest
<1> QED
  BY <1>2, <1>3 DEF Handle

(* A child opens the answer pipe: the client that opened it too now reads.    *)
LEMMA OpenBackRest ==
    ASSUME TypeInv, Rest, NEW n \in Procs, OpenBack(n)
    PROVE  Rest'
PROOF
<1>1. PICK r \in Request, k \in Clients :
          /\ r = child[n].req /\ k = Pid(r) /\ r # None /\ child[n].pc = "answer"
          /\ UNCHANGED <<pipe, reply, count>>
  BY TypeParts DEF OpenBack, ChildType, answering, Request, Pid
<1>2. CASE ExitChild(n) /\ fate' = [fate EXCEPT !.lost = @ \cup {r}] /\ client' = client
  BY <1>1, <1>2, SilentRest
<1>3. CASE /\ client[k].pc \in {"listening", "reading"} /\ Goto(n, "write")
           /\ client' = [client EXCEPT ![k].pc = "reading"] /\ UNCHANGED fate
  <2>1. /\ child'[n].pc = "write"
        /\ \A m \in Procs : child'[m].req = child[m].req /\ (m # n => child'[m] = child[m])
    <3>1. "write" \in ChildSteps /\ child' = [child EXCEPT ![n].pc = "write"]
      BY <1>3 DEF ChildSteps, Goto
    <3> QED
      BY <1>1, <3>1, TypeParts, ChildMoves
  <2>2. /\ client'[k].pc = "reading"
        /\ \A j \in Clients : client'[j].req = client[j].req /\ (j # k => client'[j] = client[j])
    <3>1. "reading" \in ClientSteps /\ client[k].pc # "none"
      BY <1>3 DEF ClientSteps
    <3> QED
      BY <1>3, <3>1, TypeParts, ClientMoves
  <2>3. InPipe' = InPipe /\ r \in InChild
    BY <1>1 DEF InPipe, InChild
  <2>4. InChild' = InChild
    BY <2>1 DEF InChild
  <2>5. Sent' = Sent /\ Ended' = Ended
    BY <1>3, <2>3 DEF Sent, Ended
  <2>6. \A j \in Clients : Waits(j)' <=> Waits(j)
    BY <1>3, <2>2 DEF Waits
  <2>7. Numbered'
    BY <1>1, <1>3, <2>2, <2>5 DEF Rest, Numbered
  <2>8. Unsent' /\ Once'
    BY <1>1, <1>3, <2>2, <2>3, <2>5 DEF Rest, Unsent, Once
  <2>9. WithOne'
    BY <1>3, <2>1, <2>4, <2>5 DEF Rest, WithOne
  <2>10. Accounted'
    <3>1. \A j \in Clients : InReply(j)' = InReply(j) /\ client'[j].req = client[j].req
      BY <1>1, <2>2 DEF InReply
    <3>2. ASSUME NEW j \in Clients, Waits(j)
          PROVE  client'[j].req \in UNION {InPipe', InChild', InReply(j)', Ended'}
      BY <2>3, <2>4, <2>5, <3>1, <3>2 DEF Rest, Accounted
    <3> QED
      BY <2>6, <3>2 DEF Accounted
  <2>11. WriterHeard'
    <3> SUFFICES ASSUME NEW m \in Procs, child'[m].pc = "write",
                        client'[Pid(child'[m].req)].req = child'[m].req
                 PROVE  client'[Pid(child'[m].req)].pc = "reading"
      BY DEF WriterHeard
    <3>1. CASE Pid(child'[m].req) = k
      BY <2>2, <3>1
    <3>2. CASE Pid(child'[m].req) # k
      <4>1. m # n /\ child'[m] = child[m] /\ Pid(child[m].req) \in Clients
        BY <1>1, <2>1, <3>2, TypeParts DEF ChildType, Request, Pid
      <4> QED
        BY <2>2, <3>2, <4>1 DEF Rest, WriterHeard
    <3> QED
      BY <3>1, <3>2
  <2>12. Answers'
    BY <1>1, <1>3, <2>2, <2>4 DEF Rest, Answers, InReply
  <2>13. Own'
    <3>1. ASSUME Mine
          PROVE  Mine'
      <4>1. client[k].req = r /\ r \notin InPipe
        BY <1>1, <2>3, <3>1 DEF Mine, Rest, WithOne, Once
      <4>2. \A j \in Clients : client'[j].pc = "reading" => client'[j].req \notin InPipe
        BY <2>2, <3>1, <4>1 DEF Mine
      <4>3. ASSUME NEW j \in Clients, client'[j].pc = "reading",
                   NEW m \in Procs, child'[m].req = client'[j].req
            PROVE  child'[m].pc = "write"
        <5>1. CASE m = n
          BY <2>1, <5>1
        <5>2. CASE m # n /\ j = k
          BY <1>1, <2>1, <2>2, <4>1, <4>3, <5>2 DEF Rest, WithOne
        <5>3. CASE m # n /\ j # k
          BY <2>1, <2>2, <3>1, <4>3, <5>3 DEF Mine
        <5> QED
          BY <5>1, <5>2, <5>3
      <4>4. \A q \in InPipe' \cup InChild' : client'[Pid(q)].req = q /\ Waits(Pid(q))'
        <5>1. \A q \in InPipe \cup InChild : q \in Request /\ Pid(q) \in Clients
          BY TypeParts, ChildRequests, LenProperties, ElementOfSeq
             DEF InPipe, PipeType, Request, Pid
        <5> QED
          BY <2>2, <2>3, <2>4, <2>6, <3>1, <5>1 DEF Mine
      <4>5. \A j \in Clients : \A q \in InReply(j)' : client'[j].req = q
        BY <1>1, <2>2, <3>1 DEF Mine, InReply
      <4> QED
        BY <1>3, <2>3, <3>1, <4>2, <4>3, <4>4, <4>5 DEF Mine
    <3> QED
      BY <1>1, <3>1 DEF Rest, Own
  <2> QED
    BY <2>7, <2>8, <2>9, <2>10, <2>11, <2>12, <2>13 DEF Rest
<1> QED
  BY <1>1, <1>2, <1>3 DEF OpenBack

(* A child answers: the client that waits for this answer finds it in its     *)
(* pipe, and the child has done its work.                                     *)
LEMMA WriteBackRest ==
    ASSUME TypeInv, Rest, NEW n \in Procs, WriteBack(n)
    PROVE  Rest'
PROOF
<1>1. PICK r \in Request, k \in Clients :
          /\ r = child[n].req /\ k = Pid(r) /\ r # None /\ child[n].pc = "write"
          /\ ExitChild(n) /\ UNCHANGED <<pipe, client, count, fate>>
          /\ reply' = IF client[k].pc = "reading"
                      THEN [reply EXCEPT ![k] = Append(@, r)] ELSE reply
  BY TypeParts DEF WriteBack, ChildType, Request, Pid
<1>2. /\ child'[n].req = None /\ child'[n].pc = "zombie"
      /\ \A m \in Procs \ {n} : child'[m] = child[m]
      /\ InChild' = InChild \ {r} /\ r \in InChild
  <2>1. r \in InChild
    BY <1>1 DEF InChild
  <2> QED
    BY <1>1, <2>1, ExitEffect DEF Rest
<1>3. /\ \A j \in Clients \ {k} : InReply(j)' = InReply(j) /\ reply'[j] = reply[j]
      /\ client[k].pc = "reading" => InReply(k)' = InReply(k) \cup {r}
      /\ client[k].pc # "reading" => InReply(k)' = InReply(k) /\ reply'[k] = reply[k]
  <2>1. reply[k] \in Seq(Request)
    BY <1>1, TypeParts DEF BackType
  <2>2. Elements(Append(reply[k], r)) = Elements(reply[k]) \cup {r}
    BY <1>1, <2>1, AppendElements
  <2>3. reply' \in [Clients -> Seq(Request)]
        /\ \A j \in Clients \ {k} : reply'[j] = reply[j]
        /\ reply'[k] = IF client[k].pc = "reading" THEN Append(reply[k], r) ELSE reply[k]
    BY <1>1, <2>1, TypeParts, AppendElements DEF BackType
  <2> QED
    BY <1>1, <2>2, <2>3 DEF InReply, Elements
<1>4. InPipe' = InPipe /\ Sent' = Sent /\ Ended' = Ended
  BY <1>1 DEF InPipe, Sent, Ended
<1>5. Numbered' /\ Unsent' /\ Once'
  BY <1>1, <1>4 DEF Rest, Numbered, Unsent, Once
<1>6. WithOne'
  <2>1. \A m, o \in Procs : child'[m].req = child'[o].req /\ m # o => child'[m].req = None
    BY <1>2 DEF Rest, WithOne
  <2> QED
    BY <1>1, <1>2, <1>4, <2>1 DEF Rest, WithOne
<1>7. Accounted'
  <2> SUFFICES ASSUME NEW j \in Clients, Waits(j)
               PROVE  client[j].req \in UNION {InPipe, InChild', InReply(j)', Ended}
    BY <1>1, <1>4 DEF Accounted, Waits
  <2>1. client[j].req \in UNION {InPipe, InChild, InReply(j), Ended}
    BY DEF Rest, Accounted
  <2>2. CASE client[j].req = r
    <3>1. j = k
      BY <1>1, <2>2, TypeParts DEF Waits, ClientType
    <3>2. client[k].pc = "reading"
      BY <1>1, <2>2, <3>1 DEF Rest, WriterHeard
    <3> QED
      BY <1>3, <2>2, <3>1, <3>2
  <2>3. CASE client[j].req # r
    BY <1>1, <1>2, <1>3, <2>1, <2>3
  <2> QED
    BY <2>2, <2>3
<1>8. WriterHeard'
  BY <1>1, <1>2 DEF Rest, WriterHeard
<1>9. Answers'
  <2>1. r \in fate.taken
    BY <1>2 DEF Rest, WithOne
  <2> QED
    BY <1>1, <1>2, <1>3, <2>1 DEF Rest, Answers
<1>10. Own'
  <2>1. \A j \in Clients : client[j].pc = "reading" => client[j].req # None
    BY TypeParts, NoneIsNoRequest DEF ClientType
  <2>2. ASSUME Mine
        PROVE  Mine'
    <3>1. client[k].req = r
      BY <1>1, <1>2, <2>2 DEF Mine
    <3>2. \A j \in Clients : \A q \in InReply(j)' : client[j].req = q
      BY <1>3, <2>2, <3>1 DEF Mine
    <3>3. \A j \in Clients : client[j].pc = "reading" =>
              \A m \in Procs : child'[m].req = client[j].req => child'[m].pc = "write"
      BY <1>2, <2>1, <2>2 DEF Mine
    <3> QED
      BY <1>1, <1>2, <1>4, <2>2, <3>2, <3>3 DEF Mine, Waits
  <2> QED
    BY <1>1, <2>2 DEF Rest, Own
<1> QED
  BY <1>5, <1>6, <1>7, <1>8, <1>9, <1>10 DEF Rest

(* A client moves on without sending or receiving anything: it has the pipe   *)
(* open now, has closed it, or made its answer pipe.                          *)
LEMMA ClientQuiet ==
    ASSUME TypeInv, Rest, NEW k \in Clients, NEW p \in ClientSteps, Advance(k, p),
           \/ client[k].pc = "opening" /\ p = "writing"
           \/ client[k].pc = "written" /\ p = "closed"
           \/ client[k].pc = "closed" /\ p = "listening",
           UNCHANGED <<pipe, child, reply, count, fate>>
    PROVE  Rest'
PROOF
<1>1. /\ client'[k].pc = p
      /\ \A j \in Clients : client'[j].req = client[j].req /\ (j # k => client'[j] = client[j])
  <2>1. client[k].pc # "none" /\ client' = [client EXCEPT ![k].pc = p]
    BY DEF Advance
  <2> QED
    BY <2>1, TypeParts, ClientMoves
<1>2. InPipe' = InPipe /\ InChild' = InChild /\ Sent' = Sent /\ Ended' = Ended
  BY DEF InPipe, InChild, Sent, Ended
<1>3. \A j \in Clients : (Waits(j)' <=> Waits(j)) /\ InReply(j)' = InReply(j)
  BY <1>1 DEF Waits, InReply
<1>4. Numbered' /\ Unsent' /\ Once' /\ WithOne'
  <2>1. Numbered'
    BY <1>1, <1>2 DEF Rest, Numbered
  <2>2. Unsent'
    BY <1>1, <1>2 DEF Rest, Unsent
  <2> QED
    BY <1>2, <2>1, <2>2 DEF Rest, Once, WithOne
<1>5. Accounted'
  <2>1. ASSUME NEW j \in Clients, Waits(j)
        PROVE  client'[j].req \in UNION {InPipe', InChild', InReply(j)', Ended'}
    BY <1>1, <1>2, <1>3, <2>1 DEF Rest, Accounted
  <2> QED
    BY <1>3, <2>1 DEF Accounted
<1>6. WriterHeard'
  <2> SUFFICES ASSUME NEW n \in Procs, child[n].pc = "write",
                      client'[Pid(child[n].req)].req = child[n].req
               PROVE  client'[Pid(child[n].req)].pc = "reading"
    BY DEF WriterHeard
  <2>1. Pid(child[n].req) \in Clients
    BY TypeParts DEF ChildType, Request, Pid
  <2>2. client[Pid(child[n].req)].pc = "reading"
    BY <1>1, <2>1 DEF Rest, WriterHeard
  <2> QED
    BY <1>1, <2>1, <2>2
<1>7. Answers'
  BY <1>1, <1>2, <1>3 DEF Rest, Answers
<1>8. Own'
  <2>1. ASSUME Mine
        PROVE  Mine'
    <3>1. \A q \in InPipe \cup InChild : q \in Request /\ Pid(q) \in Clients
      BY TypeParts, ChildRequests, LenProperties, ElementOfSeq
         DEF InPipe, PipeType, Request, Pid
    <3>2. \A q \in InPipe' \cup InChild' : client'[Pid(q)].req = q /\ Waits(Pid(q))'
      BY <1>1, <1>2, <1>3, <2>1, <3>1 DEF Mine
    <3> QED
      BY <1>1, <1>2, <1>3, <2>1, <3>2 DEF Mine
  <2> QED
    BY <2>1 DEF Rest, Own
<1> QED
  BY <1>4, <1>5, <1>6, <1>7, <1>8 DEF Rest

(* A client starts, and finds the pipe or not: a new request has a number     *)
(* that no request in the pipe, and none that ever was there, has.            *)
LEMMA OpenRequestRest ==
    ASSUME TypeInv, Rest, NEW k \in Clients, OpenRequest(k)
    PROVE  Rest'
PROOF
<1>1. /\ client[k].pc = "none"
      /\ UNCHANGED <<pipe, child, reply, fate>>
      /\ count'.requests = count.requests + 1 /\ count.requests \in Nat
      /\ count'.interrupts = count.interrupts
  BY TypeParts DEF OpenRequest, CountType, answering
<1>2. /\ \A j \in Clients \ {k} : client'[j] = client[j]
      /\ client'[k].pc \in {"none", "opening"}
      /\ client'[k].pc = "opening" => client'[k].req = <<count.requests + 1, k>>
      /\ client'[k].pc = "none" => client'[k].req = None
  BY TypeParts, NoClientType DEF OpenRequest, ClientType, NoClient
<1>3. InPipe' = InPipe /\ InChild' = InChild /\ Sent' = Sent /\ Ended' = Ended
  BY <1>1 DEF InPipe, InChild, Sent, Ended
<1>4. \A j \in Clients : InReply(j)' = InReply(j)
  BY <1>1 DEF InReply
<1>5. /\ Sent \subseteq Request /\ \A r \in Request : r[1] \in Nat
      /\ InPipe \cup InChild \subseteq Request
      /\ \A r \in Request : Pid(r) \in Clients
  BY TypeParts, ChildRequests, LenProperties, ElementOfSeq, DaemonAssumption
     DEF InPipe, PipeType, Request, Pid, Sent, FateType
<1>6. Numbered'
  <2>1. \A r \in Sent' : r[1] <= count'.requests
    BY <1>1, <1>3, <1>5 DEF Rest, Numbered
  <2>2. ASSUME NEW j \in Clients, client'[j].pc # "none"
        PROVE  client'[j].req[1] <= count'.requests
    <3>1. CASE j = k
      BY <1>1, <1>2, <2>2, <3>1
    <3>2. CASE j # k
      <4>1. client[j].req \in Request /\ client[j].req[1] <= count.requests
        BY <1>2, <2>2, <3>2, TypeParts DEF Rest, Numbered, ClientType
      <4> QED
        BY <1>1, <1>2, <1>5, <3>2, <4>1
    <3> QED
      BY <3>1, <3>2
  <2> QED
    BY <2>1, <2>2 DEF Numbered
<1>7. Unsent'
  <2>1. <<count.requests + 1, k>> \notin Sent
    BY <1>1, <1>5 DEF Rest, Numbered
  <2> QED
    BY <1>2, <1>3, <2>1 DEF Rest, Unsent
<1>8. Once' /\ WithOne'
  BY <1>1, <1>3 DEF Rest, Once, WithOne
<1>9. Accounted'
  <2>1. ASSUME NEW j \in Clients, Waits(j)'
        PROVE  Waits(j) /\ client'[j] = client[j]
    BY <1>2, <2>1 DEF Waits
  <2>2. ASSUME NEW j \in Clients, Waits(j)'
        PROVE  client'[j].req \in UNION {InPipe', InChild', InReply(j)', Ended'}
    <3>1. client[j].req \in UNION {InPipe, InChild, InReply(j), Ended}
      BY <2>1, <2>2 DEF Rest, Accounted
    <3> QED
      BY <1>3, <1>4, <2>1, <2>2, <3>1
  <2> QED
    BY <2>2 DEF Accounted
<1>10. WriterHeard'
  <2> SUFFICES ASSUME NEW n \in Procs, child[n].pc = "write",
                      client'[Pid(child[n].req)].req = child[n].req
               PROVE  client'[Pid(child[n].req)].pc = "reading"
    BY <1>1 DEF WriterHeard
  <2>1. child[n].req \in InChild /\ child[n].req # None /\ child[n].req \in Sent
    BY ChildRequests DEF Rest, WithOne, Sent
  <2>2. Pid(child[n].req) # k
    BY <1>2, <2>1, <1>7, <1>3 DEF Unsent
  <2> QED
    BY <1>2, <1>5, <2>1, <2>2 DEF Rest, WriterHeard
<1>11. Answers'
  BY <1>1, <1>2, <1>3, <1>4 DEF Rest, Answers
<1>12. Own'
  <2>1. ASSUME Mine
        PROVE  Mine'
    <3>1. \A q \in InPipe \cup InChild : Pid(q) # k
      BY <1>1, <2>1 DEF Mine, Waits
    <3>2. \A q \in InPipe' \cup InChild' : client'[Pid(q)].req = q /\ Waits(Pid(q))'
      BY <1>2, <1>3, <1>5, <2>1, <3>1 DEF Mine, Waits
    <3>3. InReply(k) = {}
      BY <1>1, TypeParts, EmptySeq DEF Rest, Answers, InReply
    <3>4. \A j \in Clients : \A q \in InReply(j)' : client'[j].req = q
      BY <1>2, <1>4, <2>1, <3>3 DEF Mine
    <3>5. \A j \in Clients : client'[j].pc = "reading" =>
              /\ client'[j].req \notin InPipe'
              /\ \A n \in Procs : child'[n].req = client'[j].req => child'[n].pc = "write"
      BY <1>1, <1>2, <1>3, <2>1 DEF Mine
    <3> QED
      BY <1>1, <2>1, <3>2, <3>4, <3>5 DEF Mine
  <2> QED
    BY <1>1, <2>1 DEF Rest, Own
<1> QED
  BY <1>6, <1>7, <1>8, <1>9, <1>10, <1>11, <1>12 DEF Rest

(* A client puts its request in the pipe, once, or dies for want of a reader. *)
LEMMA WriteSentRest ==
    ASSUME TypeInv, Rest, NEW k \in Clients, client[k].pc = "writing",
           pipe' = Append(pipe, client[k].req), Advance(k, "written"),
           UNCHANGED <<child, reply, count, fate>>
    PROVE  Rest'
PROOF
<1>1. PICK r \in Request : r = client[k].req /\ Pid(r) = k
  BY TypeParts DEF ClientType
<1>2. /\ client'[k].pc = "written"
      /\ \A j \in Clients : client'[j].req = client[j].req /\ (j # k => client'[j] = client[j])
  <2>1. "written" \in ClientSteps /\ client' = [client EXCEPT ![k].pc = "written"]
    BY DEF Advance, ClientSteps
  <2> QED
    BY <2>1, TypeParts, ClientMoves
<1>3. r \notin Sent /\ r \notin InPipe
  BY <1>1 DEF Rest, Unsent, Sent
<1>4. InPipe' = InPipe \cup {r} /\ Injective(pipe')
  <2>1. Elements(pipe) = InPipe /\ Elements(pipe)' = InPipe'
    BY DEF Elements, InPipe
  <2> QED
    BY <1>1, <1>3, <2>1, TypeParts, AppendElements DEF PipeType, Rest, Once
<1>5. InChild' = InChild /\ Sent' = Sent \cup {r} /\ Ended' = Ended
  BY <1>4 DEF InChild, Sent, Ended
<1>6. \A j \in Clients : (j # k => (Waits(j)' <=> Waits(j))) /\ InReply(j)' = InReply(j)
  BY <1>2 DEF Waits, InReply
<1>7. \A j \in Clients \ {k} : client[j].pc # "none" => client[j].req # r
  BY <1>1, TypeParts DEF ClientType
<1>8. Numbered'
  BY <1>1, <1>2, <1>5 DEF Rest, Numbered
<1>9. Unsent'
  BY <1>2, <1>5, <1>7 DEF Rest, Unsent
<1>10. Once' /\ WithOne'
  <2>1. r \notin fate.taken \cup fate.dropped
    BY <1>3 DEF Sent
  <2> QED
    BY <1>4, <1>5, <2>1 DEF Rest, Once, WithOne
<1>11. Accounted'
  <2>1. ASSUME NEW j \in Clients, Waits(j)'
        PROVE  client'[j].req \in UNION {InPipe', InChild', InReply(j)', Ended'}
    <3>1. CASE j = k
      BY <1>1, <1>2, <1>4, <3>1
    <3>2. CASE j # k
      <4>1. client[j].req \in UNION {InPipe, InChild, InReply(j), Ended}
        BY <1>6, <2>1, <3>2 DEF Rest, Accounted
      <4> QED
        BY <1>2, <1>4, <1>5, <1>6, <4>1
    <3> QED
      BY <3>1, <3>2
  <2> QED
    BY <2>1 DEF Accounted
<1>12. WriterHeard'
  <2> SUFFICES ASSUME NEW n \in Procs, child[n].pc = "write",
                      client'[Pid(child[n].req)].req = child[n].req
               PROVE  client'[Pid(child[n].req)].pc = "reading"
    BY DEF WriterHeard
  <2>1. Pid(child[n].req) \in Clients
    BY TypeParts DEF ChildType, Request, Pid
  <2>2. client[Pid(child[n].req)].pc = "reading"
    BY <1>2, <2>1 DEF Rest, WriterHeard
  <2> QED
    BY <1>2, <2>1, <2>2
<1>13. Answers'
  BY <1>2, <1>5, <1>6 DEF Rest, Answers
<1>14. Own'
  <2>1. ASSUME Mine
        PROVE  Mine'
    <3>1. ASSUME NEW q \in InPipe \cup InChild
          PROVE  q \in Request /\ Pid(q) \in Clients /\ Pid(q) # k
      <4>1. q \in Request /\ Pid(q) \in Clients
        BY TypeParts, ChildRequests, LenProperties, ElementOfSeq
           DEF InPipe, PipeType, Request, Pid
      <4>2. Waits(Pid(q))
        BY <2>1 DEF Mine
      <4> QED
        BY <4>1, <4>2 DEF Waits
    <3>2. \A q \in InPipe' \cup InChild' : client'[Pid(q)].req = q /\ Waits(Pid(q))'
      BY <1>1, <1>2, <1>4, <1>5, <1>6, <2>1, <3>1 DEF Mine, Waits
    <3>3. \A j \in Clients : client'[j].pc = "reading" =>
              /\ client'[j].req \notin InPipe'
              /\ \A n \in Procs : child'[n].req = client'[j].req => child'[n].pc = "write"
      BY <1>2, <1>4, <1>7, <2>1 DEF Mine
    <3> QED
      BY <1>2, <1>6, <2>1, <3>2, <3>3 DEF Mine
  <2> QED
    BY <2>1 DEF Rest, Own
<1> QED
  BY <1>8, <1>9, <1>10, <1>11, <1>12, <1>13, <1>14 DEF Rest

(* A client ends.  What it leaves unread goes with it.                        *)
LEMMA EndRest ==
    ASSUME TypeInv, Rest, NEW k \in Clients,
           client' = [client EXCEPT ![k] = NoClient],
           reply' = [reply EXCEPT ![k] = <<>>],
           UNCHANGED <<pipe, child>>, count'.requests = count.requests,
           fate'.taken = fate.taken, fate'.lost = fate.lost,
           fate'.silent = fate.silent, fate'.dropped = fate.dropped,
           Own'
    PROVE  Rest'
PROOF
<1>1. /\ client'[k].pc = "none" /\ client'[k].req = None
      /\ \A j \in Clients \ {k} : client'[j] = client[j]
  BY TypeParts, NoClientType, ClientSet
<1>2. InPipe' = InPipe /\ InChild' = InChild /\ Sent' = Sent /\ Ended' = Ended
  BY DEF InPipe, InChild, Sent, Ended
<1>3. /\ reply'[k] = <<>> /\ InReply(k)' = {}
      /\ \A j \in Clients \ {k} : reply'[j] = reply[j] /\ InReply(j)' = InReply(j)
  BY TypeParts, EmptySeq DEF BackType, InReply
<1>4. Numbered' /\ Unsent' /\ Once' /\ WithOne'
  <2>1. Numbered' /\ Unsent'
    BY <1>1, <1>2 DEF Rest, Numbered, Unsent
  <2> QED
    BY <1>2, <2>1 DEF Rest, Once, WithOne
<1>5. Accounted'
  <2>1. ASSUME NEW j \in Clients, Waits(j)'
        PROVE  client'[j].req \in UNION {InPipe', InChild', InReply(j)', Ended'}
    <3>1. j # k
      BY <1>1, <2>1 DEF Waits
    <3>2. client'[j] = client[j] /\ Waits(j)
      BY <1>1, <2>1, <3>1 DEF Waits
    <3>3. client[j].req \in UNION {InPipe, InChild, InReply(j), Ended}
      BY <3>2 DEF Rest, Accounted
    <3> QED
      BY <1>2, <1>3, <3>1, <3>2, <3>3
  <2> QED
    BY <2>1 DEF Accounted
<1>6. WriterHeard'
  <2> SUFFICES ASSUME NEW n \in Procs, child[n].pc = "write",
                      client'[Pid(child[n].req)].req = child[n].req
               PROVE  client'[Pid(child[n].req)].pc = "reading"
    BY DEF WriterHeard
  <2>1. child[n].req # None /\ Pid(child[n].req) \in Clients
    BY TypeParts DEF ChildType, Request, Pid
  <2>2. Pid(child[n].req) # k
    BY <1>1, <2>1
  <2> QED
    BY <1>1, <2>1, <2>2 DEF Rest, WriterHeard
<1>7. Answers'
  BY <1>1, <1>2, <1>3 DEF Rest, Answers
<1> QED
  BY <1>4, <1>5, <1>6, <1>7 DEF Rest

LEMMA WriteRest ==
    ASSUME TypeInv, Rest, NEW k \in Clients, Write(k)
    PROVE  Rest'
PROOF
<1>1. client[k].pc = "writing" /\ UNCHANGED <<child, reply, count, fate>>
  BY DEF Write, answering
<1>2. CASE pipe' = Append(pipe, client[k].req) /\ Advance(k, "written")
  BY <1>1, <1>2, WriteSentRest
<1>3. CASE client' = [client EXCEPT ![k] = NoClient] /\ pipe' = pipe
  <2>1. reply[k] = <<>> /\ reply' = [reply EXCEPT ![k] = <<>>]
    BY <1>1, TypeParts DEF Rest, Answers, BackType
  <2>2. Own'
    <3>1. ASSUME Mine
          PROVE  Mine'
      <4>1. /\ client'[k].pc = "none"
            /\ \A j \in Clients \ {k} : client'[j] = client[j]
        BY <1>3, TypeParts, NoClientType, ClientSet
      <4>2. \A q \in InPipe \cup InChild : Pid(q) \in Clients /\ Pid(q) # k
        BY <1>1, <3>1, TypeParts, ChildRequests, LenProperties, ElementOfSeq
           DEF InPipe, PipeType, Request, Pid, Mine, Waits
      <4>3. InPipe' = InPipe /\ InChild' = InChild
        BY <1>1, <1>3 DEF InPipe, InChild
      <4>4. \A q \in InPipe' \cup InChild' : client'[Pid(q)].req = q /\ Waits(Pid(q))'
        BY <3>1, <4>1, <4>2, <4>3 DEF Mine, Waits
      <4>5. InReply(k)' = {} /\ \A j \in Clients : InReply(j)' = InReply(j)
        BY <1>1, <2>1, EmptySeq DEF InReply
      <4>6. \A j \in Clients : \A q \in InReply(j)' : client'[j].req = q
        BY <3>1, <4>1, <4>5 DEF Mine
      <4>7. \A j \in Clients : client'[j].pc = "reading" =>
                /\ client'[j].req \notin InPipe'
                /\ \A n \in Procs : child'[n].req = client'[j].req => child'[n].pc = "write"
        BY <1>1, <3>1, <4>1, <4>3 DEF Mine
      <4> QED
        BY <1>1, <3>1, <4>4, <4>6, <4>7 DEF Mine
    <3> QED
      BY <1>1, <3>1 DEF Rest, Own
  <2> QED
    BY <1>1, <1>3, <2>1, <2>2, EndRest
<1> QED
  BY <1>2, <1>3 DEF Write

(* A client reads: if nobody was interrupted it finds the answer of its own   *)
(* child, or the end of the file because its child came to nothing.           *)
LEMMA ReadBackRest ==
    ASSUME TypeInv, Rest, NEW k \in Clients, ReadBack(k)
    PROVE  Rest'
PROOF
<1>1. /\ client[k].pc = "reading"
      /\ reply[k] # <<>> \/ ~ Writer(k)
      /\ reply' = [reply EXCEPT ![k] = <<>>]
      /\ client' = [client EXCEPT ![k] = NoClient]
      /\ UNCHANGED <<pipe, child, count>>
  BY DEF ReadBack
<1>2. /\ fate'.taken = fate.taken /\ fate'.lost = fate.lost
      /\ fate'.silent = fate.silent /\ fate'.dropped = fate.dropped
      /\ \/ fate'.got = fate.got
         \/ /\ reply[k] # <<>>
            /\ fate'.got = fate.got \cup {<<client[k].req, Head(reply[k])>>}
  BY TypeParts DEF ReadBack, FateType
<1>3. reply[k] # <<>> => Head(reply[k]) \in InReply(k)
  <2>1. Elements(reply[k]) = InReply(k)
    BY DEF Elements, InReply
  <2> QED
    BY <2>1, TypeParts, TailElements DEF BackType
<1>4. ASSUME Mine
      PROVE  Mine'
  <2>1. /\ client'[k].pc = "none"
        /\ \A j \in Clients \ {k} : client'[j] = client[j]
    BY <1>1, TypeParts, NoClientType, ClientSet
  <2>2. ASSUME NEW q \in InPipe \cup InChild
        PROVE  q \in Request /\ Pid(q) \in Clients /\ Pid(q) # k
    <3>1. q \in Request /\ Pid(q) \in Clients
      BY TypeParts, ChildRequests, LenProperties, ElementOfSeq
         DEF InPipe, PipeType, Request, Pid
    <3>2. ASSUME Pid(q) = k
          PROVE  FALSE
      <4>1. client[k].req = q /\ q \in InChild
        BY <1>1, <1>4, <3>2 DEF Mine
      <4>2. PICK n \in Procs : child[n].req = q /\ child[n].pc = "write"
        BY <1>1, <1>4, <4>1, ChildRequests DEF Mine
      <4>3. reply[k] # <<>>
        BY <1>1, <3>2, <4>2 DEF Writer
      <4>4. Head(reply[k]) = q /\ q \notin InChild
        BY <1>3, <1>4, <4>1, <4>3 DEF Mine, Rest, Answers
      <4> QED
        BY <4>1, <4>4
    <3> QED
      BY <3>1, <3>2
  <2>3. InPipe' = InPipe /\ InChild' = InChild
    BY <1>1 DEF InPipe, InChild
  <2>4. \A q \in InPipe' \cup InChild' : client'[Pid(q)].req = q /\ Waits(Pid(q))'
    BY <1>4, <2>1, <2>2, <2>3 DEF Mine, Waits
  <2>5. InReply(k)' = {} /\ \A j \in Clients \ {k} : InReply(j)' = InReply(j)
    BY <1>1, TypeParts, EmptySeq DEF InReply, BackType
  <2>6. \A j \in Clients : \A q \in InReply(j)' : client'[j].req = q
    BY <1>4, <2>1, <2>5 DEF Mine
  <2>7. \A j \in Clients : client'[j].pc = "reading" =>
            /\ client'[j].req \notin InPipe'
            /\ \A n \in Procs : child'[n].req = client'[j].req => child'[n].pc = "write"
    BY <1>1, <1>4, <2>1, <2>3 DEF Mine
  <2>8. \A g \in fate'.got : g[1] = g[2]
    BY <1>2, <1>3, <1>4 DEF Mine
  <2> QED
    BY <2>4, <2>6, <2>7, <2>8 DEF Mine
<1>5. Own'
  BY <1>1, <1>4 DEF Rest, Own
<1> QED
  BY <1>1, <1>2, <1>5, EndRest

LEMMA ClientRest ==
    ASSUME TypeInv, Rest, NEW k \in Clients, OpenRequest(k) \/ Client(k) \/ Interrupt(k)
    PROVE  Rest'
PROOF
<1>1. CASE Opened(k)
  BY <1>1, ClientQuiet DEF Opened, Opening, ClientSteps, answering
<1>2. CASE CloseRequest(k)
  BY <1>2, ClientQuiet DEF CloseRequest, ClientSteps, answering
<1>3. CASE MakeBack(k)
  BY <1>3, ClientQuiet DEF MakeBack, ClientSteps
<1>4. CASE Interrupt(k)
  <2>1. count'.requests = count.requests /\ count'.interrupts > 0
    BY <1>4, TypeParts DEF Interrupt, CountType
  <2>2. Own'
    BY <2>1 DEF Own
  <2> QED
    BY <1>4, <2>1, <2>2, EndRest DEF Interrupt
<1> QED
  BY <1>1, <1>2, <1>3, <1>4, OpenRequestRest, WriteRest, ReadBackRest DEF Client

LEMMA NextInv == Inv /\ [Next]_vars => Inv'
PROOF
<1> SUFFICES ASSUME Inv, [Next]_vars
             PROVE  Inv'
  OBVIOUS
<1>1. TypeInv /\ Rest
  BY DEF Inv, Rest
<1>2. TypeInv' /\ Rest' => Inv'
  BY DEF Inv, Rest
<1>3. CASE UnlinkFifo \/ MakeFifo \/ OpenFifo \/ Fork
  BY <1>1, <1>2, <1>3, MainTypes, MainRest
<1>4. CASE Stop
  BY <1>1, <1>2, <1>4, MainTypes, StopRest
<1>5. ASSUME NEW n \in Procs, Child(n)
      PROVE  Inv'
  BY <1>1, <1>2, <1>5, ChildTypes, TakeRest, HandleRest, OpenBackRest, WriteBackRest DEF Child
<1>6. ASSUME NEW k \in Clients, OpenRequest(k) \/ Client(k) \/ Interrupt(k)
      PROVE  Inv'
  BY <1>1, <1>2, <1>6, ClientTypes, ClientRest
<1>7. CASE UNCHANGED vars
  <2>1. TypeInv'
    BY <1>1, <1>7 DEF vars, TypeInv, TypeOK, Running
  <2>2. Rest'
    BY <1>1, <1>7, ChildQuiet DEF vars
  <2> QED
    BY <1>2, <2>1, <2>2
<1> QED
  BY <1>3, <1>4, <1>5, <1>6, <1>7 DEF Next

LEMMA Invariance == Spec => []Inv
PROOF
  BY InitInv, NextInv, PTL DEF Spec

------------------------------------------------------------------------------
(* The theorems.                                                              *)

(* The variables of the daemon and its clients keep their types, and the      *)
(* request pipe holds no more than it can, whoever is forked, killed, started *)
(* again or interrupted.                                                      *)
THEOREM DaemonTypes == Spec => []TypeOK
PROOF
<1>1. Inv => TypeOK
  BY DEF Inv, TypeInv
<1> QED
  BY <1>1, Invariance, PTL

(* The read of the request pipe hands each request to one child, and while a  *)
(* client waits its request is in one place or has come to one of the three   *)
(* ends without an answer: taken by a kill, left by its handler, or answered  *)
(* before the pipe for the answer was made.                                   *)
THEOREM RequestsAccounted == Spec => []RequestAccounted
PROOF
<1>1. Inv => RequestAccounted
  <2> SUFFICES ASSUME Inv
               PROVE  RequestAccounted
    OBVIOUS
  <2>1. Cardinality(InPipe) = Len(pipe)
    <3>1. pipe \in Seq(Request) /\ Injective(pipe) /\ InPipe = Elements(pipe)
      BY PipeElements DEF Inv, TypeInv, TypeOK, Once
    <3> QED
      BY <3>1, InjectiveLen
  <2>2. \A k \in Clients :
          client[k].pc \in {"written", "closed", "listening", "reading"} =>
              client[k].req \in
                  UNION {InPipe, InChild, InReply(k), fate.lost, fate.silent, fate.dropped}
    BY DEF Inv, Accounted, Waits, Ended
  <2> QED
    BY <2>1, <2>2 DEF Inv, Once, WithOne, Ended, RequestAccounted
<1> QED
  BY <1>1, Invariance, PTL

(* The daemon answers to the process id in the request, and process ids come  *)
(* again: still, if no user interrupts a client, every answer that is read    *)
(* is the answer to the request of the client that reads it.                  *)
THEOREM OwnAnswers == Spec => []AnswerIsOwn
PROOF
<1>1. Inv => AnswerIsOwn
  BY DEF Inv, Own, Mine, AnswerIsOwn
<1> QED
  BY <1>1, Invariance, PTL
==============================================================================
