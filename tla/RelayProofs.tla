----------------------------- MODULE RelayProofs -----------------------------
(* Theorems about the relay of TP1, for any number of users, runs, keys,      *)
(* expired certificates and restarts.                                         *)
EXTENDS Relay, SequenceTheorems, WellFoundedInduction, TLAPS

------------------------------------------------------------------------------
(* The type invariant.                                                        *)

(* What the server may have written to a client that asked req.               *)
HasLast(list) == \E x \in list : \A y \in list : y.num <= x.num

Downs(req) ==
    {c \in Chunks :
        /\ c.kind = "cert" => req.cmd = "send"
        /\ c.kind = "mail" => req.cmd = "getmsg"
        /\ c.kind = "list" => HasLast(c.list)}

WiresFor(req) == {w \in Wires : w.down \in Seq(Downs(req))}

TypeInv ==
    /\ client \in Seq(Clients)
    /\ Len(client) <= MaxRuns
    /\ handler \in Seq(Handlers) /\ Len(handler) = Len(client)
    /\ wire \in Seq(Wires) /\ Len(wire) = Len(client)
    /\ \A r \in Started : wire[r] \in WiresFor(client[r].req)
    /\ uids \in [Users -> Certs \cup {None}]
    /\ queue \in [Users -> Seq(Messages)]
    /\ key \in [Users -> 0..MaxKey]
    /\ expired \subseteq Certs
    /\ epoch \in Nat

(* The runs that were started are numbered from 1.                            *)
LEMMA Numbers ==
    ASSUME TypeInv
    PROVE  /\ Started = 1..Len(client) /\ Started \subseteq Runs
           /\ DOMAIN handler = Started /\ DOMAIN wire = Started
           /\ \A r \in Started : /\ client[r] \in Clients
                                 /\ handler[r] \in Handlers
                                 /\ wire[r] \in Wires
  <1>1. Len(client) \in Nat /\ DOMAIN client = 1..Len(client)
    BY LenProperties DEF TypeInv
  <1>2. DOMAIN handler = 1..Len(client) /\ DOMAIN wire = 1..Len(client)
    BY LenProperties DEF TypeInv
  <1>3. \A r \in 1..Len(client) : /\ client[r] \in Clients
                                  /\ handler[r] \in Handlers
                                  /\ wire[r] \in Wires
    BY ElementOfSeq DEF TypeInv
  <1>4. 1..Len(client) \subseteq Runs
    BY <1>1, RelayAssumption DEF TypeInv, Runs, RelayAssumption
  <1>5. QED
    BY <1>1, <1>2, <1>3, <1>4 DEF Started

(* A nonempty set of natural numbers up to k has a last one.                  *)
LEMMA LastNumber ==
    ASSUME NEW k \in Nat, NEW S \in SUBSET (1..k), S # {}
    PROVE  \E m \in S : \A n \in S : n <= m
  <1> DEFINE T == {k - n : n \in S}
  <1>0. \A n \in S : n \in Nat /\ n <= k
    OBVIOUS
  <1>1. T \subseteq Nat /\ T # {}
    <2>1. \A n \in S : k - n \in Nat
      BY <1>0
    <2>2. QED
      BY <2>1
  <1>2. PICK t \in T : \A u \in T : ~ (<<u, t>> \in OpToRel(<, Nat))
    BY <1>1, WFMin, NatLessThanWellFounded
  <1>3. \A u \in T : ~ (u < t)
    BY <1>1, <1>2 DEF OpToRel
  <1>4. PICK m \in S : t = k - m
    OBVIOUS
  <1>5. ASSUME NEW n \in S PROVE n <= m
    <2>1. ~ (k - n < k - m)
      BY <1>3, <1>4
    <2>2. n \in Nat /\ m \in Nat
      BY <1>0
    <2>3. QED
      BY <2>1, <2>2
  <1>6. QED
    BY <1>5

(* What askqueue lists has a last message.                                    *)
Unread(q) == {[num |-> n, msg |-> q[n]] : n \in {m \in DOMAIN q : ~ q[m].read}}

LEMMA UnreadListed ==
    ASSUME NEW q \in Seq(Messages), Unread(q) # {}, NEW req
    PROVE  [kind |-> "list", list |-> Unread(q)] \in Downs(req)
  <1> DEFINE nums == {m \in DOMAIN q : ~ q[m].read}
  <1>1. DOMAIN q = 1..Len(q) /\ Len(q) \in Nat
    BY LenProperties
  <1>2. \A n \in nums : q[n] \in Messages /\ n \in Nat
    BY <1>1, ElementOfSeq
  <1>3. Unread(q) \in SUBSET Listed
    BY <1>2 DEF Listed, Unread
  <1>4. PICK last \in nums : \A n \in nums : n <= last
    <2>1. nums \in SUBSET (1..Len(q)) /\ nums # {}
      BY <1>1 DEF Unread
    <2>2. QED
      BY <1>1, <2>1, LastNumber
  <1>5. HasLast(Unread(q))
    <2> DEFINE top == [num |-> last, msg |-> q[last]]
    <2>1. top \in Unread(q) /\ top.num = last
      BY DEF Unread
    <2>2. ASSUME NEW y \in Unread(q) PROVE y.num <= top.num
      BY <1>4, <2>1 DEF Unread
    <2>3. QED
      BY <2>1, <2>2 DEF HasLast
  <1>6. QED
    BY <1>3, <1>5 DEF Downs, Chunks

(* What is left after a read is a part of what was there.                     *)
LEMMA LeftOver ==
    ASSUME NEW S, NEW s \in Seq(S), NEW t \in AfterRead(s)
    PROVE  t \in Seq(S)
  <1>1. PICK k \in 1..MaxTake : k <= Len(s) /\ t = SubSeq(s, k + 1, Len(s))
    BY DEF AfterRead
  <1>2. k \in Nat /\ Len(s) \in Nat
    BY LenProperties, RelayAssumption DEF RelayAssumption
  <1>3. \A i \in (k + 1)..Len(s) : s[i] \in S
    BY <1>2, ElementOfSeq
  <1>4. QED
    BY <1>1, <1>2, <1>3, SubSeqProperties

(* A client process that goes on, and its end of the wire.                    *)
LEMMA ClientSide ==
    ASSUME TypeInv, NEW r \in Started,
           NEW e \in Clients, e.req = client[r].req,
           NEW w \in WiresFor(client[r].req),
           client' = [client EXCEPT ![r] = e],
           wire' = [wire EXCEPT ![r] = w],
           UNCHANGED <<server, world>>
    PROVE  TypeInv'
  <1>1. /\ client' \in Seq(Clients) /\ Len(client') = Len(client)
        /\ \A s \in Started : client'[s] = IF s = r THEN e ELSE client[s]
    BY Numbers, ExceptSeq DEF TypeInv
  <1>2. Started' = Started
    BY <1>1, LenProperties, Numbers DEF Started
  <1>3. /\ wire' \in Seq(Wires) /\ Len(wire') = Len(wire)
        /\ \A s \in Started : wire'[s] = IF s = r THEN w ELSE wire[s]
    BY Numbers, ExceptSeq DEF TypeInv, WiresFor
  <1>4. \A s \in Started : wire'[s] \in WiresFor(client'[s].req)
    BY <1>1, <1>3 DEF TypeInv
  <1>5. QED
    BY <1>1, <1>2, <1>3, <1>4 DEF TypeInv, server, world

(* A handler that goes on, and its end of the wire.                           *)
LEMMA ServerSide ==
    ASSUME TypeInv, NEW r \in Started,
           NEW h \in Handlers, NEW w \in WiresFor(client[r].req),
           handler' = [handler EXCEPT ![r] = h],
           wire' = [wire EXCEPT ![r] = w],
           uids' \in [Users -> Certs \cup {None}],
           queue' \in [Users -> Seq(Messages)],
           UNCHANGED <<client, world>>
    PROVE  TypeInv'
  <1>1. handler' \in Seq(Handlers) /\ Len(handler') = Len(handler)
    BY Numbers, ExceptSeq DEF TypeInv
  <1>2. Started' = Started
    BY DEF Started
  <1>3. /\ wire' \in Seq(Wires) /\ Len(wire') = Len(wire)
        /\ \A s \in Started : wire'[s] = IF s = r THEN w ELSE wire[s]
    BY Numbers, ExceptSeq DEF TypeInv, WiresFor
  <1>4. \A s \in Started : wire'[s] \in WiresFor(client'[s].req)
    BY <1>3 DEF TypeInv
  <1>5. QED
    BY <1>1, <1>2, <1>3, <1>4 DEF TypeInv, world

(* What a client may be told.                                                 *)
Tolds == {"nothing", "interrupted", "nouid", "queued", "list", "mail", "empty",
          "unknown"}

(* A client that ends with its line feed.                                     *)
LEMMA FinishKeeps ==
    ASSUME TypeInv, NEW r \in Started, NEW told \in Tolds,
           NEW shown \in SUBSET (Nat \X Runs), Finish(r, told, shown),
           UNCHANGED <<server, world>>
    PROVE  TypeInv'
  <1> DEFINE e == [client[r] EXCEPT !.pc = "left", !.told = told, !.shown = shown]
             w == [up |-> Append(wire[r].up, Chunk("lf")), down |-> <<>>, fin |-> "fin"]
  <1>1. client[r] \in Clients /\ wire[r] \in Wires
    BY Numbers
  <1>2. e \in Clients /\ e.req = client[r].req
    BY <1>1 DEF Clients, Tolds
  <1>3. w \in WiresFor(client[r].req)
    <2>1. Chunk("lf") \in Chunks
      BY DEF Chunk, Chunks
    <2>2. Append(wire[r].up, Chunk("lf")) \in Seq(Chunks)
      BY <1>1, <2>1, AppendProperties DEF Wires
    <2>3. QED
      BY <2>2, EmptySeq DEF Wires, WiresFor
  <1>4. client' = [client EXCEPT ![r] = e] /\ wire' = [wire EXCEPT ![r] = w]
    BY DEF Finish
  <1>5. QED
    BY <1>2, <1>3, <1>4, ClientSide

(* The same without a line feed.                                              *)
LEMMA QuitKeeps ==
    ASSUME TypeInv, NEW r \in Started, NEW told \in Tolds,
           NEW last \in Seq(Chunks), NEW unread, Quit(r, told, last, unread),
           UNCHANGED <<server, world>>
    PROVE  TypeInv'
  <1> DEFINE e == [client[r] EXCEPT !.pc = "left", !.told = told]
  <1>1. client[r] \in Clients /\ wire[r] \in Wires
    BY Numbers
  <1>2. e \in Clients /\ e.req = client[r].req
    BY <1>1 DEF Clients, Tolds
  <1>3. PICK f \in {"fin", "reset"} :
           wire' = [wire EXCEPT ![r] =
                      [up |-> wire[r].up \o last, down |-> <<>>, fin |-> f]]
    BY DEF Quit
  <1> DEFINE w == [up |-> wire[r].up \o last, down |-> <<>>, fin |-> f]
  <1>4. w \in WiresFor(client[r].req)
    <2>1. wire[r].up \o last \in Seq(Chunks)
      BY <1>1, ConcatProperties DEF Wires
    <2>2. QED
      BY <2>1, EmptySeq DEF Wires, WiresFor
  <1>5. client' = [client EXCEPT ![r] = e]
    BY DEF Quit
  <1>6. QED
    BY <1>2, <1>3, <1>4, <1>5, ClientSide

(* The same for a client that writes more and reads on.                       *)
LEMMA ProceedKeeps ==
    ASSUME TypeInv, NEW r \in Started, NEW pc \in Waiting,
           NEW more \in Seq(Chunks), Proceed(r, more, pc), wire[r].down # <<>>,
           UNCHANGED <<server, world>>
    PROVE  TypeInv'
  <1> DEFINE e == [client[r] EXCEPT !.pc = pc]
             w == [wire[r] EXCEPT !.up = @ \o more, !.down = Tail(@)]
  <1>1. client[r] \in Clients /\ wire[r] \in WiresFor(client[r].req)
    BY Numbers DEF TypeInv
  <1>2. e \in Clients /\ e.req = client[r].req
    BY <1>1 DEF Clients
  <1>3. w \in WiresFor(client[r].req)
    <2>1. wire[r].up \o more \in Seq(Chunks)
      BY <1>1, ConcatProperties DEF Wires, WiresFor
    <2>2. /\ Tail(wire[r].down) \in Seq(Chunks)
          /\ Tail(wire[r].down) \in Seq(Downs(client[r].req))
      BY <1>1, HeadTailProperties DEF Wires, WiresFor
    <2>3. QED
      BY <1>1, <2>1, <2>2 DEF Wires, WiresFor
  <1>4. client' = [client EXCEPT ![r] = e] /\ wire' = [wire EXCEPT ![r] = w]
    BY DEF Proceed
  <1>5. QED
    BY <1>2, <1>3, <1>4, ClientSide

(* What a client hears.                                                       *)
LEMMA HeardType ==
    ASSUME TypeInv, NEW r \in Started, NEW pc, NEW kind, Hears(r, pc, kind)
    PROVE  /\ Head(wire[r].down) \in Downs(client[r].req)
           /\ Head(wire[r].down) \in Chunks
           /\ wire[r].down # <<>>
           /\ client[r] \in Clients
  <1>1. wire[r].down \in Seq(Downs(client[r].req))
    BY DEF TypeInv, WiresFor
  <1>2. Head(wire[r].down) \in Downs(client[r].req)
    BY <1>1, HeadTailProperties DEF Hears
  <1>3. QED
    BY <1>2, Numbers DEF Hears, Downs

(* Every step of a client.                                                    *)
LEMMA ClientKeeps ==
    ASSUME TypeInv, NEW r \in Started, ClientStep(r) \/ Interrupt(r)
    PROVE  TypeInv'
  <1> DEFINE head == Head(wire[r].down)
             req == client[r].req
  <1>0. /\ client[r] \in Clients /\ r \in Runs /\ key \in [Users -> 0..MaxKey]
        /\ <<>> \in Seq(Chunks)
    BY Numbers, EmptySeq DEF TypeInv
  <1>1. /\ Now(client[r].user) \in Certs
        /\ <<client[r].user, client[r].key>> \in Certs
    BY <1>0 DEF Now, Certs, Clients
  <1>2. CASE ReadReply(r)
    <2> DEFINE signed == [kind |-> "sign", cert |-> Now(client[r].user),
                          by |-> <<client[r].user, client[r].key>>]
    <2>1. signed \in Chunks /\ Chunk("request") \in Chunks
      BY <1>1 DEF Chunks, Chunk
    <2>2. <<signed>> \in Seq(Chunks) /\ <<signed, Chunk("request")>> \in Seq(Chunks)
      BY <2>1
    <2>3. wire[r].down # <<>>
      BY <1>2 DEF ReadReply, Hears
    <2>4. QED
      BY <1>2, <2>2, <2>3, QuitKeeps, ProceedKeeps DEF ReadReply, Tolds, Waiting
  <1>3. CASE ReadCert(r)
    <2> DEFINE mail == [id |-> r, from |-> Now(client[r].user), to |-> head.cert,
                        read |-> FALSE]
               chunk == [kind |-> "mail", msg |-> mail]
    <2>1. head \in Chunks /\ head.kind = "cert" /\ wire[r].down # <<>>
      BY <1>3, HeardType DEF ReadCert, Hears
    <2>2. head.cert \in Certs
      BY <2>1 DEF Chunks
    <2>3. chunk \in Chunks
      BY <1>0, <1>1, <2>2 DEF Chunks, Messages
    <2>4. <<chunk>> \in Seq(Chunks)
      BY <2>3
    <2>5. QED
      BY <1>0, <1>3, <2>1, <2>4, QuitKeeps, ProceedKeeps DEF ReadCert, Tolds, Waiting
  <1>4. CASE ReadNoUid(r)
    BY <1>0, <1>4, QuitKeeps DEF ReadNoUid, Tolds
  <1>5. CASE ReadList(r)
    <2> DEFINE last == Last(head.list)
    <2>1. head \in Chunks /\ head.kind = "list" /\ HasLast(head.list)
      BY <1>5, HeardType DEF ReadList, Hears, Downs
    <2>2. head.list \in SUBSET Listed /\ last \in head.list
      BY <2>1 DEF Chunks, HasLast, Last
    <2>3. {<<last.num, last.msg.id>>} \in SUBSET (Nat \X Runs)
      BY <2>2 DEF Listed, Messages
    <2>4. QED
      BY <1>0, <1>5, <2>3, QuitKeeps, FinishKeeps DEF ReadList, Tolds
  <1>6. CASE ReadMail(r)
    <2>1. head \in Chunks /\ head.kind = "mail" /\ req.cmd = "getmsg"
      BY <1>6, HeardType DEF ReadMail, Hears, Downs
    <2>2. head.msg \in Messages
      BY <2>1 DEF Chunks
    <2>3. req.num \in Nat
      BY <1>0, <2>1, RelayAssumption DEF Clients, Commands, RelayAssumption
    <2>4. {<<req.num, head.msg.id>>} \in SUBSET (Nat \X Runs)
      BY <2>2, <2>3 DEF Messages
    <2>5. QED
      BY <1>0, <1>6, <2>4, QuitKeeps, FinishKeeps DEF ReadMail, Tolds
  <1>7. CASE ReadNothing(r)
    BY <1>7, FinishKeeps DEF ReadNothing, Hears, Tolds
  <1>8. CASE ReadConfirm(r)
    BY <1>8, FinishKeeps DEF ReadConfirm, Tolds
  <1>9. CASE ReadEnd(r) \/ Interrupt(r)
    BY <1>0, <1>9, QuitKeeps DEF ReadEnd, Interrupt, Tolds
  <1>10. QED
    BY <1>2, <1>3, <1>4, <1>5, <1>6, <1>7, <1>8, <1>9 DEF ClientStep

HandlerSteps == Reading \cup {"closed", "dead", "spin"}

(* The wire of a run after the server has read from it.                       *)
Read(r) ==
    \/ UNCHANGED wire
    \/ Take(r) /\ wire[r].up # <<>>
    \/ TakeAll(r)

(* The wire goes on being one for its request.                                *)
LEMMA ReadWire ==
    ASSUME TypeInv, NEW r \in Started, Read(r)
    PROVE  \E w \in WiresFor(client[r].req) : wire' = [wire EXCEPT ![r] = w]
  <1>1. wire[r] \in WiresFor(client[r].req) /\ wire[r] \in Wires
    BY Numbers DEF TypeInv
  <1>2. ASSUME NEW s \in Seq(Chunks)
        PROVE  [wire[r] EXCEPT !.up = s] \in WiresFor(client[r].req)
    BY <1>1, <1>2 DEF Wires, WiresFor
  <1>3. CASE UNCHANGED wire
    BY <1>1, <1>3 DEF TypeInv
  <1>4. CASE Take(r)
    <2>1. PICK s \in AfterRead(wire[r].up) : wire' = [wire EXCEPT ![r].up = s]
      BY <1>4 DEF Take
    <2>2. s \in Seq(Chunks)
      BY <1>1, LeftOver DEF Wires
    <2>3. wire' = [wire EXCEPT ![r] = [wire[r] EXCEPT !.up = s]]
      BY <2>1
    <2>4. QED
      BY <1>2, <2>2, <2>3
  <1>5. CASE TakeAll(r)
    <2>1. wire' = [wire EXCEPT ![r] = [wire[r] EXCEPT !.up = <<>>]]
      BY <1>5 DEF TakeAll
    <2>2. QED
      BY <1>2, <2>1, EmptySeq
  <1>6. QED
    BY <1>3, <1>4, <1>5 DEF Read

(* And after it has written an answer that goes with the request.             *)
LEMMA WrittenWire ==
    ASSUME TypeInv, NEW r \in Started, NEW more \in Seq(Downs(client[r].req)),
           TakeAndWrite(r, more)
    PROVE  \E w \in WiresFor(client[r].req) : wire' = [wire EXCEPT ![r] = w]
  <1>1. wire[r] \in WiresFor(client[r].req) /\ wire[r] \in Wires
    BY Numbers DEF TypeInv
  <1>2. PICK s \in AfterRead(wire[r].up) :
           \E w \in Written([wire[r] EXCEPT !.up = s], more) : wire' = [wire EXCEPT ![r] = w]
    BY DEF TakeAndWrite
  <1> DEFINE v == [wire[r] EXCEPT !.up = s]
  <1>3. v \in WiresFor(client[r].req) /\ v \in Wires
    <2>1. s \in Seq(Chunks)
      BY <1>1, LeftOver DEF Wires
    <2>2. QED
      BY <1>1, <2>1 DEF Wires, WiresFor
  <1>4. ASSUME NEW w \in Written(v, more) PROVE w \in WiresFor(client[r].req)
    <2>1. CASE v.fin = "open"
      <3>1. w = [v EXCEPT !.down = @ \o more]
        BY <1>4, <2>1 DEF Written
      <3>2. /\ v.down \o more \in Seq(Downs(client[r].req))
            /\ v.down \o more \in Seq(Chunks)
        <4>1. more \in Seq(Chunks)
          BY SeqMonotonic DEF Downs
        <4>2. QED
          BY <1>3, <4>1, ConcatProperties DEF WiresFor, Wires
      <3>3. QED
        BY <1>3, <3>1, <3>2 DEF WiresFor, Wires
    <2>2. CASE v.fin # "open"
      <3>1. PICK f \in {v.fin, "reset"} : w = [v EXCEPT !.fin = f]
        BY <1>4, <2>2 DEF Written
      <3>2. QED
        BY <1>3, <3>1 DEF WiresFor, Wires
    <2>3. QED
      BY <2>1, <2>2
  <1>5. QED
    BY <1>2, <1>4

(* A handler that goes on, dies or is closed.                                 *)
LEMMA GoesKeeps ==
    ASSUME TypeInv, NEW r \in Started, NEW pc \in HandlerSteps, NEW known \in BOOLEAN,
           \/ Goes(r, pc) \/ handler' = [handler EXCEPT ![r] = [pc |-> pc, known |-> known]],
           \/ Read(r) \/ \E more \in Seq(Downs(client[r].req)) : TakeAndWrite(r, more),
           uids' \in [Users -> Certs \cup {None}],
           queue' \in [Users -> Seq(Messages)],
           UNCHANGED <<client, world>>
    PROVE  TypeInv'
  <1>1. PICK w \in WiresFor(client[r].req) : wire' = [wire EXCEPT ![r] = w]
    BY ReadWire, WrittenWire
  <1>2. PICK h \in Handlers : handler' = [handler EXCEPT ![r] = h]
    <2>1. handler[r] \in Handlers
      BY Numbers
    <2>2. [handler[r] EXCEPT !.pc = pc] \in Handlers /\ [pc |-> pc, known |-> known] \in Handlers
      BY <2>1 DEF Handlers, HandlerSteps
    <2>3. QED
      BY <2>2 DEF Goes
  <1>3. QED
    BY <1>1, <1>2, ServerSide

(* Every step of a handler.                                                   *)
LEMMA ServerKeeps ==
    ASSUME TypeInv, NEW r \in Started, ServerStep(r)
    PROVE  TypeInv'
  <1> USE DEF HandlerSteps, Reading
  <1> DEFINE req == client[r].req
             u == client[r].user
  <1>1. /\ client[r] \in Clients /\ u \in Users
        /\ uids \in [Users -> Certs \cup {None}]
        /\ queue \in [Users -> Seq(Messages)]
    BY Numbers DEF TypeInv, Clients
  <1>2. ASSUME NEW pc, NEW kind, Reads(r, pc, kind)
        PROVE  /\ Head(wire[r].up) \in Chunks
               /\ Head(wire[r].up).kind = kind
               /\ wire[r].up # <<>>
    <2>1. wire[r].up \in Seq(Chunks)
      BY Numbers DEF Wires
    <2>2. QED
      BY <1>2, <2>1, HeadTailProperties DEF Reads
  <1>3. ASSUME Dies(r), Read(r), UNCHANGED <<client, uids, queue, world>>
        PROVE  TypeInv'
    BY <1>1, <1>3, GoesKeeps DEF Dies
  <1>4. ASSUME NEW c, Answer(r, <<c>>), c \in Downs(req), UNCHANGED <<client, uids, world>>,
               queue' \in [Users -> Seq(Messages)]
        PROVE  TypeInv'
    <2>1. <<c>> \in Seq(Downs(req))
      BY <1>4
    <2>2. QED
      BY <1>1, <1>4, <2>1, GoesKeeps DEF Answer
  <1>5. ASSUME NEW kind \in {"params", "key", "reply", "request", "lf", "nouid", "queued",
                             "empty", "unknown"}
        PROVE  Chunk(kind) \in Downs(req)
    BY DEF Chunk, Chunks, Downs
  <1>6. CASE ReadParams(r)
    BY <1>1, <1>2, <1>6, GoesKeeps DEF ReadParams, Read
  <1>7. CASE NoParams(r) \/ RequestUnknown(r)
    BY <1>3, <1>7 DEF NoParams, RequestUnknown, Read
  <1>8. CASE ReadKey(r)
    <2>1. <<Chunk("reply")>> \in Seq(Downs(req))
      BY <1>5
    <2>2. QED
      BY <1>1, <1>8, <2>1, GoesKeeps DEF ReadKey
  <1>9. CASE ReadSign(r)
    <2> DEFINE cert == Head(wire[r].up).cert
    <2>1. cert \in Certs /\ Read(r)
      BY <1>2, <1>9 DEF ReadSign, Chunks, Read
    <2>2. uids' \in [Users -> Certs \cup {None}] /\ UNCHANGED <<queue, client, world>>
      BY <1>1, <1>9, <2>1 DEF ReadSign, Register
    <2>3. \E pc \in HandlerSteps :
             \/ Goes(r, pc)
             \/ handler' = [handler EXCEPT ![r] = [pc |-> pc, known |-> TRUE]]
      BY <1>9 DEF ReadSign, Dies
    <2>4. QED
      BY <1>1, <2>1, <2>2, <2>3, GoesKeeps
  <1>10. CASE AskQueue(r)
    <2> DEFINE unread == Unread(queue[u])
    <2>1. \/ Answer(r, <<Chunk("empty")>>) /\ UNCHANGED <<client, uids, queue, world>>
          \/ /\ unread # {}
             /\ Answer(r, <<[kind |-> "list", list |-> unread]>>)
             /\ UNCHANGED <<client, uids, queue, world>>
      BY <1>10 DEF AskQueue, Unread
    <2>2. unread # {} => [kind |-> "list", list |-> unread] \in Downs(req)
      BY <1>1, UnreadListed
    <2>3. QED
      BY <1>1, <1>4, <1>5, <2>1, <2>2
  <1>11. CASE GetMsg(r)
    <2> DEFINE num == req.num
               q == queue[u]
               n == Index(q, num)
    <2>1. q \in Seq(Messages) /\ Len(q) \in Nat /\ req.cmd = "getmsg" /\ num \in Nat
      <3>1. req.cmd = "getmsg"
        BY <1>11 DEF GetMsg, Requested
      <3>2. QED
        BY <1>1, <3>1, LenProperties, RelayAssumption
        DEF Clients, Commands, RelayAssumption
    <2>2. CASE num > Len(q)
      <3>1. /\ Answer(r, <<Chunk("unknown")>>) /\ UNCHANGED queue
            /\ UNCHANGED <<client, uids, world>>
        BY <1>11, <2>1, <2>2 DEF GetMsg
      <3>2. QED
        BY <1>1, <1>4, <1>5, <3>1
    <2>3. CASE num <= Len(q) /\ n < 1
      BY <1>3, <1>11, <2>1, <2>3 DEF GetMsg, Read
    <2>4. CASE num <= Len(q) /\ ~ (n < 1)
      <3>1. n \in 1..Len(q)
        BY <2>1, <2>4 DEF Index
      <3>2. q[n] \in Messages
        BY <2>1, <3>1, ElementOfSeq
      <3>3. [kind |-> "mail", msg |-> q[n]] \in Downs(req)
        BY <2>1, <3>2 DEF Downs, Chunks
      <3>4. /\ queue' = [queue EXCEPT ![u][n].read = TRUE]
            /\ Answer(r, <<[kind |-> "mail", msg |-> q[n]]>>)
            /\ UNCHANGED <<client, uids, world>>
        BY <1>11, <2>1, <2>4 DEF GetMsg
      <3>5. [q EXCEPT ![n] = [q[n] EXCEPT !.read = TRUE]] \in Seq(Messages)
        <4>1. [q[n] EXCEPT !.read = TRUE] \in Messages
          BY <3>2 DEF Messages
        <4>2. QED
          BY <2>1, <3>1, <4>1, ExceptSeq
      <3>6. queue' \in [Users -> Seq(Messages)]
        BY <1>1, <3>4, <3>5
      <3>7. QED
        BY <1>4, <3>3, <3>4, <3>6
    <2>5. QED
      BY <2>1, <2>2, <2>3, <2>4
  <1>12. CASE SendToUnknown(r)
    <2>1. <<Chunk("nouid"), Chunk("queued")>> \in Seq(Downs(req))
      BY <1>5
    <2>2. QED
      BY <1>1, <1>12, <2>1, GoesKeeps DEF SendToUnknown, Answer
  <1>13. CASE SendCert(r)
    <2> DEFINE chunk == [kind |-> "cert", cert |-> uids[req.to]]
    <2>1. req.cmd = "send" /\ uids[req.to] # None
      BY <1>13 DEF SendCert, Requested
    <2>2. uids[req.to] \in Certs
      BY <1>1, <2>1 DEF Clients, Commands
    <2>3. <<chunk>> \in Seq(Downs(req))
      BY <2>1, <2>2 DEF Downs, Chunks
    <2>4. QED
      BY <1>1, <1>13, <2>3, GoesKeeps DEF SendCert
  <1>14. CASE StoreMail(r)
    <2>1. Head(wire[r].up).msg \in Messages
      BY <1>2, <1>14 DEF StoreMail, Chunks
    <2>2. queue' \in [Users -> Seq(Messages)]
      BY <1>1, <1>14, <2>1, AppendProperties DEF StoreMail
    <2>3. QED
      BY <1>4, <1>5, <1>14, <2>2 DEF StoreMail
  <1>15. CASE ReadLineFeed(r)
    BY <1>1, <1>2, <1>15, GoesKeeps DEF ReadLineFeed, Read
  <1>16. CASE ReadEof(r)
    BY <1>1, <1>3, <1>16, GoesKeeps DEF ReadEof, Read
  <1>17. CASE ReadReset(r)
    BY <1>3, <1>17 DEF ReadReset, Read
  <1>18. QED
    BY <1>6, <1>7, <1>8, <1>9, <1>10, <1>11, <1>12, <1>13, <1>14, <1>15, <1>16, <1>17
    DEF ServerStep

(* A new run has the next number and a connection of its own.                 *)
LEMMA StartKeeps ==
    ASSUME TypeInv, NEW u \in Users, NEW c \in Commands, Start(u, c)
    PROVE  TypeInv'
  <1> DEFINE e == [user |-> u, req |-> c, key |-> key[u], epoch |-> epoch,
                   pc |-> IF c.cmd = "help" THEN "left" ELSE "reply",
                   told |-> "nothing", shown |-> {}]
             h == [pc |-> "params", known |-> FALSE]
             w == IF c.cmd = "help"
                  THEN [up |-> <<Chunk("lf")>>, down |-> <<>>, fin |-> "fin"]
                  ELSE [up |-> <<Chunk("params"), Chunk("key")>>, down |-> <<>>,
                        fin |-> "open"]
  <1>1. /\ client' = Append(client, e) /\ handler' = Append(handler, h)
        /\ wire' = Append(wire, w) /\ UNCHANGED <<uids, queue, world>>
        /\ Len(client) < MaxRuns
    BY DEF Start
  <1>2. e \in Clients
    BY DEF TypeInv, Clients, Waiting
  <1>3. h \in Handlers
    BY DEF Handlers, Reading
  <1>4. w \in WiresFor(c) /\ w \in Wires
    <2>1. Chunk("lf") \in Chunks /\ Chunk("params") \in Chunks /\ Chunk("key") \in Chunks
      BY DEF Chunk, Chunks
    <2>2. <<Chunk("lf")>> \in Seq(Chunks) /\ <<Chunk("params"), Chunk("key")>> \in Seq(Chunks)
      BY <2>1
    <2>3. <<>> \in Seq(Downs(c)) /\ <<>> \in Seq(Chunks)
      BY EmptySeq
    <2>4. QED
      BY <2>2, <2>3 DEF WiresFor, Wires
  <1>5. /\ client' \in Seq(Clients) /\ Len(client') = Len(client) + 1
        /\ \A s \in 1..Len(client) : client'[s] = client[s]
        /\ client'[Len(client) + 1] = e
    BY <1>1, <1>2, AppendProperties DEF TypeInv
  <1>6. handler' \in Seq(Handlers) /\ Len(handler') = Len(client')
    BY <1>1, <1>3, <1>5, AppendProperties DEF TypeInv
  <1>7. /\ wire' \in Seq(Wires) /\ Len(wire') = Len(client')
        /\ \A s \in 1..Len(client) : wire'[s] = wire[s]
        /\ wire'[Len(client) + 1] = w
    BY <1>1, <1>4, <1>5, AppendProperties DEF TypeInv
  <1>8. Len(client) \in Nat /\ Started = 1..Len(client) /\ Started' = 1..Len(client')
    BY <1>5, LenProperties DEF Started, TypeInv
  <1>9. Len(client') <= MaxRuns
    BY <1>1, <1>5, <1>8, RelayAssumption DEF RelayAssumption
  <1>10. \A s \in Started' : wire'[s] \in WiresFor(client'[s].req)
    <2> SUFFICES ASSUME NEW s \in Started' PROVE wire'[s] \in WiresFor(client'[s].req)
      OBVIOUS
    <2>1. CASE s = Len(client) + 1
      BY <1>4, <1>5, <1>7, <2>1
    <2>2. CASE s \in Started
      BY <1>5, <1>7, <1>8, <2>2 DEF TypeInv
    <2>3. QED
      BY <1>5, <1>8, <2>1, <2>2
  <1>11. QED
    BY <1>1, <1>5, <1>6, <1>7, <1>9, <1>10 DEF TypeInv, world

(* A restart empties what the server holds and what was on its way to it.     *)
LEMMA RestartKeeps ==
    ASSUME TypeInv, Restart
    PROVE  TypeInv'
  <1>1. /\ DOMAIN handler = 1..Len(client) /\ DOMAIN wire = 1..Len(client)
        /\ Len(client) \in Nat /\ Started = 1..Len(client)
        /\ \A r \in 1..Len(client) : handler[r] \in Handlers /\ wire[r] \in Wires
    BY Numbers, LenProperties DEF TypeInv
  <1>2. handler' = [r \in 1..Len(client) |-> [handler[r] EXCEPT !.pc = "closed"]]
    BY <1>1 DEF Restart
  <1>3. wire' = [r \in 1..Len(client) |-> [wire[r] EXCEPT !.up = <<>>]]
    BY <1>1 DEF Restart
  <1>4. handler' \in [1..Len(client) -> Handlers]
    BY <1>1, <1>2 DEF Handlers
  <1>5. handler' \in Seq(Handlers) /\ Len(handler') = Len(client)
    BY <1>1, <1>4
  <1>6. \A r \in 1..Len(client) : wire'[r] \in WiresFor(client[r].req)
    <2> SUFFICES ASSUME NEW r \in 1..Len(client) PROVE wire'[r] \in WiresFor(client[r].req)
      OBVIOUS
    <2>1. wire[r] \in WiresFor(client[r].req) /\ <<>> \in Seq(Chunks)
      BY <1>1, EmptySeq DEF TypeInv
    <2>2. QED
      BY <1>3, <2>1 DEF WiresFor, Wires
  <1>7. wire' \in [1..Len(client) -> Wires]
    BY <1>3, <1>6 DEF WiresFor
  <1>8. wire' \in Seq(Wires) /\ Len(wire') = Len(client)
    BY <1>1, <1>7
  <1>9. client' = client /\ Started' = Started
    BY DEF Restart, Started
  <1>10. /\ uids' \in [Users -> Certs \cup {None}]
         /\ queue' \in [Users -> Seq(Messages)]
         /\ epoch' \in Nat
    BY EmptySeq DEF Restart, TypeInv
  <1>11. UNCHANGED <<key, expired>>
    BY DEF Restart
  <1>12. QED
    BY <1>1, <1>5, <1>6, <1>8, <1>9, <1>10, <1>11 DEF TypeInv

(* Every step keeps the types.                                                *)
LEMMA TypeInvNext == TypeInv /\ [Next]_vars => TypeInv'
  <1> SUFFICES ASSUME TypeInv, [Next]_vars PROVE TypeInv'
    OBVIOUS
  <1>1. ASSUME NEW u \in Users, Renew(u) PROVE TypeInv'
    <2>1. key' \in [Users -> 0..MaxKey]
      BY <1>1, RelayAssumption DEF Renew, TypeInv, RelayAssumption
    <2>2. QED
      BY <1>1, <2>1 DEF Renew, TypeInv, server, Started
  <1>2. ASSUME NEW c \in Certs, Expire(c) PROVE TypeInv'
    BY <1>2 DEF Expire, TypeInv, server, Started
  <1>3. CASE UNCHANGED vars
    BY <1>3 DEF TypeInv, vars, world, Started
  <1>4. QED
    BY <1>1, <1>2, <1>3, StartKeeps, ClientKeeps, ServerKeeps, RestartKeeps DEF Next

(* At the start nobody is connected.                                          *)
LEMMA TypeInvInit == Init => TypeInv
  <1> SUFFICES ASSUME Init PROVE TypeInv
    OBVIOUS
  <1>1. /\ client \in Seq(Clients) /\ handler \in Seq(Handlers) /\ wire \in Seq(Wires)
        /\ Len(client) = 0 /\ Len(handler) = 0 /\ Len(wire) = 0
    BY EmptySeq DEF Init
  <1>2. Started = {}
    BY <1>1, LenProperties DEF Started
  <1>3. queue \in [Users -> Seq(Messages)]
    BY EmptySeq DEF Init
  <1>4. QED
    BY <1>1, <1>2, <1>3, RelayAssumption DEF Init, TypeInv, RelayAssumption

(* Whatever clients ask, renew or interrupt, and whenever the server is       *)
(* started again, runs, tasks, connections and queues keep their shapes.      *)
THEOREM RelayTypes == Spec => []TypeOK
  <1>1. TypeInv => TypeOK
    <2> SUFFICES ASSUME TypeInv PROVE TypeOK
      OBVIOUS
    <2>1. handler \in [Started -> Handlers] /\ wire \in [Started -> Wires]
      BY LenProperties DEF TypeInv, Started
    <2>2. QED
      BY <2>1 DEF TypeInv, TypeOK
  <1>2. QED
    BY <1>1, TypeInvInit, TypeInvNext, PTL DEF Spec

------------------------------------------------------------------------------
(* One key for each queue.  While the server has not closed a connection, the *)
(* certificate on its way to a sender, and the one a message on its way was   *)
(* encrypted for, is the one registered for the addressee.                    *)

KeyDowns(req) == {c \in Downs(req) : c.kind = "cert" => c.cert = uids[req.to]}

KeyUps(req) ==
    {c \in Chunks : c.kind = "mail" => req.cmd = "send" /\ c.msg.to = uids[req.to]}

Keyed(w, req) == w.down \in Seq(KeyDowns(req)) /\ w.up \in Seq(KeyUps(req))

KeyedQueue(u) == {m \in Messages : m.to = uids[u]}

KeyInv ==
    /\ TypeInv
    /\ \A r \in Started : handler[r].pc # "closed" => Keyed(wire[r], client[r].req)
    /\ \A u \in Users : queue[u] \in Seq(KeyedQueue(u))

(* A certificate that is registered is the one that stays.                    *)
Stay == \A u \in Users : uids[u] # None => uids'[u] = uids[u]

(* So the keys that were right stay right.                                    *)
LEMMA KeysStay ==
    ASSUME Stay
    PROVE  /\ \A req \in Commands : \A w : Keyed(w, req) => Keyed(w, req)'
           /\ \A u \in Users : \A q \in Seq(KeyedQueue(u)) : q \in Seq(KeyedQueue(u)')
  <1>1. None \notin Certs
    BY RelayAssumption DEF RelayAssumption, Certs
  <1>2. ASSUME NEW req \in Commands
        PROVE  KeyDowns(req) \subseteq KeyDowns(req)' /\ KeyUps(req) \subseteq KeyUps(req)'
    <2>1. req.cmd = "send" => req.to \in Users
      BY <1>2 DEF Commands
    <2>2. \A c \in Chunks : /\ c.kind = "cert" => c.cert # None
                            /\ c.kind = "mail" => c.msg.to # None
      BY <1>1 DEF Chunks, Messages
    <2>3. QED
      BY <2>1, <2>2 DEF KeyDowns, KeyUps, Downs, Stay
  <1>3. ASSUME NEW u \in Users PROVE KeyedQueue(u) \subseteq KeyedQueue(u)'
    BY <1>1 DEF KeyedQueue, Messages, Stay
  <1>4. ASSUME NEW req \in Commands, NEW down, NEW up,
               down \in Seq(KeyDowns(req)), up \in Seq(KeyUps(req))
        PROVE  down \in Seq(KeyDowns(req)') /\ up \in Seq(KeyUps(req)')
    BY <1>2, <1>4, SeqMonotonic
  <1>5. ASSUME NEW u \in Users, NEW q \in Seq(KeyedQueue(u))
        PROVE  q \in Seq(KeyedQueue(u)')
    BY <1>3, SeqMonotonic
  <1>6. QED
    BY <1>4, <1>5 DEF Keyed

(* A step of one run, which may register a certificate.                       *)
LEMMA KeyStep ==
    ASSUME KeyInv, TypeInv', NEW r \in Started, NEW w,
           Started' = Started,
           \A s \in Started : client'[s].req = client[s].req,
           \A s \in Started : handler'[s].pc # "closed" => handler[s].pc # "closed",
           wire' = [wire EXCEPT ![r] = w],
           handler'[r].pc # "closed" => Keyed(w, client[r].req),
           Stay,
           \A u \in Users : queue'[u] \in Seq(KeyedQueue(u))
    PROVE  KeyInv'
  <1>1. /\ \A s \in Started : wire'[s] = IF s = r THEN w ELSE wire[s]
        /\ \A s \in Started : client[s].req \in Commands
    BY Numbers DEF KeyInv, Clients
  <1>2. ASSUME NEW s \in Started, handler'[s].pc # "closed"
        PROVE  Keyed(wire'[s], client'[s].req)
    BY <1>1, <1>2 DEF KeyInv
  <1>3. ASSUME NEW s \in Started', handler'[s].pc # "closed"
        PROVE  Keyed(wire[s], client[s].req)'
    BY <1>1, <1>2, <1>3, KeysStay
  <1>4. (\A u \in Users : queue[u] \in Seq(KeyedQueue(u)))'
    BY KeysStay
  <1>5. QED
    BY <1>3, <1>4 DEF KeyInv

(* What a client writes after what it has heard.                              *)
LEMMA ClientWrites ==
    ASSUME KeyInv, TypeInv', NEW r \in Started, NEW more, NEW e, NEW w,
           handler[r].pc # "closed" => more \in Seq(KeyUps(client[r].req)),
           client' = [client EXCEPT ![r] = e], e.req = client[r].req,
           wire' = [wire EXCEPT ![r] = w],
           w.up = wire[r].up \o more,
           w.down = <<>> \/ (wire[r].down # <<>> /\ w.down = Tail(wire[r].down)),
           UNCHANGED <<server, world>>
    PROVE  KeyInv'
  <1>1. TypeInv
    BY DEF KeyInv
  <1>2. Started' = Started /\ \A s \in Started : client'[s].req = client[s].req
    BY DEF Started
  <1>3. ASSUME handler[r].pc # "closed" PROVE Keyed(w, client[r].req)
    <2>1. Keyed(wire[r], client[r].req) /\ more \in Seq(KeyUps(client[r].req))
      BY <1>3 DEF KeyInv
    <2>2. w.up \in Seq(KeyUps(client[r].req))
      BY <2>1, ConcatProperties DEF Keyed
    <2>3. w.down \in Seq(KeyDowns(client[r].req))
      BY <2>1, EmptySeq, HeadTailProperties DEF Keyed
    <2>4. QED
      BY <2>2, <2>3 DEF Keyed
  <1>4. \A u \in Users : queue'[u] \in Seq(KeyedQueue(u))
    BY DEF KeyInv, server
  <1>5. QED
    BY <1>2, <1>3, <1>4, KeyStep DEF server, Stay

(* The ends of a client.                                                      *)
LEMMA FinishKeyed ==
    ASSUME KeyInv, TypeInv', NEW r \in Started, NEW told, NEW shown,
           Finish(r, told, shown), UNCHANGED <<server, world>>
    PROVE  KeyInv'
  <1> DEFINE e == [client[r] EXCEPT !.pc = "left", !.told = told, !.shown = shown]
             w == [up |-> Append(wire[r].up, Chunk("lf")), down |-> <<>>, fin |-> "fin"]
  <1>1. client[r] \in Clients /\ wire[r] \in Wires
    BY Numbers DEF KeyInv
  <1>2. client' = [client EXCEPT ![r] = e] /\ wire' = [wire EXCEPT ![r] = w]
    BY DEF Finish
  <1>3. e.req = client[r].req
    BY <1>1 DEF Clients
  <1>4. Chunk("lf") \in KeyUps(client[r].req) /\ Chunk("lf") \in Chunks
    BY DEF Chunk, Chunks, KeyUps
  <1>5. <<Chunk("lf")>> \in Seq(KeyUps(client[r].req))
    BY <1>4
  <1>6. w.up = wire[r].up \o <<Chunk("lf")>> /\ w.down = <<>>
    BY <1>1, <1>4, AppendIsConcat DEF Wires
  <1>7. QED
    BY <1>2, <1>3, <1>5, <1>6, ClientWrites

(* The end without a line feed.                                               *)
LEMMA QuitKeyed ==
    ASSUME KeyInv, TypeInv', NEW r \in Started, NEW told, NEW last, NEW unread,
           last \in Seq(KeyUps(client[r].req)),
           Quit(r, told, last, unread), UNCHANGED <<server, world>>
    PROVE  KeyInv'
  <1> DEFINE e == [client[r] EXCEPT !.pc = "left", !.told = told]
  <1>1. client[r] \in Clients
    BY Numbers DEF KeyInv
  <1>2. PICK f : wire' = [wire EXCEPT ![r] =
                            [up |-> wire[r].up \o last, down |-> <<>>, fin |-> f]]
    BY DEF Quit
  <1> DEFINE w == [up |-> wire[r].up \o last, down |-> <<>>, fin |-> f]
  <1>3. client' = [client EXCEPT ![r] = e] /\ e.req = client[r].req
    BY <1>1 DEF Quit, Clients
  <1>4. w.up = wire[r].up \o last /\ w.down = <<>>
    OBVIOUS
  <1>5. QED
    BY <1>2, <1>3, <1>4, ClientWrites

(* A client that reads on.                                                    *)
LEMMA ProceedKeyed ==
    ASSUME KeyInv, TypeInv', NEW r \in Started, NEW more, NEW pc,
           handler[r].pc # "closed" => more \in Seq(KeyUps(client[r].req)),
           Proceed(r, more, pc), wire[r].down # <<>>, UNCHANGED <<server, world>>
    PROVE  KeyInv'
  <1> DEFINE e == [client[r] EXCEPT !.pc = pc]
             w == [wire[r] EXCEPT !.up = @ \o more, !.down = Tail(@)]
  <1>1. client[r] \in Clients /\ wire[r] \in Wires
    BY Numbers DEF KeyInv
  <1>2. client' = [client EXCEPT ![r] = e] /\ wire' = [wire EXCEPT ![r] = w]
    BY DEF Proceed
  <1>3. e.req = client[r].req /\ w.up = wire[r].up \o more /\ w.down = Tail(wire[r].down)
    BY <1>1 DEF Clients, Wires
  <1>4. QED
    BY <1>2, <1>3, ClientWrites

(* Every step of a client: a message is encrypted for the certificate that    *)
(* came with the answer.                                                      *)
LEMMA ClientKeyed ==
    ASSUME KeyInv, NEW r \in Started, ClientStep(r) \/ Interrupt(r)
    PROVE  KeyInv'
  <1> DEFINE head == Head(wire[r].down)
             req == client[r].req
  <1>0. /\ TypeInv /\ TypeInv'
        /\ client[r] \in Clients /\ r \in Runs /\ key \in [Users -> 0..MaxKey]
        /\ <<>> \in Seq(KeyUps(req))
    BY ClientKeeps, Numbers, EmptySeq DEF KeyInv, TypeInv
  <1>1. /\ Now(client[r].user) \in Certs
        /\ <<client[r].user, client[r].key>> \in Certs
    BY <1>0 DEF Now, Certs, Clients
  <1>2. CASE ReadReply(r)
    <2> DEFINE signed == [kind |-> "sign", cert |-> Now(client[r].user),
                          by |-> <<client[r].user, client[r].key>>]
    <2>1. signed \in KeyUps(req) /\ Chunk("request") \in KeyUps(req)
      BY <1>1 DEF Chunks, Chunk, KeyUps
    <2>2. <<signed>> \in Seq(KeyUps(req)) /\ <<signed, Chunk("request")>> \in Seq(KeyUps(req))
      BY <2>1
    <2>3. wire[r].down # <<>>
      BY <1>2 DEF ReadReply, Hears
    <2>4. QED
      BY <1>0, <1>2, <2>2, <2>3, QuitKeyed, ProceedKeyed DEF ReadReply
  <1>3. CASE ReadCert(r)
    <2> DEFINE mail == [id |-> r, from |-> Now(client[r].user), to |-> head.cert,
                        read |-> FALSE]
               chunk == [kind |-> "mail", msg |-> mail]
    <2>1. head \in Downs(req) /\ head \in Chunks /\ head.kind = "cert" /\ wire[r].down # <<>>
      BY <1>0, <1>3, HeardType DEF ReadCert, Hears
    <2>2. head.cert \in Certs /\ req.cmd = "send"
      BY <2>1 DEF Chunks, Downs
    <2>3. chunk \in Chunks
      BY <1>0, <1>1, <2>2 DEF Chunks, Messages
    <2>4. ASSUME handler[r].pc # "closed" PROVE <<chunk>> \in Seq(KeyUps(req))
      <3>1. wire[r].down \in Seq(KeyDowns(req))
        BY <2>4 DEF KeyInv, Keyed
      <3>2. head \in KeyDowns(req)
        BY <2>1, <3>1, HeadTailProperties
      <3>3. chunk \in KeyUps(req)
        BY <2>1, <2>2, <2>3, <3>2 DEF KeyUps, KeyDowns
      <3>4. QED
        BY <3>3
    <2>5. QED
      BY <1>0, <1>3, <2>1, <2>4, QuitKeyed, ProceedKeyed DEF ReadCert
  <1>4. CASE ReadNoUid(r)
    BY <1>0, <1>4, QuitKeyed DEF ReadNoUid
  <1>5. CASE ReadList(r) \/ ReadMail(r)
    BY <1>0, <1>5, QuitKeyed, FinishKeyed DEF ReadList, ReadMail
  <1>6. CASE ReadNothing(r) \/ ReadConfirm(r)
    BY <1>0, <1>6, FinishKeyed DEF ReadNothing, ReadConfirm
  <1>7. CASE ReadEnd(r) \/ Interrupt(r)
    BY <1>0, <1>7, QuitKeyed DEF ReadEnd, Interrupt
  <1>8. QED
    BY <1>2, <1>3, <1>4, <1>5, <1>6, <1>7 DEF ClientStep

(* The wire after the server has read from it, or has written an answer too.  *)
LEMMA ReadKeyed ==
    ASSUME TypeInv, NEW r \in Started, Read(r)
    PROVE  \E w : /\ wire' = [wire EXCEPT ![r] = w]
                  /\ \A req : Keyed(wire[r], req) => Keyed(w, req)
  <1>1. wire[r] \in Wires
    BY Numbers
  <1>2. CASE UNCHANGED wire
    <2>1. wire \in Seq(Wires) /\ wire' = wire
      BY <1>2 DEF TypeInv
    <2>2. wire' = [wire EXCEPT ![r] = wire[r]]
      BY <2>1
    <2>3. QED
      BY <2>2
  <1>3. CASE Take(r)
    <2>1. PICK s \in AfterRead(wire[r].up) : wire' = [wire EXCEPT ![r].up = s]
      BY <1>3 DEF Take
    <2> DEFINE w == [wire[r] EXCEPT !.up = s]
    <2>2. w.up = s /\ w.down = wire[r].down
      BY <1>1 DEF Wires
    <2>3. ASSUME NEW req, Keyed(wire[r], req) PROVE Keyed(w, req)
      BY <2>2, <2>3, LeftOver DEF Keyed
    <2>4. wire' = [wire EXCEPT ![r] = w]
      BY <2>1
    <2>5. QED
      BY <2>3, <2>4
  <1>4. CASE TakeAll(r)
    <2> DEFINE w == [wire[r] EXCEPT !.up = <<>>]
    <2>1. w.up = <<>> /\ w.down = wire[r].down
      BY <1>1 DEF Wires
    <2>2. ASSUME NEW req, Keyed(wire[r], req) PROVE Keyed(w, req)
      BY <2>1, <2>2, EmptySeq DEF Keyed
    <2>3. wire' = [wire EXCEPT ![r] = w]
      BY <1>4 DEF TakeAll
    <2>4. QED
      BY <2>2, <2>3
  <1>5. QED
    BY <1>2, <1>3, <1>4 DEF Read

(* The same with an answer.                                                   *)
LEMMA WrittenKeyed ==
    ASSUME TypeInv, NEW r \in Started, NEW more, TakeAndWrite(r, more)
    PROVE  \E w : /\ wire' = [wire EXCEPT ![r] = w]
                  /\ \A req : (Keyed(wire[r], req) /\ more \in Seq(KeyDowns(req)))
                                => Keyed(w, req)
  <1>1. wire[r] \in Wires
    BY Numbers
  <1>2. PICK s \in AfterRead(wire[r].up) :
           \E w \in Written([wire[r] EXCEPT !.up = s], more) : wire' = [wire EXCEPT ![r] = w]
    BY DEF TakeAndWrite
  <1> DEFINE v == [wire[r] EXCEPT !.up = s]
  <1>3. PICK w \in Written(v, more) : wire' = [wire EXCEPT ![r] = w]
    BY <1>2
  <1>4. v.up = s /\ v.down = wire[r].down /\ v = [up |-> s, down |-> wire[r].down, fin |-> wire[r].fin]
    BY <1>1 DEF Wires
  <1>5. w.up = s /\ (w.down = wire[r].down \/ w.down = wire[r].down \o more)
    BY <1>4 DEF Written
  <1>6. ASSUME NEW req, Keyed(wire[r], req), more \in Seq(KeyDowns(req))
        PROVE  Keyed(w, req)
    <2>1. wire[r].down \in Seq(KeyDowns(req)) /\ wire[r].up \in Seq(KeyUps(req))
      BY <1>6 DEF Keyed
    <2>2. w.up \in Seq(KeyUps(req))
      BY <1>5, <2>1, LeftOver
    <2>3. w.down \in Seq(KeyDowns(req))
      BY <1>5, <1>6, <2>1, ConcatProperties
    <2>4. QED
      BY <2>2, <2>3 DEF Keyed
  <1>7. QED
    BY <1>3, <1>6

(* A handler that was not closed goes on.                                     *)
LEMMA GoesKeyed ==
    ASSUME KeyInv, TypeInv', NEW r \in Started, handler[r].pc # "closed",
           NEW h, handler' = [handler EXCEPT ![r] = h],
           \/ Read(r)
           \/ \E more \in Seq(KeyDowns(client[r].req)) : TakeAndWrite(r, more),
           Stay, UNCHANGED client,
           \A u \in Users : queue'[u] \in Seq(KeyedQueue(u))
    PROVE  KeyInv'
  <1>1. TypeInv /\ Keyed(wire[r], client[r].req)
    BY DEF KeyInv
  <1>2. PICK w : wire' = [wire EXCEPT ![r] = w] /\ Keyed(w, client[r].req)
    BY <1>1, ReadKeyed, WrittenKeyed
  <1>3. \A s \in Started : handler'[s].pc # "closed" => handler[s].pc # "closed"
    BY <1>1, Numbers
  <1>4. Started' = Started /\ \A s \in Started : client'[s].req = client[s].req
    BY DEF Started
  <1>5. QED
    BY <1>2, <1>3, <1>4, KeyStep

(* Every step of a handler.                                                   *)
LEMMA ServerKeyed ==
    ASSUME KeyInv, NEW r \in Started, ServerStep(r)
    PROVE  KeyInv'
  <1> DEFINE req == client[r].req
             u == client[r].user
             head == Head(wire[r].up)
  <1>0. /\ TypeInv /\ TypeInv' /\ client[r] \in Clients /\ u \in Users
        /\ uids \in [Users -> Certs \cup {None}]
        /\ \A v \in Users : queue[v] \in Seq(KeyedQueue(v))
        /\ queue \in [Users -> Seq(Messages)]
        /\ DOMAIN handler = Started
    BY ServerKeeps, Numbers DEF KeyInv, TypeInv, Clients
  <1>1. handler[r].pc # "closed"
    BY DEF ServerStep, ReadParams, NoParams, ReadKey, ReadSign, RequestUnknown, AskQueue,
           GetMsg, SendToUnknown, SendCert, StoreMail, ReadLineFeed, ReadEof, ReadReset,
           Requested, Reads, Reading
  <1>2. ASSUME NEW pc, NEW kind, Reads(r, pc, kind)
        PROVE  /\ head \in KeyUps(req) /\ head \in Chunks
               /\ head.kind = kind /\ wire[r].up # <<>>
    <2>1. wire[r].up \in Seq(KeyUps(req))
      BY <1>1 DEF KeyInv, Keyed
    <2>2. QED
      BY <1>2, <2>1, HeadTailProperties DEF Reads, KeyUps
  <1>3. ASSUME NEW pc, Goes(r, pc),
               \/ Read(r)
               \/ \E more \in Seq(KeyDowns(client[r].req)) : TakeAndWrite(r, more),
               UNCHANGED <<client, uids>>, \A v \in Users : queue'[v] \in Seq(KeyedQueue(v))
        PROVE  KeyInv'
    <2>1. handler' = [handler EXCEPT ![r] = [handler[r] EXCEPT !.pc = pc]]
      BY <1>3 DEF Goes
    <2>2. Stay
      BY <1>3 DEF Stay
    <2>3. QED
      BY <1>0, <1>1, <1>3, <2>1, <2>2, GoesKeyed
  <1>4. ASSUME Dies(r), Read(r), UNCHANGED <<client, uids, queue, world>>
        PROVE  KeyInv'
    BY <1>0, <1>3, <1>4 DEF Dies
  <1>5. ASSUME NEW c, Answer(r, <<c>>), c \in KeyDowns(req), UNCHANGED <<client, uids, world>>,
               \A v \in Users : queue'[v] \in Seq(KeyedQueue(v))
        PROVE  KeyInv'
    <2>1. <<c>> \in Seq(KeyDowns(req))
      BY <1>5
    <2>2. QED
      BY <1>3, <1>5, <2>1 DEF Answer
  <1>6. ASSUME NEW kind \in {"params", "key", "reply", "request", "lf", "nouid", "queued",
                             "empty", "unknown"}
        PROVE  Chunk(kind) \in KeyDowns(req)
    BY DEF Chunk, Chunks, Downs, KeyDowns
  <1>7. CASE ReadParams(r) \/ ReadLineFeed(r)
    BY <1>0, <1>2, <1>3, <1>7 DEF ReadParams, ReadLineFeed, Read
  <1>8. CASE NoParams(r) \/ RequestUnknown(r) \/ ReadReset(r)
    BY <1>4, <1>8 DEF NoParams, RequestUnknown, ReadReset, Read
  <1>9. CASE ReadEof(r)
    BY <1>0, <1>3, <1>4, <1>9 DEF ReadEof, Read
  <1>10. CASE ReadKey(r)
    <2>1. <<Chunk("reply")>> \in Seq(KeyDowns(req))
      BY <1>6
    <2>2. QED
      BY <1>0, <1>3, <1>10, <2>1 DEF ReadKey
  <1>11. CASE ReadSign(r)
    <2>1. Read(r) /\ UNCHANGED <<client, queue>>
      BY <1>2, <1>11 DEF ReadSign, Read, Register
    <2>2. Stay
      BY <1>0, <1>11 DEF ReadSign, Register, Stay
    <2>3. \E h : handler' = [handler EXCEPT ![r] = h]
      <3>1. ASSUME NEW pc, Goes(r, pc)
            PROVE  handler' = [handler EXCEPT ![r] = [handler[r] EXCEPT !.pc = pc]]
        BY <3>1 DEF Goes
      <3>2. QED
        BY <1>11, <3>1 DEF ReadSign, Dies
    <2>4. QED
      BY <1>0, <1>1, <2>1, <2>2, <2>3, GoesKeyed
  <1>12. CASE AskQueue(r)
    <2> DEFINE unread == Unread(queue[u])
               chunk == [kind |-> "list", list |-> unread]
    <2>1. \/ Answer(r, <<Chunk("empty")>>) /\ UNCHANGED <<client, uids, queue, world>>
          \/ /\ unread # {} /\ Answer(r, <<chunk>>)
             /\ UNCHANGED <<client, uids, queue, world>>
      BY <1>12 DEF AskQueue, Unread
    <2>2. ASSUME unread # {} PROVE chunk \in KeyDowns(req)
      <3>1. chunk \in Downs(req)
        BY <1>0, <2>2, UnreadListed
      <3>2. QED
        BY <3>1 DEF KeyDowns
    <2>3. QED
      BY <1>0, <1>5, <1>6, <2>1, <2>2
  <1>13. CASE GetMsg(r)
    <2> DEFINE num == req.num
               q == queue[u]
               n == Index(q, num)
    <2>1. q \in Seq(Messages) /\ Len(q) \in Nat /\ req.cmd = "getmsg" /\ num \in Nat
      <3>1. req.cmd = "getmsg"
        BY <1>13 DEF GetMsg, Requested
      <3>2. QED
        BY <1>0, <3>1, LenProperties, RelayAssumption
        DEF Clients, Commands, RelayAssumption
    <2>2. CASE num > Len(q)
      <3>1. /\ Answer(r, <<Chunk("unknown")>>) /\ UNCHANGED queue
            /\ UNCHANGED <<client, uids, world>>
        BY <1>13, <2>1, <2>2 DEF GetMsg
      <3>2. QED
        BY <1>0, <1>5, <1>6, <3>1
    <2>3. CASE num <= Len(q) /\ n < 1
      BY <1>4, <1>13, <2>1, <2>3 DEF GetMsg, Read
    <2>4. CASE num <= Len(q) /\ ~ (n < 1)
      <3>1. n \in 1..Len(q)
        BY <2>1, <2>4 DEF Index
      <3>2. q[n] \in KeyedQueue(u) /\ q[n] \in Messages
        BY <1>0, <2>1, <3>1, ElementOfSeq
      <3>3. [kind |-> "mail", msg |-> q[n]] \in KeyDowns(req)
        BY <2>1, <3>2 DEF KeyDowns, Downs, Chunks
      <3>4. /\ queue' = [queue EXCEPT ![u][n].read = TRUE]
            /\ Answer(r, <<[kind |-> "mail", msg |-> q[n]]>>)
            /\ UNCHANGED <<client, uids, world>>
        BY <1>13, <2>1, <2>4 DEF GetMsg
      <3>5. [q EXCEPT ![n] = [q[n] EXCEPT !.read = TRUE]] \in Seq(KeyedQueue(u))
        <4>1. [q[n] EXCEPT !.read = TRUE] \in KeyedQueue(u)
          BY <3>2 DEF Messages, KeyedQueue
        <4>2. QED
          BY <1>0, <2>1, <3>1, <4>1, ExceptSeq
      <3>6. \A v \in Users : queue'[v] \in Seq(KeyedQueue(v))
        BY <1>0, <3>4, <3>5
      <3>7. QED
        BY <1>5, <3>3, <3>4, <3>6
    <2>5. QED
      BY <2>1, <2>2, <2>3, <2>4
  <1>14. CASE SendToUnknown(r)
    <2>1. <<Chunk("nouid"), Chunk("queued")>> \in Seq(KeyDowns(req))
      BY <1>6
    <2>2. QED
      BY <1>0, <1>3, <1>14, <2>1 DEF SendToUnknown, Answer
  <1>15. CASE SendCert(r)
    <2> DEFINE chunk == [kind |-> "cert", cert |-> uids[req.to]]
    <2>1. req.cmd = "send" /\ uids[req.to] # None
      BY <1>15 DEF SendCert, Requested
    <2>2. uids[req.to] \in Certs
      BY <1>0, <2>1 DEF Clients, Commands
    <2>3. <<chunk>> \in Seq(KeyDowns(req))
      BY <2>1, <2>2 DEF KeyDowns, Downs, Chunks
    <2>4. QED
      BY <1>0, <1>3, <1>15, <2>3 DEF SendCert
  <1>16. CASE StoreMail(r)
    <2>1. /\ head.msg \in Messages /\ head.msg.to = uids[req.to]
          /\ req.cmd = "send"
      BY <1>2, <1>16 DEF StoreMail, Chunks, KeyUps
    <2>2. req.to \in Users /\ head.msg \in KeyedQueue(req.to)
      BY <1>0, <2>1 DEF Clients, Commands, KeyedQueue
    <2>3. queue' = [queue EXCEPT ![req.to] = Append(@, head.msg)]
      BY <1>16 DEF StoreMail
    <2>4. Append(queue[req.to], head.msg) \in Seq(KeyedQueue(req.to))
      BY <1>0, <2>2, AppendProperties
    <2>5. \A v \in Users : queue'[v] \in Seq(KeyedQueue(v))
      BY <1>0, <2>2, <2>3, <2>4
    <2>6. QED
      BY <1>5, <1>6, <1>16, <2>5 DEF StoreMail
  <1>17. QED
    BY <1>7, <1>8, <1>9, <1>10, <1>11, <1>12, <1>13, <1>14, <1>15, <1>16 DEF ServerStep

(* A new connection carries no certificate to a sender and no message.        *)
LEMMA StartKeyed ==
    ASSUME KeyInv, NEW u \in Users, NEW c \in Commands, Start(u, c)
    PROVE  KeyInv'
  <1> DEFINE w == IF c.cmd = "help"
                  THEN [up |-> <<Chunk("lf")>>, down |-> <<>>, fin |-> "fin"]
                  ELSE [up |-> <<Chunk("params"), Chunk("key")>>, down |-> <<>>,
                        fin |-> "open"]
  <1>1. TypeInv /\ TypeInv'
    BY StartKeeps DEF KeyInv
  <1>2. /\ \E e : client' = Append(client, e) /\ e.req = c
        /\ handler' = Append(handler, [pc |-> "params", known |-> FALSE])
        /\ wire' = Append(wire, w) /\ UNCHANGED <<uids, queue, world>>
    BY DEF Start
  <1>3. Len(client) \in Nat /\ Started = 1..Len(client)
    BY <1>1, Numbers, LenProperties DEF TypeInv
  <1>4. /\ Started' = 1..(Len(client) + 1)
        /\ \A s \in Started : client'[s] = client[s] /\ handler'[s] = handler[s]
                               /\ wire'[s] = wire[s]
        /\ client'[Len(client) + 1].req = c /\ wire'[Len(client) + 1] = w
    <2>1. PICK e : client' = Append(client, e) /\ e.req = c
      BY <1>2
    <2>2. client \in Seq(Clients) /\ handler \in Seq(Handlers) /\ wire \in Seq(Wires)
      BY <1>1 DEF TypeInv
    <2>3. Len(handler) = Len(client) /\ Len(wire) = Len(client)
      BY <1>1 DEF TypeInv
    <2>4. /\ Len(client') = Len(client) + 1 /\ client'[Len(client) + 1] = e
          /\ client' \in Seq(Clients \cup {e})
          /\ \A s \in 1..Len(client) : client'[s] = client[s]
      <3>1. client \in Seq(Clients \cup {e}) /\ e \in Clients \cup {e}
        BY <2>2, SeqMonotonic
      <3>2. QED
        BY <2>1, <3>1, AppendProperties
    <2>5. \A s \in 1..Len(client) : handler'[s] = handler[s]
      <3> DEFINE h == [pc |-> "params", known |-> FALSE]
      <3>1. handler \in Seq(Handlers \cup {h}) /\ h \in Handlers \cup {h}
        BY <2>2, SeqMonotonic
      <3>2. QED
        BY <1>2, <2>3, <3>1, AppendProperties
    <2>6. /\ wire'[Len(client) + 1] = w
          /\ \A s \in 1..Len(client) : wire'[s] = wire[s]
      <3>1. wire \in Seq(Wires \cup {w}) /\ w \in Wires \cup {w}
        BY <2>2, SeqMonotonic
      <3>2. QED
        BY <1>2, <2>3, <3>1, AppendProperties
    <2>7. Started' = 1..(Len(client) + 1)
      BY <2>4, LenProperties DEF Started
    <2>8. QED
      BY <1>3, <2>1, <2>4, <2>5, <2>6, <2>7
  <1>5. Keyed(w, c)'
    <2>1. \A kind \in {"lf", "params", "key"} : Chunk(kind) \in KeyUps(c)'
      BY DEF Chunk, Chunks, KeyUps
    <2>2. <<Chunk("lf")>> \in Seq(KeyUps(c)') /\ <<Chunk("params"), Chunk("key")>> \in Seq(KeyUps(c)')
      BY <2>1
    <2>3. <<>> \in Seq(KeyDowns(c)')
      BY EmptySeq
    <2>4. QED
      BY <2>2, <2>3 DEF Keyed
  <1>6. Stay /\ queue' = queue
    BY <1>2 DEF Stay
  <1>7. ASSUME NEW s \in Started', handler'[s].pc # "closed"
        PROVE  Keyed(wire[s], client[s].req)'
    <2>1. CASE s = Len(client) + 1
      BY <1>4, <1>5, <2>1
    <2>2. CASE s \in Started
      <3>1. Keyed(wire[s], client[s].req) /\ client[s].req \in Commands
        BY <1>1, <1>4, <1>7, <2>2, Numbers DEF KeyInv, Clients
      <3>2. QED
        BY <1>4, <1>6, <2>2, <3>1, KeysStay
    <2>3. QED
      BY <1>3, <1>4, <1>7, <2>1, <2>2
  <1>8. (\A v \in Users : queue[v] \in Seq(KeyedQueue(v)))'
    BY <1>6, KeysStay DEF KeyInv
  <1>9. QED
    BY <1>1, <1>7, <1>8 DEF KeyInv

(* A restart closes every connection and empties every queue.                 *)
LEMMA RestartKeyed ==
    ASSUME KeyInv, Restart
    PROVE  KeyInv'
  <1>1. TypeInv'
    BY RestartKeeps DEF KeyInv
  <1>2. DOMAIN handler = Started /\ \A r \in Started : handler[r] \in Handlers
    BY Numbers DEF KeyInv
  <1>3. Started' = Started
    BY DEF Restart, Started
  <1>4. \A r \in Started' : handler'[r].pc = "closed"
    BY <1>2, <1>3 DEF Restart, Handlers
  <1>5. (\A u \in Users : queue[u] \in Seq(KeyedQueue(u)))'
    BY EmptySeq DEF Restart
  <1>6. QED
    BY <1>1, <1>4, <1>5 DEF KeyInv

(* Every step keeps the keys.                                                 *)
LEMMA KeyInvNext == KeyInv /\ [Next]_vars => KeyInv'
  <1> SUFFICES ASSUME KeyInv, [Next]_vars PROVE KeyInv'
    OBVIOUS
  <1>1. TypeInv'
    BY TypeInvNext DEF KeyInv
  <1>2. ASSUME UNCHANGED <<client, handler, wire, uids, queue>> PROVE KeyInv'
    BY <1>1, <1>2 DEF KeyInv, Keyed, KeyDowns, KeyUps, KeyedQueue, Started
  <1>3. ASSUME NEW u \in Users, Renew(u) PROVE KeyInv'
    BY <1>2, <1>3 DEF Renew, server
  <1>4. ASSUME NEW c \in Certs, Expire(c) PROVE KeyInv'
    BY <1>2, <1>4 DEF Expire, server
  <1>5. CASE UNCHANGED vars
    BY <1>2, <1>5 DEF vars
  <1>6. QED
    BY <1>3, <1>4, <1>5, StartKeyed, ClientKeyed, ServerKeyed, RestartKeyed DEF Next

(* At the start nothing is stored and nobody is connected.                    *)
LEMMA KeyInvInit == Init => KeyInv
  <1> SUFFICES ASSUME Init PROVE KeyInv
    OBVIOUS
  <1>1. Started = {}
    BY DEF Init, Started
  <1>2. \A u \in Users : queue[u] \in Seq(KeyedQueue(u))
    BY EmptySeq DEF Init
  <1>3. QED
    BY <1>1, <1>2, TypeInvInit DEF KeyInv

(* Whoever registers, renews or sends meanwhile, and however often the server *)
(* is started again, what waits in a queue is encrypted for the certificate   *)
(* now registered for its owner.                                              *)
THEOREM OneKey == Spec => []OneKeyPerQueue
  <1>1. KeyInv => OneKeyPerQueue
    <2> SUFFICES ASSUME KeyInv, NEW u \in Users, NEW n \in DOMAIN queue[u]
                 PROVE  queue[u][n].to = uids[u]
      BY DEF OneKeyPerQueue
    <2>1. queue[u] \in Seq(KeyedQueue(u))
      BY DEF KeyInv
    <2>2. queue[u][n] \in KeyedQueue(u)
      BY <2>1, LenProperties, ElementOfSeq
    <2>3. QED
      BY <2>2 DEF KeyedQueue
  <1>2. QED
    BY <1>1, KeyInvInit, KeyInvNext, PTL DEF Spec
==============================================================================
