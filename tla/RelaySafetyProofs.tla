-------------------------- MODULE RelaySafetyProofs --------------------------
(* What the clients of the relay of TP1 are told and shown is true, for any   *)
(* number of users, runs, keys, expired certificates and restarts.            *)
EXTENDS RelayMailboxProofs

------------------------------------------------------------------------------
(* What is on a wire, and where client and handler are then.                  *)
One(s, kind) == Len(s) = 1 /\ s[1].kind = kind
Two(s, first, second) == Len(s) = 2 /\ s[1].kind = first /\ s[2].kind = second

Over == {"closed", "dead"}
Completed == {"queued", "list", "mail", "empty", "unknown"}
Plain == {"list", "mail", "empty", "unknown"}

Answered(down) == (\E kind \in Plain : One(down, kind)) \/ Two(down, "nouid", "queued")

(* The client waits for the server's part of the handshake ...                *)
TalkReply(h, w) ==
    \/ h.pc = "params" /\ Two(w.up, "params", "key") /\ w.down = <<>>
    \/ h.pc = "key" /\ (w.up = <<>> \/ One(w.up, "key")) /\ w.down = <<>>
    \/ h.pc = "sign" /\ w.up = <<>> /\ One(w.down, "reply")
    \/ h.pc \in Over /\ (w.down = <<>> \/ One(w.down, "reply"))

(* ... for the answer to its request ...                                      *)
TalkAnswer(h, w) ==
    \/ h.pc = "sign" /\ Two(w.up, "sign", "request") /\ w.down = <<>>
    \/ h.pc = "request" /\ (w.up = <<>> \/ One(w.up, "request")) /\ w.down = <<>>
    \/ h.pc = "request" /\ w.up = <<>> /\ Answered(w.down)
    \/ h.pc = "message" /\ w.up = <<>> /\ One(w.down, "cert")
    \/ h.pc \in Over /\ (w.down = <<>> \/ Answered(w.down) \/ One(w.down, "cert"))

(* ... and for the confirmation that its message is stored.                   *)
TalkConfirm(h, w) ==
    \/ h.pc = "message" /\ One(w.up, "mail") /\ w.down = <<>>
    \/ h.pc = "request" /\ w.up = <<>> /\ One(w.down, "queued")
    \/ h.pc \in Over /\ (w.down = <<>> \/ One(w.down, "queued"))

(* A client that ran to its end left its line feed and nothing before it.     *)
TalkLeft(c, h, w) ==
    /\ w.down = <<>> /\ w.fin # "open"
    /\ c.told \in Completed => (h.pc = "request" /\ One(w.up, "lf")) \/ h.pc \in Over
    /\ c.told = "nouid" => (h.pc \in {"request", "spin"} /\ w.up = <<>>) \/ h.pc \in Over

Talk(c, h, w) ==
    /\ c.pc # "left" => w.fin = "open" /\ c.told = "nothing" /\ c.shown = {}
    /\ c.pc = "reply" => TalkReply(h, w)
    /\ c.pc = "answer" => TalkAnswer(h, w)
    /\ c.pc = "confirm" => TalkConfirm(h, w)
    /\ c.pc = "left" => TalkLeft(c, h, w)

(* A handler without a key of its client has answered nothing but its own     *)
(* part of the handshake.                                                     *)
Unknown(c, h, w) ==
    ~ h.known =>
        /\ h.pc # "message" /\ c.pc # "confirm"
        /\ w.down = <<>> \/ One(w.down, "reply")
        /\ c.told \in {"nothing", "interrupted"}

(* A restart ends all handlers of its time.                                   *)
Timely(c, h) == c.epoch <= epoch /\ (c.epoch # epoch => h.pc = "closed")

Local(r) ==
    /\ Talk(client[r], handler[r], wire[r])
    /\ Unknown(client[r], handler[r], wire[r])
    /\ Timely(client[r], handler[r])

(* What clients were told, or will read, of the storing of their message.     *)
Stored(r) ==
    /\ /\ client[r].epoch = epoch
       /\ client[r].told = "queued" \/ (client[r].pc = "confirm" /\ wire[r].down # <<>>)
       => r \in IdsOf(client[r].req.to)
    /\ client[r].pc = "confirm" \/ client[r].told = "queued" => client[r].req.cmd = "send"
    /\ client[r].told = "nouid" \/ ~ handler[r].known => \A u \in Users : r \notin IdsOf(u)

(* Which message has which number, as clients were shown it or will read it.  *)
Pending(c, w) ==
    IF w.down = <<>> THEN {}
    ELSE CASE Head(w.down).kind = "list" -> {<<x.num, x.msg.id>> : x \in Head(w.down).list}
           [] Head(w.down).kind = "mail" -> {<<c.req.num, Head(w.down).msg.id>>}
           [] OTHER -> {}

Claims(r) == client[r].shown \cup Pending(client[r], wire[r])

(* They agree with the queue, and with each other when it is gone.            *)
Numbered(r) ==
    client[r].epoch = epoch =>
        \A x \in Claims(r) : x[1] >= 1 =>
            /\ x[1] \in DOMAIN queue[client[r].user]
            /\ queue[client[r].user][x[1]].id = x[2]

Agree(a, g) ==
    client[a].user = client[g].user /\ client[a].epoch = client[g].epoch =>
        \A x \in Claims(a), y \in Claims(g) : x[1] = y[1] /\ x[1] >= 1 => x[2] = y[2]

(* A list has no number zero; only a getmsg may ask for it.                   *)
Positive(r) ==
    client[r].told = "list" \/ (wire[r].down # <<>> /\ Head(wire[r].down).kind = "list")
        => \A x \in Claims(r) : x[1] >= 1

(* A message that is marked was fetched, by number n or as the last one.      *)
Fetches(r, u, n) ==
    /\ client[r].user = u /\ client[r].epoch = epoch
    /\ client[r].req.cmd = "getmsg"
    /\ client[r].req.num \in {n, 0}
    /\ \/ \E x \in client[r].shown : x[2] = queue[u][n].id
       \/ /\ wire[r].down # <<>>
          /\ Head(wire[r].down) =
               [kind |-> "mail", msg |-> [queue[u][n] EXCEPT !.read = FALSE]]
       \/ /\ client[r].told \in {"nothing", "interrupted"} /\ client[r].pc = "left"

Fetched ==
    \A u \in Users : \A n \in DOMAIN queue[u] :
        queue[u][n].read => \E r \in Started : Fetches(r, u, n)

RunSafe(r) == Local(r) /\ Stored(r) /\ Numbered(r) /\ Positive(r)

SafeInv ==
    /\ FreshInv /\ KeyInv
    /\ \A r \in Started : RunSafe(r)
    /\ \A a, g \in Started : Agree(a, g)
    /\ Fetched

------------------------------------------------------------------------------
(* Short sequences of chunks.                                                 *)

LEMMA ShortSeqs ==
    ASSUME NEW S, NEW s \in Seq(S), NEW a, NEW b
    PROVE  /\ One(s, a) => s # <<>> /\ Head(s).kind = a /\ Tail(s) = <<>>
           /\ Two(s, a, b) => s # <<>> /\ Head(s).kind = a /\ One(Tail(s), b)
           /\ ~ (One(s, a) /\ Two(s, a, b))
<1>1. Len(s) \in Nat /\ Len(<<>>) = 0
  BY LenProperties
<1>2. s # <<>> => /\ Head(s) = s[1] /\ Tail(s) \in Seq(S) /\ Len(Tail(s)) = Len(s) - 1
                  /\ \A i \in 1..Len(Tail(s)) : Tail(s)[i] = s[i + 1]
  BY HeadTailProperties
<1>3. s = <<>> <=> Len(s) = 0
  BY EmptySeq
<1>4. s # <<>> => (Tail(s) = <<>> <=> Len(Tail(s)) = 0)
  BY <1>2, EmptySeq
<1> QED
  BY <1>1, <1>2, <1>3, <1>4 DEF One, Two

(* What a read leaves of them.                                                *)
LEMMA ShortReads ==
    ASSUME NEW S, NEW s \in Seq(S), NEW t \in AfterRead(s), NEW a, NEW b
    PROVE  /\ t \in Seq(S) /\ s # <<>>
           /\ One(s, a) => t = <<>>
           /\ Two(s, a, b) => t = <<>> \/ One(t, b)
<1>1. PICK k \in 1..MaxTake : k <= Len(s) /\ t = SubSeq(s, k + 1, Len(s))
  BY DEF AfterRead
<1>2. k \in Nat /\ k >= 1 /\ Len(s) \in Nat /\ Len(<<>>) = 0
  BY LenProperties, RelayAssumption
<1>3. \A i \in (k + 1)..Len(s) : s[i] \in S
  BY <1>2, ElementOfSeq
<1>4. /\ t \in Seq(S)
      /\ Len(t) = (IF k + 1 <= Len(s) THEN Len(s) - (k + 1) + 1 ELSE 0)
      /\ \A i \in 1..(Len(s) - (k + 1) + 1) : t[i] = s[(k + 1) + i - 1]
  BY <1>1, <1>2, <1>3, SubSeqProperties
<1>5. t = <<>> <=> Len(t) = 0
  BY <1>4, EmptySeq
<1>6. s # <<>>
  BY <1>1, <1>2
<1>7. One(s, a) => t = <<>>
  BY <1>1, <1>2, <1>4, <1>5 DEF One
<1>8. ASSUME Two(s, a, b)
      PROVE  t = <<>> \/ One(t, b)
  <2>1. CASE k = 1
    <3>1. Len(t) = 1 /\ t[1] = s[2]
      BY <1>2, <1>4, <1>8, <2>1 DEF Two
    <3> QED
      BY <1>8, <3>1 DEF One, Two
  <2>2. CASE k # 1
    BY <1>1, <1>2, <1>4, <1>5, <1>8, <2>2 DEF Two
  <2> QED
    BY <2>1, <2>2
<1> QED
  BY <1>4, <1>6, <1>7, <1>8

(* What is written on a wire that was read.                                   *)
LEMMA ShortWrites ==
    ASSUME NEW c \in Chunks, NEW d \in Chunks
    PROVE  /\ <<>> \o <<>> = <<>>
           /\ <<>> \o <<c>> = <<c>> /\ <<>> \o <<c, d>> = <<c, d>>
           /\ Append(<<>>, c) = <<c>>
           /\ One(<<c>>, c.kind) /\ Two(<<c, d>>, c.kind, d.kind)
           /\ Head(<<c>>) = c
<1>1. One(<<c>>, c.kind) /\ Two(<<c, d>>, c.kind, d.kind) /\ Head(<<c>>) = c
  BY DEF One, Two
<1>2. <<c>> \in Seq(Chunks) /\ <<c, d>> \in Seq(Chunks) /\ <<>> \in Seq(Chunks)
  BY EmptySeq
<1>3. /\ <<>> \o <<>> = <<>> /\ <<>> \o <<c>> = <<c>> /\ <<>> \o <<c, d>> = <<c, d>>
  BY <1>2, ConcatEmptySeq
<1>4. Append(<<>>, c) = <<c>>
  BY <1>2, <1>3, AppendIsConcat
<1> QED
  BY <1>1, <1>3, <1>4

------------------------------------------------------------------------------
(* What a step does to its run.  All other runs stay as they are.             *)

Others(r) ==
    /\ Started' = Started
    /\ \A s \in Started \ {r} :
          client'[s] = client[s] /\ handler'[s] = handler[s] /\ wire'[s] = wire[s]

SameRun(r) ==
    /\ client'[r].user = client[r].user /\ client'[r].req = client[r].req
    /\ client'[r].epoch = client[r].epoch

(* The ends of a client, and a client that goes on.                           *)
LEMMA FinishEffect ==
    ASSUME TypeInv, NEW r \in Started, NEW told, NEW shown, Finish(r, told, shown),
           UNCHANGED <<server, world>>
    PROVE  /\ Others(r) /\ SameRun(r) /\ handler'[r] = handler[r]
           /\ client'[r].pc = "left" /\ client'[r].told = told /\ client'[r].shown = shown
           /\ wire'[r].up = Append(wire[r].up, Chunk("lf"))
           /\ wire'[r].down = <<>> /\ wire'[r].fin = "fin"
<1>1. /\ client[r] \in Clients /\ wire[r] \in Wires /\ r \in DOMAIN client
      /\ r \in DOMAIN wire /\ DOMAIN client = Started /\ DOMAIN wire = Started
  BY Numbers DEF Started
<1> DEFINE e == [client[r] EXCEPT !.pc = "left", !.told = told, !.shown = shown]
           w == [up |-> Append(wire[r].up, Chunk("lf")), down |-> <<>>, fin |-> "fin"]
<1>2. client' = [client EXCEPT ![r] = e] /\ wire' = [wire EXCEPT ![r] = w]
  BY DEF Finish
<1>3. /\ e.pc = "left" /\ e.told = told /\ e.shown = shown /\ e.user = client[r].user
      /\ e.req = client[r].req /\ e.epoch = client[r].epoch
  BY <1>1 DEF Clients
<1>4. /\ client'[r] = e /\ wire'[r] = w /\ DOMAIN client' = DOMAIN client
      /\ \A s \in Started \ {r} : client'[s] = client[s] /\ wire'[s] = wire[s]
  BY <1>1, <1>2
<1> HIDE DEF e
<1> QED
  BY <1>1, <1>3, <1>4 DEF Others, SameRun, Started, server

(* One that fails, or returns early.                                          *)
LEMMA QuitEffect ==
    ASSUME TypeInv, NEW r \in Started, NEW told, NEW last, NEW unread,
           Quit(r, told, last, unread), UNCHANGED <<server, world>>
    PROVE  /\ Others(r) /\ SameRun(r) /\ handler'[r] = handler[r]
           /\ client'[r].pc = "left" /\ client'[r].told = told
           /\ client'[r].shown = client[r].shown
           /\ wire'[r].up = wire[r].up \o last
           /\ wire'[r].down = <<>> /\ wire'[r].fin \in {"fin", "reset"}
<1>1. /\ client[r] \in Clients /\ r \in DOMAIN client /\ r \in DOMAIN wire
      /\ DOMAIN client = Started /\ DOMAIN wire = Started
  BY Numbers DEF Started
<1>2. PICK f \in {"fin", "reset"} :
         wire' = [wire EXCEPT ![r] = [up |-> wire[r].up \o last, down |-> <<>>, fin |-> f]]
  BY DEF Quit
<1> DEFINE e == [client[r] EXCEPT !.pc = "left", !.told = told]
           w == [up |-> wire[r].up \o last, down |-> <<>>, fin |-> f]
<1>3. client' = [client EXCEPT ![r] = e]
  BY DEF Quit
<1>4. /\ e.pc = "left" /\ e.told = told /\ e.shown = client[r].shown
      /\ e.user = client[r].user /\ e.req = client[r].req /\ e.epoch = client[r].epoch
  BY <1>1 DEF Clients
<1>5. /\ client'[r] = e /\ wire'[r] = w /\ DOMAIN client' = DOMAIN client
      /\ \A s \in Started \ {r} : client'[s] = client[s] /\ wire'[s] = wire[s]
  BY <1>1, <1>2, <1>3
<1> HIDE DEF e
<1> QED
  BY <1>1, <1>4, <1>5 DEF Others, SameRun, Started, server

(* One that writes more and waits.                                            *)
LEMMA ProceedEffect ==
    ASSUME TypeInv, NEW r \in Started, NEW more, NEW pc, Proceed(r, more, pc),
           UNCHANGED <<server, world>>
    PROVE  /\ Others(r) /\ SameRun(r) /\ handler'[r] = handler[r]
           /\ client'[r].pc = pc /\ client'[r].told = client[r].told
           /\ client'[r].shown = client[r].shown
           /\ wire'[r].up = wire[r].up \o more
           /\ wire'[r].down = Tail(wire[r].down) /\ wire'[r].fin = wire[r].fin
<1>1. /\ client[r] \in Clients /\ wire[r] \in Wires /\ r \in DOMAIN client
      /\ r \in DOMAIN wire /\ DOMAIN client = Started /\ DOMAIN wire = Started
  BY Numbers DEF Started
<1> DEFINE e == [client[r] EXCEPT !.pc = pc]
           w == [wire[r] EXCEPT !.up = @ \o more, !.down = Tail(@)]
<1>2. client' = [client EXCEPT ![r] = e] /\ wire' = [wire EXCEPT ![r] = w]
  BY DEF Proceed
<1>3. /\ e.pc = pc /\ e.told = client[r].told /\ e.shown = client[r].shown
      /\ e.user = client[r].user /\ e.req = client[r].req /\ e.epoch = client[r].epoch
  BY <1>1 DEF Clients
<1>4. w.up = wire[r].up \o more /\ w.down = Tail(wire[r].down) /\ w.fin = wire[r].fin
  BY <1>1 DEF Wires
<1>5. /\ client'[r] = e /\ wire'[r] = w /\ DOMAIN client' = DOMAIN client
      /\ \A s \in Started \ {r} : client'[s] = client[s] /\ wire'[s] = wire[s]
  BY <1>1, <1>2
<1> HIDE DEF e, w
<1> QED
  BY <1>1, <1>3, <1>4, <1>5 DEF Others, SameRun, Started, server

(* A handler that reads, and one that reads and writes.                       *)
TookSome(r) ==
    /\ wire'[r].up \in AfterRead(wire[r].up)
    /\ wire'[r].down = wire[r].down /\ wire'[r].fin = wire[r].fin

TookAll(r) ==
    /\ wire'[r].up = <<>>
    /\ wire'[r].down = wire[r].down /\ wire'[r].fin = wire[r].fin

Wrote(r, more) ==
    /\ wire'[r].up \in AfterRead(wire[r].up)
    /\ \/ /\ wire[r].fin = "open" /\ wire'[r].fin = "open"
          /\ wire'[r].down = wire[r].down \o more
       \/ /\ wire[r].fin # "open" /\ wire'[r].fin # "open"
          /\ wire'[r].down = wire[r].down

(* What the three kinds of reading do to the wire.                            *)
LEMMA TakeEffect ==
    ASSUME TypeInv, NEW r \in Started
    PROVE  /\ Take(r) => TookSome(r)
           /\ TakeAll(r) => TookAll(r)
           /\ \A more : TakeAndWrite(r, more) => Wrote(r, more)
<1>1. wire[r] \in Wires /\ r \in DOMAIN wire
  BY Numbers
<1>2. ASSUME NEW t
      PROVE  /\ [wire[r] EXCEPT !.up = t].up = t
             /\ [wire[r] EXCEPT !.up = t].down = wire[r].down
             /\ [wire[r] EXCEPT !.up = t].fin = wire[r].fin
  BY <1>1 DEF Wires
<1>3. ASSUME Take(r)
      PROVE  TookSome(r)
  <2>1. PICK t \in AfterRead(wire[r].up) : wire' = [wire EXCEPT ![r].up = t]
    BY <1>3 DEF Take
  <2>2. wire'[r] = [wire[r] EXCEPT !.up = t]
    BY <1>1, <2>1
  <2> QED
    BY <1>2, <2>2 DEF TookSome
<1>4. ASSUME TakeAll(r)
      PROVE  TookAll(r)
  <2>1. wire'[r] = [wire[r] EXCEPT !.up = <<>>]
    BY <1>1, <1>4 DEF TakeAll
  <2> QED
    BY <1>2, <2>1 DEF TookAll
<1>5. ASSUME NEW more, TakeAndWrite(r, more)
      PROVE  Wrote(r, more)
  <2>1. PICK t \in AfterRead(wire[r].up) :
           \E w \in Written([wire[r] EXCEPT !.up = t], more) : wire' = [wire EXCEPT ![r] = w]
    BY <1>5 DEF TakeAndWrite
  <2> DEFINE v == [wire[r] EXCEPT !.up = t]
  <2>2. PICK w \in Written(v, more) : wire' = [wire EXCEPT ![r] = w]
    BY <2>1
  <2>3. wire'[r] = w
    BY <1>1, <2>2
  <2>4. v.up = t /\ v.down = wire[r].down /\ v.fin = wire[r].fin
    BY <1>2
  <2>5. /\ DOMAIN v = {"up", "down", "fin"} /\ v = [v EXCEPT !.up = v.up]
    BY <1>1 DEF Wires
  <2> HIDE DEF v
  <2>6. CASE v.fin = "open"
    <3>1. w = [v EXCEPT !.down = v.down \o more]
      BY <2>2, <2>6 DEF Written
    <3>2. w.down = v.down \o more /\ w.up = v.up /\ w.fin = v.fin
      BY <2>5, <3>1
    <3> QED
      BY <2>1, <2>3, <2>4, <2>6, <3>2 DEF Wrote
  <2>7. CASE v.fin # "open"
    <3>1. PICK f \in {v.fin, "reset"} : w = [v EXCEPT !.fin = f]
      BY <2>2, <2>7 DEF Written
    <3>2. w.down = v.down /\ w.up = v.up /\ w.fin = f
      BY <2>5, <3>1
    <3> QED
      BY <2>1, <2>3, <2>4, <2>7, <3>1, <3>2 DEF Wrote
  <2> QED
    BY <2>6, <2>7
<1> QED
  BY <1>3, <1>4, <1>5

(* What becomes of a handler.                                                 *)
LEMMA GoesEffect ==
    ASSUME TypeInv, NEW r \in Started, NEW pc
    PROVE  /\ Goes(r, pc) => /\ handler'[r].pc = pc
                             /\ handler'[r].known = handler[r].known
           /\ handler' = [handler EXCEPT ![r] = [pc |-> pc, known |-> TRUE]] =>
                 handler'[r].pc = pc /\ handler'[r].known = TRUE
<1>1. handler[r] \in Handlers /\ r \in DOMAIN handler
  BY Numbers
<1>2. ASSUME Goes(r, pc)
      PROVE  handler'[r].pc = pc /\ handler'[r].known = handler[r].known
  <2>1. handler'[r] = [handler[r] EXCEPT !.pc = pc]
    BY <1>1, <1>2 DEF Goes
  <2> QED
    BY <1>1, <2>1 DEF Handlers
<1> QED
  BY <1>1, <1>2

(* No step of a handler touches another run.                                  *)
LEMMA ServerOthers ==
    ASSUME TypeInv, NEW r \in Started, ServerStep(r)
    PROVE  Others(r) /\ client' = client /\ UNCHANGED world
<1>1. DOMAIN handler = Started /\ DOMAIN wire = Started
  BY Numbers
<1>2. client' = client /\ UNCHANGED world
  BY DEF ServerStep, ReadParams, NoParams, ReadKey, ReadSign, RequestUnknown, AskQueue,
     GetMsg, SendToUnknown, SendCert, StoreMail, ReadLineFeed, ReadEof, ReadReset
<1>3. PICK w : wire' = [wire EXCEPT ![r] = w]
  BY UpAfter
<1>4. \E h : handler' = [handler EXCEPT ![r] = h]
  <2>1. ASSUME NEW pc, Goes(r, pc)
        PROVE  \E h : handler' = [handler EXCEPT ![r] = h]
    BY <2>1 DEF Goes
  <2>2. ASSUME NEW more, Answer(r, more)
        PROVE  \E h : handler' = [handler EXCEPT ![r] = h]
    BY <2>1, <2>2 DEF Answer
  <2>3. ASSUME Dies(r)
        PROVE  \E h : handler' = [handler EXCEPT ![r] = h]
    BY <2>1, <2>3 DEF Dies
  <2>4. CASE ReadParams(r) \/ NoParams(r) \/ ReadKey(r) \/ ReadSign(r) \/ RequestUnknown(r)
             \/ SendCert(r) \/ ReadLineFeed(r) \/ ReadEof(r) \/ ReadReset(r)
    BY <2>1, <2>3, <2>4 DEF ReadParams, NoParams, ReadKey, ReadSign, RequestUnknown, SendCert,
       ReadLineFeed, ReadEof, ReadReset
  <2>5. CASE AskQueue(r) \/ GetMsg(r) \/ SendToUnknown(r) \/ StoreMail(r)
    BY <2>2, <2>3, <2>5 DEF AskQueue, GetMsg, SendToUnknown, StoreMail
  <2> QED
    BY <2>4, <2>5 DEF ServerStep
<1> QED
  BY <1>1, <1>2, <1>3, <1>4 DEF Others, Started

------------------------------------------------------------------------------
(* Where client and handler are: steps of the client.                         *)

(* What a client hears tells where its handler is.                            *)
LEMMA Heard ==
    ASSUME TypeInv, NEW r \in Started, Local(r), NEW pc, NEW kind, Hears(r, pc, kind)
    PROVE  /\ kind # "reply" => handler[r].known
           /\ pc = "reply" =>
                 /\ Tail(wire[r].down) = <<>>
                 /\ (handler[r].pc = "sign" /\ wire[r].up = <<>>) \/ handler[r].pc \in Over
           /\ pc = "answer" /\ kind \in Plain \cup {"nouid"} =>
                 (handler[r].pc = "request" /\ wire[r].up = <<>>) \/ handler[r].pc \in Over
           /\ pc = "answer" /\ kind = "cert" =>
                 /\ Tail(wire[r].down) = <<>>
                 /\ (handler[r].pc = "message" /\ wire[r].up = <<>>)
                    \/ handler[r].pc \in Over
           /\ pc = "confirm" =>
                 (handler[r].pc = "request" /\ wire[r].up = <<>>) \/ handler[r].pc \in Over
<1> DEFINE h == handler[r]
           w == wire[r]
<1>1. w.down \in Seq(Chunks)
  BY Numbers DEF Wires
<1>2. client[r].pc = pc /\ w.down # <<>> /\ Head(w.down).kind = kind
  BY DEF Hears
<1>3. \A a : One(w.down, a) => Head(w.down).kind = a /\ Tail(w.down) = <<>>
  BY <1>1, ShortSeqs
<1>4. \A a, b : Two(w.down, a, b) => Head(w.down).kind = a
  BY <1>1, ShortSeqs
<1>5. Talk(client[r], h, w) /\ Unknown(client[r], h, w)
  BY DEF Local
<1> HIDE DEF h, w
<1>6. kind # "reply" => h.known
  BY <1>2, <1>3, <1>5 DEF Unknown
<1>7. ASSUME pc = "reply"
      PROVE  Tail(w.down) = <<>> /\ ((h.pc = "sign" /\ w.up = <<>>) \/ h.pc \in Over)
  BY <1>2, <1>3, <1>5, <1>7 DEF Talk, TalkReply
<1>8. ASSUME pc = "answer"
      PROVE  /\ kind \in Plain \cup {"nouid"} =>
                   (h.pc = "request" /\ w.up = <<>>) \/ h.pc \in Over
             /\ kind = "cert" => /\ Tail(w.down) = <<>>
                                 /\ (h.pc = "message" /\ w.up = <<>>) \/ h.pc \in Over
  <2>1. TalkAnswer(h, w)
    BY <1>2, <1>5, <1>8 DEF Talk
  <2>2. Answered(w.down) => kind \in Plain \cup {"nouid"}
    BY <1>2, <1>3, <1>4 DEF Answered
  <2>3. "cert" \notin Plain \cup {"nouid"}
    BY DEF Plain
  <2> QED
    BY <1>2, <1>3, <2>1, <2>2, <2>3 DEF TalkAnswer
<1>9. ASSUME pc = "confirm"
      PROVE  (h.pc = "request" /\ w.up = <<>>) \/ h.pc \in Over
  BY <1>2, <1>5, <1>9 DEF Talk, TalkConfirm
<1> QED
  BY <1>6, <1>7, <1>8, <1>9 DEF h, w

(* A client that ends with its line feed.                                     *)
LEMMA FinishLocal ==
    ASSUME TypeInv, NEW r \in Started, Local(r), NEW told \in Completed, NEW shown,
           Finish(r, told, shown), UNCHANGED <<server, world>>,
           handler[r].known,
           (handler[r].pc = "request" /\ wire[r].up = <<>>) \/ handler[r].pc \in Over
    PROVE  Local(r)'
<1>1. /\ SameRun(r) /\ handler'[r] = handler[r]
      /\ client'[r].pc = "left" /\ client'[r].told = told
      /\ wire'[r].up = Append(wire[r].up, Chunk("lf"))
      /\ wire'[r].down = <<>> /\ wire'[r].fin = "fin" /\ epoch' = epoch
  BY FinishEffect DEF world
<1>2. Chunk("lf") \in Chunks /\ Chunk("lf").kind = "lf"
  BY DEF Chunk, Chunks
<1>3. wire[r].up = <<>> => One(wire'[r].up, "lf")
  BY <1>1, <1>2, ShortWrites
<1>4. told # "nouid"
  BY DEF Completed
<1>5. Talk(client[r], handler[r], wire[r])'
  BY <1>1, <1>3, <1>4 DEF Talk, TalkLeft
<1>6. Unknown(client[r], handler[r], wire[r])'
  BY <1>1 DEF Unknown
<1>7. Timely(client[r], handler[r])'
  BY <1>1 DEF Timely, Local, SameRun
<1> QED
  BY <1>5, <1>6, <1>7 DEF Local

(* One that ends without it: it may have read the refusal, and nothing else.  *)
LEMMA QuitLocal ==
    ASSUME TypeInv, NEW r \in Started, Local(r), client[r].pc # "left", NEW told,
           NEW last, NEW unread, Quit(r, told, last, unread), UNCHANGED <<server, world>>,
           \/ told \in {"nothing", "interrupted"}
           \/ /\ told = "nouid" /\ last = <<>> /\ handler[r].known
              /\ (handler[r].pc = "request" /\ wire[r].up = <<>>) \/ handler[r].pc \in Over
    PROVE  Local(r)'
<1>1. /\ SameRun(r) /\ handler'[r] = handler[r]
      /\ client'[r].pc = "left" /\ client'[r].told = told
      /\ wire'[r].up = wire[r].up \o last
      /\ wire'[r].down = <<>> /\ wire'[r].fin \in {"fin", "reset"} /\ epoch' = epoch
  BY QuitEffect DEF world
<1>2. /\ told \notin Completed
      /\ told = "nouid" => (handler[r].pc = "request" /\ wire'[r].up = <<>>)
                           \/ handler[r].pc \in Over
  <2>1. <<>> \o <<>> = <<>>
    BY ShortWrites DEF Chunks
  <2> QED
    BY <1>1, <2>1 DEF Completed
<1>3. Talk(client[r], handler[r], wire[r])'
  BY <1>1, <1>2 DEF Talk, TalkLeft
<1>4. Unknown(client[r], handler[r], wire[r])'
  BY <1>1 DEF Unknown, Local
<1>5. Timely(client[r], handler[r])'
  BY <1>1 DEF Timely, Local, SameRun
<1> QED
  BY <1>3, <1>4, <1>5 DEF Local
(* Every step of a client.                                                    *)
LEMMA ClientLocal ==
    ASSUME TypeInv, NEW r \in Started, Local(r), ClientStep(r) \/ Interrupt(r)
    PROVE  Local(r)'
<1> DEFINE head == Head(wire[r].down)
<1>0. /\ client[r] \in Clients /\ r \in Runs /\ key \in [Users -> 0..MaxKey]
      /\ wire[r] \in Wires
  BY Numbers DEF TypeInv
<1>1. ASSUME NEW pc, NEW kind, Hears(r, pc, kind)
      PROVE  client[r].pc = pc
  BY <1>1 DEF Hears
<1>2. CASE ReadReply(r)
  <2> DEFINE signed == [kind |-> "sign", cert |-> Now(client[r].user),
                        by |-> <<client[r].user, client[r].key>>]
             more == <<signed, Chunk("request")>>
  <2>1. Hears(r, "reply", "reply")
    BY <1>2 DEF ReadReply
  <2>2. CASE Quit(r, "nothing", <<signed>>, <<>>)
    BY <1>1, <1>2, <2>1, <2>2, QuitLocal DEF ReadReply
  <2>3. CASE Proceed(r, more, "answer")
    <3>1. /\ SameRun(r) /\ handler'[r] = handler[r]
          /\ client'[r].pc = "answer" /\ client'[r].told = client[r].told
          /\ client'[r].shown = client[r].shown
          /\ wire'[r].up = wire[r].up \o more
          /\ wire'[r].down = Tail(wire[r].down) /\ wire'[r].fin = wire[r].fin
          /\ epoch' = epoch
      <4>1. UNCHANGED <<server, world>>
        BY <1>2 DEF ReadReply
      <4> HIDE DEF more
      <4> QED
        BY <2>3, <4>1, ProceedEffect DEF world
    <3>2. signed \in Chunks /\ Chunk("request") \in Chunks
      BY <1>0 DEF Chunks, Chunk, Now, Certs, Clients
    <3>3. Two(more, "sign", "request")
      BY DEF Two, Chunk
    <3>4. <<>> \o more = more
      BY <3>2, ShortWrites
    <3>5. /\ Tail(wire[r].down) = <<>>
          /\ (handler[r].pc = "sign" /\ wire[r].up = <<>>) \/ handler[r].pc \in Over
      BY <2>1, Heard
    <3> HIDE DEF more
    <3>6. Talk(client[r], handler[r], wire[r])'
      BY <1>1, <2>1, <3>1, <3>3, <3>4, <3>5 DEF Talk, TalkAnswer, Local
    <3>7. Unknown(client[r], handler[r], wire[r])'
      BY <3>1, <3>5 DEF Unknown, Local, Over
    <3>8. Timely(client[r], handler[r])'
      BY <3>1 DEF Timely, Local, SameRun
    <3> QED
      BY <3>6, <3>7, <3>8 DEF Local
  <2> QED
    BY <1>2, <2>2, <2>3 DEF ReadReply
<1>3. CASE ReadCert(r)
  <2> DEFINE mail == [id |-> r, from |-> Now(client[r].user), to |-> head.cert,
                      read |-> FALSE]
             chunk == [kind |-> "mail", msg |-> mail]
  <2>1. Hears(r, "answer", "cert")
    BY <1>3 DEF ReadCert
  <2>2. CASE Quit(r, "nothing", <<>>, <<>>)
    BY <1>1, <1>3, <2>1, <2>2, QuitLocal DEF ReadCert
  <2>3. CASE Proceed(r, <<chunk>>, "confirm")
    <3>1. /\ SameRun(r) /\ handler'[r] = handler[r]
          /\ client'[r].pc = "confirm" /\ client'[r].told = client[r].told
          /\ client'[r].shown = client[r].shown
          /\ wire'[r].up = wire[r].up \o <<chunk>>
          /\ wire'[r].down = Tail(wire[r].down) /\ wire'[r].fin = wire[r].fin
          /\ epoch' = epoch
      <4>1. UNCHANGED <<server, world>>
        BY <1>3 DEF ReadCert
      <4>2. PICK sent : sent = <<chunk>>
        OBVIOUS
      <4>3. Proceed(r, sent, "confirm")
        BY <2>3, <4>2
      <4> HIDE DEF chunk
      <4>4. /\ SameRun(r) /\ handler'[r] = handler[r]
            /\ client'[r].pc = "confirm" /\ client'[r].told = client[r].told
            /\ client'[r].shown = client[r].shown
            /\ wire'[r].up = wire[r].up \o sent
            /\ wire'[r].down = Tail(wire[r].down) /\ wire'[r].fin = wire[r].fin
        BY <4>1, <4>3, ProceedEffect
      <4> QED
        BY <4>1, <4>2, <4>4 DEF world
    <3>2. chunk \in Chunks /\ chunk.kind = "mail"
      <4>1. head \in Chunks /\ head.kind = "cert"
        BY <2>1, HeardType DEF Hears
      <4>2. head.cert \in Certs
        BY <4>1 DEF Chunks
      <4> QED
        BY <1>0, <4>2 DEF Chunks, Now, Certs, Clients, Messages
    <3> HIDE DEF chunk
    <3>3. One(<<chunk>>, "mail") /\ <<>> \o <<chunk>> = <<chunk>>
      BY <3>2, ShortWrites
    <3>4. /\ Tail(wire[r].down) = <<>> /\ handler[r].known
          /\ (handler[r].pc = "message" /\ wire[r].up = <<>>) \/ handler[r].pc \in Over
      BY <2>1, Heard
    <3>5. Talk(client[r], handler[r], wire[r])'
      BY <1>1, <2>1, <3>1, <3>3, <3>4 DEF Talk, TalkConfirm, Local
    <3>6. Unknown(client[r], handler[r], wire[r])'
      BY <3>1, <3>4 DEF Unknown
    <3>7. Timely(client[r], handler[r])'
      BY <3>1 DEF Timely, Local, SameRun
    <3> QED
      BY <3>5, <3>6, <3>7 DEF Local
  <2> QED
    BY <1>3, <2>2, <2>3 DEF ReadCert
<1>4. CASE ReadNoUid(r)
  <2>1. /\ Hears(r, "answer", "nouid") /\ UNCHANGED <<server, world>>
        /\ \E told \in {"nouid", "nothing"} : \E rest : Quit(r, told, <<>>, rest)
    BY <1>4 DEF ReadNoUid
  <2>2. /\ handler[r].known
        /\ (handler[r].pc = "request" /\ wire[r].up = <<>>) \/ handler[r].pc \in Over
    BY <2>1, Heard
  <2> QED
    BY <1>1, <2>1, <2>2, QuitLocal
<1>5. CASE ReadList(r)
  <2>1. Hears(r, "answer", "list") /\ UNCHANGED <<server, world>>
    BY <1>5 DEF ReadList
  <2>2. /\ handler[r].known
        /\ (handler[r].pc = "request" /\ wire[r].up = <<>>) \/ handler[r].pc \in Over
    BY <2>1, Heard DEF Plain
  <2>3. "list" \in Completed
    BY DEF Completed
  <2> QED
    BY <1>1, <1>5, <2>1, <2>2, <2>3, QuitLocal, FinishLocal DEF ReadList
<1>6. CASE ReadMail(r)
  <2>1. Hears(r, "answer", "mail") /\ UNCHANGED <<server, world>>
    BY <1>6 DEF ReadMail
  <2>2. /\ handler[r].known
        /\ (handler[r].pc = "request" /\ wire[r].up = <<>>) \/ handler[r].pc \in Over
    BY <2>1, Heard DEF Plain
  <2>3. "mail" \in Completed
    BY DEF Completed
  <2> QED
    BY <1>1, <1>6, <2>1, <2>2, <2>3, QuitLocal, FinishLocal DEF ReadMail
<1>7. CASE ReadNothing(r)
  <2>1. PICK kind \in {"empty", "unknown"} : Hears(r, "answer", kind)
    BY <1>7 DEF ReadNothing
  <2>2. /\ handler[r].known
        /\ (handler[r].pc = "request" /\ wire[r].up = <<>>) \/ handler[r].pc \in Over
    BY <2>1, Heard DEF Plain
  <2>3. kind \in Completed /\ Finish(r, kind, {}) /\ UNCHANGED <<server, world>>
    BY <1>7, <2>1 DEF ReadNothing, Hears, Completed
  <2> QED
    BY <2>2, <2>3, FinishLocal
<1>8. CASE ReadConfirm(r)
  <2>1. Hears(r, "confirm", "queued") /\ Finish(r, "queued", {}) /\ UNCHANGED <<server, world>>
    BY <1>8 DEF ReadConfirm
  <2>2. /\ handler[r].known
        /\ (handler[r].pc = "request" /\ wire[r].up = <<>>) \/ handler[r].pc \in Over
    BY <2>1, Heard
  <2>3. "queued" \in Completed
    BY DEF Completed
  <2> QED
    BY <2>1, <2>2, <2>3, FinishLocal
<1>9. CASE ReadEnd(r) \/ Interrupt(r)
  <2>1. client[r].pc # "left" /\ UNCHANGED <<server, world>>
    BY <1>9 DEF ReadEnd, Interrupt, Waiting
  <2> QED
    BY <1>9, <2>1, QuitLocal DEF ReadEnd, Interrupt
<1> QED
  BY <1>2, <1>3, <1>4, <1>5, <1>6, <1>7, <1>8, <1>9 DEF ClientStep
------------------------------------------------------------------------------
(* Where client and handler are: steps of the server.                         *)

(* A client that ended early, as far as its user was told.                    *)
Early(c) == c.told \notin Completed \cup {"nouid"}

(* What a handler reads tells where its client is.                            *)
LEMMA Served ==
    ASSUME TypeInv, NEW r \in Started, Local(r), NEW pc \in Reading, NEW kind, Reads(r, pc, kind)
    PROVE  /\ handler[r].pc = pc /\ wire[r].down = <<>>
           /\ (wire[r].fin = "open") <=> (client[r].pc # "left")
           /\ client[r].pc = "left" =>
                 \/ Early(client[r])
                 \/ client[r].told # "nouid" /\ pc = "request" /\ kind = "lf"
           /\ client[r].pc # "left" =>
                 \/ /\ pc = "params" /\ kind = "params" /\ client[r].pc = "reply"
                    /\ Two(wire[r].up, "params", "key")
                 \/ pc = "key" /\ client[r].pc = "reply" /\ One(wire[r].up, "key")
                 \/ /\ pc = "sign" /\ client[r].pc = "answer"
                    /\ Two(wire[r].up, "sign", "request")
                 \/ /\ pc = "request" /\ kind = "request" /\ client[r].pc = "answer"
                    /\ One(wire[r].up, "request")
                 \/ pc = "message" /\ client[r].pc = "confirm" /\ One(wire[r].up, "mail")
<1>1. wire[r].up \in Seq(Chunks) /\ client[r] \in Clients
  BY Numbers DEF Wires
<1>2. handler[r].pc = pc /\ wire[r].up # <<>> /\ Head(wire[r].up).kind = kind
  BY DEF Reads
<1>3. \A a : One(wire[r].up, a) => kind = a
  BY <1>1, <1>2, ShortSeqs
<1>4. \A a, b : Two(wire[r].up, a, b) => kind = a
  BY <1>1, <1>2, ShortSeqs
<1>5. Talk(client[r], handler[r], wire[r])
  BY DEF Local
<1>6. pc \notin Over
  BY DEF Over, Reading
<1>7. CASE client[r].pc = "reply"
  BY <1>2, <1>3, <1>4, <1>5, <1>6, <1>7 DEF Talk, TalkReply
<1>8. CASE client[r].pc = "answer"
  BY <1>2, <1>3, <1>4, <1>5, <1>6, <1>8 DEF Talk, TalkAnswer
<1>9. CASE client[r].pc = "confirm"
  BY <1>2, <1>3, <1>4, <1>5, <1>6, <1>9 DEF Talk, TalkConfirm
<1>10. CASE client[r].pc = "left"
  BY <1>2, <1>3, <1>4, <1>5, <1>6, <1>10 DEF Talk, TalkLeft, Early, Completed
<1> QED
  BY <1>1, <1>7, <1>8, <1>9, <1>10 DEF Clients, Waiting
(* A handler that goes on while its client has left.                          *)
LEMMA LeftLocal ==
    ASSUME NEW r \in Started, Local(r), client' = client, UNCHANGED world,
           client[r].pc = "left", handler[r].pc # "closed",
           wire'[r].down = <<>>, wire'[r].fin # "open",
           ~ handler'[r].known => ~ handler[r].known /\ handler'[r].pc # "message",
           \/ handler'[r].pc \in Over
           \/ Early(client[r])
           \/ client[r].told = "nouid" /\ handler'[r].pc = "spin" /\ wire'[r].up = <<>>
    PROVE  Local(r)'
<1>1. client'[r] = client[r] /\ epoch' = epoch
  BY DEF world
<1>2. Talk(client[r], handler[r], wire[r])'
  BY <1>1 DEF Talk, TalkLeft, Early, Completed
<1>3. Unknown(client[r], handler[r], wire[r])'
  BY <1>1 DEF Unknown, Local
<1>4. Timely(client[r], handler[r])'
  BY <1>1 DEF Timely, Local
<1> QED
  BY <1>2, <1>3, <1>4 DEF Local

(* The same while its client waits.                                           *)
LEMMA WaitsLocal ==
    ASSUME NEW r \in Started, Local(r), client' = client, UNCHANGED world,
           client[r].pc \in Waiting, handler[r].pc # "closed", wire'[r].fin = "open",
           client[r].pc = "reply" => TalkReply(handler[r], wire[r])',
           client[r].pc = "answer" => TalkAnswer(handler[r], wire[r])',
           client[r].pc = "confirm" => TalkConfirm(handler[r], wire[r])',
           ~ handler'[r].known => /\ ~ handler[r].known /\ handler'[r].pc # "message"
                                  /\ wire'[r].down = <<>> \/ One(wire'[r].down, "reply")
    PROVE  Local(r)'
<1>1. client'[r] = client[r] /\ epoch' = epoch /\ client[r].pc # "left"
  BY DEF world, Waiting
<1>2. Talk(client[r], handler[r], wire[r])'
  BY <1>1 DEF Talk, Local
<1>3. Unknown(client[r], handler[r], wire[r])'
  BY <1>1 DEF Unknown, Local
<1>4. Timely(client[r], handler[r])'
  BY <1>1 DEF Timely, Local
<1> QED
  BY <1>2, <1>3, <1>4 DEF Local

(* A handler that fails, after reading or not, leaves what it wrote.          *)
LEMMA DiesEffect ==
    ASSUME TypeInv, NEW r \in Started, Dies(r)
    PROVE  handler'[r].pc \in Over /\ handler'[r].known = handler[r].known
<1>1. PICK pc \in Over : Goes(r, pc)
  BY DEF Dies, Over
<1> QED
  BY <1>1, GoesEffect

(* The handler answers a request it has read.                                 *)
LEMMA Answers ==
    ASSUME TypeInv, NEW r \in Started, Local(r), NEW pc \in Reading, NEW kind,
           Reads(r, pc, kind), pc \notin {"params", "sign"}, NEW more,
           TakeAndWrite(r, more)
    PROVE  /\ client[r].pc = "left" => wire'[r].down = <<>> /\ wire'[r].fin # "open"
           /\ client[r].pc # "left" => /\ wire'[r].up = <<>> /\ wire'[r].fin = "open"
                                       /\ wire'[r].down = <<>> \o more
<1>1. Wrote(r, more) /\ wire[r].up \in Seq(Chunks)
  BY TakeEffect, Numbers DEF Wires
<1>2. /\ wire[r].down = <<>>
      /\ (wire[r].fin = "open") <=> (client[r].pc # "left")
      /\ client[r].pc # "left" => \E a : One(wire[r].up, a)
  BY Served
<1>3. client[r].pc # "left" => wire'[r].up = <<>>
  BY <1>1, <1>2, ShortReads DEF Wrote
<1> QED
  BY <1>1, <1>2, <1>3 DEF Wrote
(* What getmsg does: it refuses a number past the last, fails on the last of   *)
(* none, or marks a message and answers with it.                              *)
LEMMA Fetching ==
    ASSUME TypeInv, NEW r \in Started, GetMsg(r)
    PROVE  /\ Requested(r, "getmsg") /\ client[r].req.num \in Nat
           /\ client[r].user \in Users
           /\ \/ Answer(r, <<Chunk("unknown")>>) /\ UNCHANGED queue
              \/ TakeAll(r) /\ Dies(r) /\ UNCHANGED queue
              \/ \E n \in DOMAIN queue[client[r].user] :
                    /\ client[r].req.num \in {n, 0}
                    /\ queue[client[r].user][n] \in Messages
                    /\ queue' = [queue EXCEPT ![client[r].user][n].read = TRUE]
                    /\ Answer(r, <<[kind |-> "mail", msg |-> queue[client[r].user][n]]>>)
<1> DEFINE u == client[r].user
           num == client[r].req.num
           q == queue[u]
           n == Index(q, num)
<1>1. client[r] \in Clients /\ Requested(r, "getmsg")
  BY Numbers DEF GetMsg
<1>2. u \in Users /\ num \in Nat
  BY <1>1, RelayAssumption DEF Clients, Commands, Requested
<1>3. q \in Seq(Messages) /\ Len(q) \in Nat /\ DOMAIN q = 1..Len(q)
  BY <1>2, LenProperties DEF TypeInv
<1>4. CASE num > Len(q)
  BY <1>1, <1>2, <1>3, <1>4 DEF GetMsg
<1>5. CASE num <= Len(q) /\ n < 1
  BY <1>1, <1>2, <1>3, <1>5 DEF GetMsg
<1>6. CASE num <= Len(q) /\ ~ (n < 1)
  <2>1. n \in DOMAIN q /\ num \in {n, 0} /\ n \in 1..Len(q)
    BY <1>2, <1>3, <1>6 DEF Index
  <2>2. q[n] \in Messages
    BY <1>3, <2>1, ElementOfSeq
  <2>3. /\ queue' = [queue EXCEPT ![u][n].read = TRUE]
        /\ Answer(r, <<[kind |-> "mail", msg |-> q[n]]>>)
    BY <1>2, <1>3, <1>6 DEF GetMsg
  <2> QED
    BY <1>1, <1>2, <2>1, <2>2, <2>3
<1>7. num > Len(q) \/ num <= Len(q)
  BY <1>2, <1>3
<1> HIDE DEF n
<1> QED
  BY <1>4, <1>5, <1>6, <1>7

(* Every step of a handler.                                                   *)
LEMMA ServerLocal ==
    ASSUME TypeInv, NEW r \in Started, Local(r), ServerStep(r)
    PROVE  Local(r)'
<1>0. /\ client[r] \in Clients /\ wire[r] \in Wires /\ handler[r] \in Handlers
      /\ r \in DOMAIN handler /\ wire[r].up \in Seq(Chunks) /\ r \in DOMAIN wire
  BY Numbers DEF Wires
<1>1. client' = client /\ UNCHANGED world
  BY ServerOthers
<1>2. handler[r].pc # "closed"
  BY DEF ServerStep, ReadParams, NoParams, ReadKey, ReadSign, RequestUnknown, AskQueue,
         GetMsg, SendToUnknown, SendCert, StoreMail, ReadLineFeed, ReadEof, ReadReset,
         Requested, Reads, Reading
<1>3. client[r].pc # "left" => client[r].pc \in Waiting
  BY <1>0 DEF Clients
<1>4. /\ "params" \in Reading /\ "key" \in Reading /\ "sign" \in Reading
      /\ "request" \in Reading /\ "message" \in Reading
      /\ \A pc \in Over : pc # "message"
  BY DEF Reading, Over
<1>5. CASE ReadParams(r)
  <2>1. Reads(r, "params", "params") /\ TookSome(r)
    BY <1>5, TakeEffect DEF ReadParams
  <2>2. handler'[r].pc = "key" /\ handler'[r].known = handler[r].known
    BY <1>5, GoesEffect DEF ReadParams
  <2>3. CASE client[r].pc = "left"
    BY <1>1, <1>2, <1>4, <2>1, <2>2, <2>3, Served, LeftLocal DEF TookSome
  <2>4. CASE client[r].pc # "left"
    <3>1. client[r].pc = "reply" /\ Two(wire[r].up, "params", "key") /\ wire[r].down = <<>>
      BY <1>4, <2>1, <2>4, Served
    <3>2. wire'[r].up = <<>> \/ One(wire'[r].up, "key")
      BY <1>0, <2>1, <3>1, ShortReads DEF TookSome
    <3>3. TalkReply(handler[r], wire[r])'
      BY <2>1, <2>2, <3>1, <3>2 DEF TalkReply, TookSome
    <3>4. wire'[r].fin = "open"
      BY <1>4, <2>1, <2>4, Served DEF TookSome
    <3> QED
      BY <1>1, <1>2, <1>3, <2>1, <2>2, <2>4, <3>1, <3>3, <3>4, WaitsLocal DEF TookSome
  <2> QED
    BY <2>3, <2>4
<1>6. ASSUME NEW pc \in {"params", "request"}, NEW kind \in {"lf", "request"},
             Reads(r, pc, kind), kind = "lf" => pc = "params", TakeAll(r), Dies(r)
      PROVE  Local(r)'
  <2>1. pc \in Reading
    BY <1>4
  <2>2. TookAll(r) /\ handler'[r].pc \in Over /\ handler'[r].known = handler[r].known
    BY <1>6, TakeEffect, DiesEffect
  <2>3. CASE client[r].pc = "left"
    BY <1>1, <1>2, <1>4, <1>6, <2>1, <2>2, <2>3, Served, LeftLocal DEF TookAll
  <2>4. CASE client[r].pc # "left"
    <3>1. /\ wire[r].down = <<>> /\ wire[r].fin = "open"
          /\ client[r].pc = "answer" \/ client[r].pc = "reply"
      BY <1>6, <2>1, <2>4, Served
    <3>2. TalkReply(handler[r], wire[r])' /\ TalkAnswer(handler[r], wire[r])'
      BY <2>2, <3>1 DEF TalkReply, TalkAnswer, TookAll
    <3> QED
      BY <1>1, <1>2, <1>3, <1>4, <2>2, <2>4, <3>1, <3>2, WaitsLocal DEF TookAll
  <2> QED
    BY <2>3, <2>4<1>7. CASE ReadKey(r)
  <2>1. Reads(r, "key", "key") /\ TakeAndWrite(r, <<Chunk("reply")>>)
    BY <1>7 DEF ReadKey
  <2>2. handler'[r].pc = "sign" /\ handler'[r].known = handler[r].known
    BY <1>7, GoesEffect DEF ReadKey
  <2>3. CASE client[r].pc = "left"
    BY <1>1, <1>2, <1>4, <2>1, <2>2, <2>3, Served, Answers, LeftLocal
  <2>4. CASE client[r].pc # "left"
    <3>1. client[r].pc = "reply"
      BY <1>4, <2>1, <2>4, Served
    <3>2. /\ wire'[r].up = <<>> /\ wire'[r].fin = "open"
          /\ wire'[r].down = <<>> \o <<Chunk("reply")>>
      BY <1>4, <2>1, <2>4, Answers
    <3>3. Chunk("reply") \in Chunks /\ Chunk("reply").kind = "reply"
      BY DEF Chunk, Chunks
    <3>4. One(wire'[r].down, "reply")
      BY <3>2, <3>3, ShortWrites
    <3>5. TalkReply(handler[r], wire[r])'
      BY <2>2, <3>2, <3>4 DEF TalkReply
    <3> QED
      BY <1>1, <1>2, <1>3, <2>2, <2>4, <3>1, <3>2, <3>4, <3>5, WaitsLocal
  <2> QED
    BY <2>3, <2>4
<1>8. CASE ReadSign(r)
  <2> DEFINE chunk == Head(wire[r].up)
  <2>1. Reads(r, "sign", "sign") /\ TookSome(r)
    BY <1>8, TakeEffect DEF ReadSign
  <2>2. /\ handler'[r].pc = "request" \/ handler'[r].pc \in Over
        /\ ~ handler'[r].known => ~ handler[r].known
    <3>1. CASE Goes(r, "request")
      BY <3>1, GoesEffect
    <3>2. CASE handler' = [handler EXCEPT ![r] = [pc |-> "request", known |-> TRUE]]
      BY <3>2, GoesEffect
    <3>3. CASE Dies(r)
      BY <3>3, DiesEffect
    <3> QED
      BY <1>8, <3>1, <3>2, <3>3 DEF ReadSign
  <2>3. CASE client[r].pc = "left"
    BY <1>1, <1>2, <1>4, <2>1, <2>2, <2>3, Served, LeftLocal DEF TookSome
  <2>4. CASE client[r].pc # "left"
    <3>1. /\ client[r].pc = "answer" /\ Two(wire[r].up, "sign", "request")
          /\ wire[r].down = <<>> /\ wire[r].fin = "open"
      BY <1>4, <2>1, <2>4, Served
    <3>2. wire'[r].up = <<>> \/ One(wire'[r].up, "request")
      BY <1>0, <2>1, <3>1, ShortReads DEF TookSome
    <3>3. TalkAnswer(handler[r], wire[r])'
      BY <2>1, <2>2, <3>1, <3>2 DEF TalkAnswer, TookSome
    <3> QED
      BY <1>1, <1>2, <1>3, <1>4, <2>1, <2>2, <2>4, <3>1, <3>3, WaitsLocal DEF TookSome
  <2> QED
    BY <2>3, <2>4
<1>9. ASSUME NEW pc \in {"request", "message"}, NEW more, Requested(r, client[r].req.cmd),
             TakeAndWrite(r, more), Goes(r, pc),
             pc = "request" => Answered(<<>> \o more),
             pc = "message" => One(<<>> \o more, "cert")
      PROVE  Local(r)'
  <2>1. Reads(r, "request", "request") /\ handler[r].known
    BY <1>9 DEF Requested
  <2>2. handler'[r].pc = pc /\ handler'[r].known
    BY <1>9, <2>1, GoesEffect
  <2>3. CASE client[r].pc = "left"
    BY <1>1, <1>2, <1>4, <1>9, <2>1, <2>2, <2>3, Served, Answers, LeftLocal
  <2>4. CASE client[r].pc # "left"
    <3>1. client[r].pc = "answer"
      BY <1>4, <2>1, <2>4, Served
    <3>2. wire'[r].up = <<>> /\ wire'[r].fin = "open" /\ wire'[r].down = <<>> \o more
      BY <1>4, <1>9, <2>1, <2>4, Answers
    <3>3. TalkAnswer(handler[r], wire[r])'
      BY <1>9, <2>2, <3>2 DEF TalkAnswer
    <3> QED
      BY <1>1, <1>2, <1>3, <2>2, <2>4, <3>1, <3>2, <3>3, WaitsLocal
  <2> QED
    BY <2>3, <2>4
<1>10. ASSUME NEW c \in Chunks, c.kind \in Plain
       PROVE  Answered(<<>> \o <<c>>)
  BY <1>10, ShortWrites DEF Answered
<1>11. CASE AskQueue(r)
  <2> DEFINE chunk == [kind |-> "list", list |-> Unread(queue[client[r].user])]
  <2>1. /\ Requested(r, client[r].req.cmd)
        /\ \/ Answer(r, <<Chunk("empty")>>)
           \/ Unread(queue[client[r].user]) # {} /\ Answer(r, <<chunk>>)
    BY <1>11 DEF AskQueue, Unread, Requested
  <2>2. Chunk("empty") \in Chunks /\ Chunk("empty").kind \in Plain
    BY DEF Chunk, Chunks, Plain
  <2>3. Unread(queue[client[r].user]) # {} => chunk \in Chunks
    <3>1. queue[client[r].user] \in Seq(Messages)
      BY <1>0 DEF TypeInv, Clients
    <3> QED
      BY <3>1, UnreadListed DEF Downs
  <2>4. chunk.kind \in Plain
    BY DEF Plain
  <2> HIDE DEF chunk
  <2>5. Answered(<<>> \o <<Chunk("empty")>>)
    BY <1>10, <2>2
  <2>6. Unread(queue[client[r].user]) # {} => Answered(<<>> \o <<chunk>>)
    BY <1>10, <2>3, <2>4
  <2> QED
    BY <1>9, <2>1, <2>5, <2>6 DEF Answer<1>12. CASE GetMsg(r)
  <2> DEFINE q == queue[client[r].user]
  <2>1. Requested(r, client[r].req.cmd) /\ Reads(r, "request", "request")
    BY <1>12 DEF GetMsg, Requested
  <2>2. CASE Answer(r, <<Chunk("unknown")>>)
    <3>1. Chunk("unknown") \in Chunks /\ Chunk("unknown").kind \in Plain
      BY DEF Chunk, Chunks, Plain
    <3> QED
      BY <1>9, <1>10, <2>1, <2>2, <3>1 DEF Answer
  <2>3. CASE TakeAll(r) /\ Dies(r)
    BY <1>6, <2>1, <2>3
  <2>4. ASSUME NEW n \in DOMAIN q, q[n] \in Messages,
               Answer(r, <<[kind |-> "mail", msg |-> q[n]]>>)
        PROVE  Local(r)'
    <3> DEFINE chunk == [kind |-> "mail", msg |-> q[n]]
    <3>1. chunk \in Chunks /\ chunk.kind \in Plain
      BY <2>4 DEF Chunks, Plain
    <3>2. Answer(r, <<chunk>>)
      BY <2>4
    <3> HIDE DEF chunk
    <3> QED
      BY <1>9, <1>10, <2>1, <3>1, <3>2 DEF Answer
  <2> QED
    BY <1>12, <2>2, <2>3, <2>4, Fetching
<1>13. CASE NoParams(r) \/ RequestUnknown(r)
  BY <1>6, <1>13 DEF NoParams, RequestUnknown
<1>14. CASE SendToUnknown(r)
  <2> DEFINE more == <<Chunk("nouid"), Chunk("queued")>>
  <2>1. /\ Chunk("nouid") \in Chunks /\ Chunk("nouid").kind = "nouid"
        /\ Chunk("queued") \in Chunks /\ Chunk("queued").kind = "queued"
    BY DEF Chunk, Chunks
  <2>2. Two(<<>> \o more, "nouid", "queued")
    BY <2>1, ShortWrites
  <2>3. Requested(r, client[r].req.cmd) /\ TakeAndWrite(r, more) /\ Goes(r, "request")
    BY <1>14 DEF SendToUnknown, Answer, Requested
  <2> HIDE DEF more
  <2> QED
    BY <1>9, <2>2, <2>3 DEF Answered
<1>15. CASE SendCert(r)
  <2> DEFINE chunk == [kind |-> "cert", cert |-> uids[client[r].req.to]]
  <2>1. Requested(r, client[r].req.cmd) /\ TakeAndWrite(r, <<chunk>>) /\ Goes(r, "message")
    BY <1>15 DEF SendCert, Requested
  <2>2. chunk \in Chunks /\ chunk.kind = "cert"
    <3>1. client[r].req.cmd = "send" /\ uids[client[r].req.to] # None
      BY <1>15 DEF SendCert, Requested
    <3>2. client[r].req.to \in Users
      BY <1>0, <3>1 DEF Clients, Commands
    <3>3. uids[client[r].req.to] \in Certs
      BY <3>1, <3>2 DEF TypeInv
    <3> QED
      BY <3>3 DEF Chunks
  <2> HIDE DEF chunk
  <2>3. One(<<>> \o <<chunk>>, "cert")
    BY <2>2, ShortWrites
  <2> QED
    BY <1>9, <2>1, <2>3
<1>16. CASE StoreMail(r)
  <2>1. /\ Reads(r, "message", "mail") /\ TakeAndWrite(r, <<Chunk("queued")>>)
        /\ handler'[r].pc = "request" /\ handler'[r].known = handler[r].known
    BY <1>16, GoesEffect DEF StoreMail, Answer
  <2>2. handler[r].known
    BY <2>1 DEF Reads, Local, Unknown
  <2>3. CASE client[r].pc = "left"
    BY <1>1, <1>2, <1>4, <2>1, <2>2, <2>3, Served, Answers, LeftLocal
  <2>4. CASE client[r].pc # "left"
    <3>1. client[r].pc = "confirm"
      BY <1>4, <2>1, <2>4, Served
    <3>2. /\ wire'[r].up = <<>> /\ wire'[r].fin = "open"
          /\ wire'[r].down = <<>> \o <<Chunk("queued")>>
      BY <1>4, <2>1, <2>4, Answers
    <3>3. Chunk("queued") \in Chunks /\ Chunk("queued").kind = "queued"
      BY DEF Chunk, Chunks
    <3>4. One(wire'[r].down, "queued")
      BY <3>2, <3>3, ShortWrites
    <3>5. TalkConfirm(handler[r], wire[r])'
      BY <2>1, <3>2, <3>4 DEF TalkConfirm
    <3> QED
      BY <1>1, <1>2, <1>3, <2>1, <2>2, <2>4, <3>1, <3>2, <3>5, WaitsLocal
  <2> QED
    BY <2>3, <2>4
<1>17. CASE ReadLineFeed(r)
  <2>1. Reads(r, "request", "lf") /\ TookSome(r) /\ handler'[r].pc \in Over
    BY <1>17, TakeEffect, GoesEffect DEF ReadLineFeed, Over
  <2>2. handler'[r].known = handler[r].known
    BY <1>17, GoesEffect DEF ReadLineFeed
  <2>3. client[r].pc = "left"
    BY <1>4, <2>1, Served
  <2> QED
    BY <1>1, <1>2, <1>4, <2>1, <2>2, <2>3, Served, LeftLocal DEF TookSome
<1>18. CASE ReadEof(r) \/ ReadReset(r)
  <2>1. UNCHANGED wire /\ wire[r].fin # "open"
    BY <1>18 DEF ReadEof, ReadReset
  <2>2. client[r].pc = "left" /\ wire[r].down = <<>>
    BY <2>1 DEF Local, Talk, TalkLeft
  <2>3. CASE Dies(r)
    BY <1>1, <1>2, <1>4, <2>1, <2>2, <2>3, DiesEffect, LeftLocal
  <2>4. CASE wire[r].up = <<>> /\ handler[r].pc = "request" /\ Goes(r, "spin")
    <3>1. handler'[r].pc = "spin" /\ handler'[r].known = handler[r].known
      BY <2>4, GoesEffect
    <3>2. Early(client[r]) \/ client[r].told = "nouid"
      <4>1. ~ One(<<>>, "lf") /\ "request" \notin Over
        BY DEF One, Over
      <4> QED
        BY <2>2, <2>4, <4>1 DEF Local, Talk, TalkLeft, Early
    <3> QED
      BY <1>1, <1>2, <2>1, <2>2, <2>4, <3>1, <3>2, LeftLocal
  <2> QED
    BY <1>18, <2>3, <2>4 DEF ReadEof, ReadReset
<1> QED
  BY <1>5, <1>7, <1>8, <1>11, <1>12, <1>13, <1>14, <1>15, <1>16, <1>17, <1>18 DEF ServerStep
------------------------------------------------------------------------------
(* What steps do to the queues and to what clients were told.                 *)

(* Numbers and marks of stored messages stay.                                 *)
Kept ==
    \A u \in Users : \A n \in DOMAIN queue[u] :
        /\ n \in DOMAIN queue'[u]
        /\ queue'[u][n].id = queue[u][n].id
        /\ queue[u][n].read => queue'[u][n] = queue[u][n]

(* Message n of u is marked and answered with.                                *)
MarkedBy(r, u, n) ==
    /\ GetMsg(r) /\ client[r].user = u /\ client[r].req.num \in {n, 0}
    /\ Answer(r, <<[kind |-> "mail", msg |-> queue[u][n]]>>)
    /\ queue[u][n] \in Messages
    /\ queue'[u][n] = [queue[u][n] EXCEPT !.read = TRUE]

(* A message is stored for its addressee, one that is fetched is marked, and  *)
(* nothing else becomes of the queues.                                        *)
LEMMA QueueEffect ==
    ASSUME FreshInv, KeyInv, NEW r \in Started, ServerStep(r)
    PROVE  /\ Kept
           /\ StoreMail(r) => /\ client[r].req.to \in Users
                              /\ r \in IdsOf(client[r].req.to)'
           /\ \A u \in Users : \A n \in DOMAIN queue'[u] :
                 \/ n \in DOMAIN queue[u]
                 \/ StoreMail(r) /\ queue'[u][n].id = r /\ ~ queue'[u][n].read
           /\ \A u \in Users : \A n \in DOMAIN queue'[u] : queue'[u][n].read =>
                 n \in DOMAIN queue[u] /\ (queue[u][n].read \/ MarkedBy(r, u, n))
<1>0. TypeInv /\ queue \in [Users -> Seq(Messages)] /\ client[r] \in Clients
  BY Numbers DEF FreshInv, TypeInv
<1>1. CASE UNCHANGED queue /\ ~ StoreMail(r)
  BY <1>1 DEF Kept
<1>2. CASE GetMsg(r) /\ ~ UNCHANGED queue
  <2> DEFINE u == client[r].user
             q == queue[u]
  <2>1. PICK n \in DOMAIN q :
           /\ client[r].req.num \in {n, 0} /\ q[n] \in Messages
           /\ queue' = [queue EXCEPT ![u][n].read = TRUE]
           /\ Answer(r, <<[kind |-> "mail", msg |-> q[n]]>>)
    BY <1>0, <1>2, Fetching
  <2>2. u \in Users /\ q \in Seq(Messages)
    BY <1>0 DEF Clients
  <2>3. DOMAIN queue = Users
    BY <1>0
  <2>4. queue'[u] = [q EXCEPT ![n].read = TRUE]
    BY <2>1, <2>2, <2>3
  <2>5. /\ DOMAIN queue'[u] = DOMAIN q /\ queue'[u][n] = [q[n] EXCEPT !.read = TRUE]
        /\ \A m \in DOMAIN q : m # n => queue'[u][m] = q[m]
    BY <2>1, <2>4
  <2>6. [q[n] EXCEPT !.read = TRUE].id = q[n].id
    BY <2>1 DEF Messages
  <2>7. q[n].read => [q[n] EXCEPT !.read = TRUE] = q[n]
    BY <2>1 DEF Messages
  <2>8. \A v \in Users \ {u} : queue'[v] = queue[v]
    BY <2>1, <2>2, <2>3
  <2>9. ~ StoreMail(r)
    BY <1>2 DEF GetMsg, StoreMail, Requested, Reads
  <2>10. MarkedBy(r, u, n)
    BY <1>2, <2>1, <2>5 DEF MarkedBy
  <2> HIDE DEF u, q
  <2>11. ASSUME NEW v \in Users, NEW m \in DOMAIN queue'[v]
         PROVE  /\ m \in DOMAIN queue[v]
                /\ queue'[v][m].read => queue[v][m].read \/ MarkedBy(r, v, m)
    <3>1. CASE v = u
      BY <2>5, <2>10, <2>11, <3>1 DEF q
    <3>2. CASE v # u
      BY <2>8, <2>11, <3>2
    <3> QED
      BY <3>1, <3>2
  <2>12. ASSUME NEW v \in Users, NEW m \in DOMAIN queue[v]
         PROVE  /\ m \in DOMAIN queue'[v]
                /\ queue'[v][m].id = queue[v][m].id
                /\ queue[v][m].read => queue'[v][m] = queue[v][m]
    <3>1. CASE v = u
      BY <2>5, <2>6, <2>7, <2>12, <3>1 DEF q
    <3>2. CASE v # u
      BY <2>8, <2>12, <3>2
    <3> QED
      BY <3>1, <3>2
  <2> QED
    BY <2>9, <2>11, <2>12 DEF Kept
<1>3. CASE StoreMail(r)
  <2> DEFINE u == client[r].req.to
             m == Head(wire[r].up).msg
             q == queue[u]
  <2>1. m \in Messages /\ m.id = r /\ m.read = FALSE
    BY <1>3, FirstMail
  <2>2. u \in Users
    <3>1. handler[r].pc # "closed" /\ wire[r].up # <<>> /\ Head(wire[r].up).kind = "mail"
      BY <1>3 DEF StoreMail, Reads
    <3>2. wire[r].up \in Seq(KeyUps(client[r].req))
      BY <3>1 DEF KeyInv, Keyed
    <3>3. Head(wire[r].up) \in KeyUps(client[r].req)
      BY <3>1, <3>2, HeadTailProperties
    <3>4. client[r].req.cmd = "send"
      BY <3>1, <3>3 DEF KeyUps
    <3> QED
      BY <1>0, <3>4 DEF Clients, Commands
  <2>3. queue' = [queue EXCEPT ![u] = Append(q, m)] /\ q \in Seq(Messages)
    BY <1>0, <1>3, <2>2 DEF StoreMail
  <2>4. /\ queue'[u] = Append(q, m)
        /\ \A v \in Users \ {u} : queue'[v] = queue[v]
    BY <1>0, <2>2, <2>3
  <2> HIDE DEF u, m, q
  <2>5. /\ Len(q) \in Nat /\ DOMAIN q = 1..Len(q)
        /\ DOMAIN queue'[u] = 1..(Len(q) + 1) /\ queue'[u][Len(q) + 1] = m
        /\ \A n \in 1..Len(q) : queue'[u][n] = q[n]
    <3>1. /\ Append(q, m) \in Seq(Messages) /\ Len(Append(q, m)) = Len(q) + 1
          /\ \A n \in 1..Len(q) : Append(q, m)[n] = q[n]
          /\ Append(q, m)[Len(q) + 1] = m
      BY <2>1, <2>3, AppendProperties
    <3> QED
      BY <2>3, <2>4, <3>1, LenProperties
  <2>6. \A n \in DOMAIN queue'[u] : n \in DOMAIN q \/ n = Len(q) + 1
    BY <2>5
  <2>7. ASSUME NEW v \in Users, NEW n \in DOMAIN queue'[v]
        PROVE  \/ n \in DOMAIN queue[v] /\ queue'[v][n] = queue[v][n]
               \/ queue'[v][n].id = r /\ ~ queue'[v][n].read
    <3>1. CASE v = u
      BY <2>1, <2>5, <2>6, <2>7, <3>1 DEF q
    <3>2. CASE v # u
      BY <2>4, <2>7, <3>2
    <3> QED
      BY <3>1, <3>2
  <2>8. ASSUME NEW v \in Users, NEW n \in DOMAIN queue[v]
        PROVE  n \in DOMAIN queue'[v] /\ queue'[v][n] = queue[v][n]
    <3>1. CASE v = u
      BY <2>5, <2>8, <3>1 DEF q
    <3>2. CASE v # u
      BY <2>4, <2>8, <3>2
    <3> QED
      BY <3>1, <3>2
  <2>9. r \in IdsOf(u)'
    <3>1. Len(q) + 1 \in DOMAIN queue'[u] /\ queue'[u][Len(q) + 1].id = r
      BY <2>1, <2>5
    <3>2. IdsOf(u)' = {queue'[u][n].id : n \in DOMAIN queue'[u]}
      BY <1>3 DEF IdsOf, u, StoreMail
    <3> QED
      BY <3>1, <3>2
  <2> QED
    BY <1>3, <2>2, <2>7, <2>8, <2>9 DEF Kept, u
<1> QED
  BY <1>1, <1>2, <1>3 DEF ServerStep, ReadParams, NoParams, ReadKey, ReadSign, RequestUnknown,
     AskQueue, SendToUnknown, SendCert, ReadLineFeed, ReadEof, ReadReset, Register
(* What a handler answers a client that waits.                                *)
Lists(r) ==
    /\ Unread(queue[client[r].user]) # {}
    /\ wire'[r].down = <<[kind |-> "list", list |-> Unread(queue[client[r].user])]>>

Posts(r) ==
    \E n \in DOMAIN queue[client[r].user] :
        /\ client[r].req.num \in {n, 0}
        /\ wire'[r].down = <<[kind |-> "mail", msg |-> queue[client[r].user][n]]>>

(* A client that has left, or has an answer waiting, is written nothing.      *)
LEMMA DownEffect ==
    ASSUME TypeInv, NEW r \in Started, Local(r), ServerStep(r)
    PROVE  \/ wire'[r].down = wire[r].down
           \/ /\ wire[r].down = <<>> /\ wire'[r].down # <<>>
              /\ Head(wire'[r].down).kind \notin {"list", "mail"}
              /\ client[r].pc = "confirm" => StoreMail(r)
           \/ wire[r].down = <<>> /\ client[r].pc # "confirm" /\ Lists(r)
           \/ wire[r].down = <<>> /\ client[r].pc # "confirm" /\ GetMsg(r) /\ Posts(r)
<1> DEFINE q == queue[client[r].user]
<1>0. /\ client[r] \in Clients
      /\ "key" \in Reading /\ "request" \in Reading /\ "message" \in Reading
  BY Numbers DEF Reading
<1>1. ASSUME NEW pc \in {"key", "request", "message"}, NEW kind, kind # "lf",
             Reads(r, pc, kind), NEW more, TakeAndWrite(r, more)
      PROVE  \/ wire'[r].down = wire[r].down
             \/ /\ wire[r].down = <<>> /\ wire'[r].down = <<>> \o more
                /\ client[r].pc = "confirm" => pc = "message"
  <2>1. pc \in Reading /\ wire[r].down = <<>>
    BY <1>0, <1>1, Served
  <2>2. CASE client[r].pc = "left"
    BY <1>1, <2>1, <2>2, Answers
  <2>3. CASE client[r].pc # "left"
    <3>1. wire'[r].down = <<>> \o more
      BY <1>1, <2>1, <2>3, Answers
    <3>2. client[r].pc = "confirm" => pc = "message"
      BY <1>1, <2>1, <2>3, Served
    <3> QED
      BY <2>1, <3>1, <3>2
  <2> QED
    BY <2>2, <2>3
<1>2. ASSUME NEW c \in Chunks, NEW d \in Chunks
      PROVE  /\ <<>> \o <<c>> = <<c>> /\ <<>> \o <<c, d>> = <<c, d>>
             /\ <<c>> # <<>> /\ <<c, d>> # <<>> /\ Head(<<c>>) = c /\ Head(<<c, d>>) = c
  BY ShortWrites
<1>3. ASSUME NEW kind \in {"reply", "empty", "unknown", "nouid", "queued"}
      PROVE  Chunk(kind) \in Chunks /\ Chunk(kind).kind \notin {"list", "mail"}
  BY DEF Chunk, Chunks
<1>4. CASE ReadParams(r) \/ NoParams(r) \/ ReadSign(r) \/ RequestUnknown(r)
           \/ ReadLineFeed(r) \/ ReadEof(r) \/ ReadReset(r)
  <2>1. Take(r) \/ TakeAll(r) \/ UNCHANGED wire
    BY <1>4 DEF ReadParams, NoParams, ReadSign, RequestUnknown, ReadLineFeed, ReadEof, ReadReset
  <2> QED
    BY <2>1, TakeEffect DEF TookSome, TookAll
<1>5. ASSUME NEW pc \in {"key", "request", "message"}, NEW kind, kind # "lf",
             Reads(r, pc, kind), pc = "message" => StoreMail(r),
             NEW c \in Chunks, c.kind \notin {"list", "mail"}, TakeAndWrite(r, <<c>>)
      PROVE  \/ wire'[r].down = wire[r].down
             \/ /\ wire[r].down = <<>> /\ wire'[r].down # <<>>
                /\ Head(wire'[r].down).kind \notin {"list", "mail"}
                /\ client[r].pc = "confirm" => StoreMail(r)
  <2>1. <<>> \o <<c>> = <<c>> /\ <<c>> # <<>> /\ Head(<<c>>) = c
    BY <1>2
  <2>2. CASE wire'[r].down = wire[r].down
    BY <2>2
  <2>3. CASE wire'[r].down # wire[r].down
    BY <1>1, <1>5, <2>1, <2>3
  <2> QED
    BY <2>2, <2>3
<1>6. CASE ReadKey(r) \/ StoreMail(r)
  BY <1>3, <1>5, <1>6 DEF ReadKey, StoreMail, Answer
<1>7. CASE AskQueue(r)
  <2> DEFINE chunk == [kind |-> "list", list |-> Unread(q)]
  <2>1. /\ Reads(r, "request", "request")
        /\ \/ TakeAndWrite(r, <<Chunk("empty")>>)
           \/ Unread(q) # {} /\ TakeAndWrite(r, <<chunk>>)
    BY <1>7 DEF AskQueue, Unread, Requested, Answer
  <2>2. CASE TakeAndWrite(r, <<Chunk("empty")>>)
    BY <1>3, <1>5, <2>1, <2>2
  <2>3. CASE Unread(q) # {} /\ TakeAndWrite(r, <<chunk>>)
    <3>1. chunk \in Chunks
      <4>1. q \in Seq(Messages)
        BY <1>0 DEF TypeInv, Clients
      <4> QED
        BY <2>3, <4>1, UnreadListed DEF Downs
    <3>2. <<>> \o <<chunk>> = <<chunk>>
      BY <1>2, <3>1
    <3> QED
      BY <1>1, <2>1, <2>3, <3>2 DEF Lists
  <2> QED
    BY <2>1, <2>2, <2>3
<1>8. CASE GetMsg(r)
  <2>1. Reads(r, "request", "request")
    BY <1>8 DEF GetMsg, Requested
  <2>2. CASE Answer(r, <<Chunk("unknown")>>)
    BY <1>3, <1>5, <2>1, <2>2 DEF Answer
  <2>3. CASE TakeAll(r)
    BY <2>3, TakeEffect DEF TookAll
  <2>4. ASSUME NEW n \in DOMAIN q, q[n] \in Messages, client[r].req.num \in {n, 0},
               Answer(r, <<[kind |-> "mail", msg |-> q[n]]>>)
        PROVE  \/ wire'[r].down = wire[r].down
               \/ wire[r].down = <<>> /\ client[r].pc # "confirm" /\ Posts(r)
    <3> DEFINE chunk == [kind |-> "mail", msg |-> q[n]]
    <3>1. chunk \in Chunks
      BY <2>4 DEF Chunks
    <3>2. <<>> \o <<chunk>> = <<chunk>>
      BY <1>2, <3>1
    <3> QED
      BY <1>1, <2>1, <2>4, <3>2 DEF Posts, Answer
  <2> QED
    BY <1>8, <2>2, <2>3, <2>4, Fetching
<1>9. CASE SendToUnknown(r)
  <2> DEFINE more == <<Chunk("nouid"), Chunk("queued")>>
  <2>1. Reads(r, "request", "request") /\ TakeAndWrite(r, more)
    BY <1>9 DEF SendToUnknown, Requested, Answer
  <2>2. <<>> \o more = more /\ more # <<>> /\ Head(more) = Chunk("nouid")
    BY <1>2, <1>3
  <2> HIDE DEF more
  <2> QED
    BY <1>1, <1>3, <2>1, <2>2
<1>10. CASE SendCert(r)
  <2> DEFINE chunk == [kind |-> "cert", cert |-> uids[client[r].req.to]]
  <2>1. Reads(r, "request", "request") /\ TakeAndWrite(r, <<chunk>>)
    BY <1>10 DEF SendCert, Requested
  <2>2. chunk \in Chunks /\ chunk.kind = "cert"
    <3>1. client[r].req.cmd = "send" /\ uids[client[r].req.to] # None
      BY <1>10 DEF SendCert, Requested
    <3>2. client[r].req.to \in Users
      BY <1>0, <3>1 DEF Clients, Commands
    <3>3. uids[client[r].req.to] \in Certs
      BY <3>1, <3>2 DEF TypeInv
    <3> QED
      BY <3>3 DEF Chunks
  <2> HIDE DEF chunk
  <2> QED
    BY <1>5, <2>1, <2>2
<1> QED
  BY <1>4, <1>6, <1>7, <1>8, <1>9, <1>10 DEF ServerStep
(* What a client makes of an answer.                                          *)
GoesOn(r) ==
    /\ client'[r].pc \in {"answer", "confirm"} /\ client'[r].told = "nothing"
    /\ client'[r].shown = {}
    /\ client'[r].pc = "confirm" => client[r].req.cmd = "send"
    /\ wire[r].down # <<>> /\ Head(wire[r].down).kind \notin {"list", "mail"}

Ends(r, told) ==
    client'[r].pc = "left" /\ client'[r].told = told /\ client'[r].shown = {}

Shows(r, kind) ==
    /\ client'[r].pc = "left" /\ client'[r].told = kind
    /\ wire[r].down # <<>> /\ Head(wire[r].down).kind = kind

(* It goes on or ends, and shows nothing that it did not hear.                *)
LEMMA ClientOutcome ==
    ASSUME TypeInv, NEW r \in Started, Local(r), ClientStep(r) \/ Interrupt(r)
    PROVE  /\ Others(r) /\ SameRun(r) /\ UNCHANGED <<server, world>>
           /\ client[r].pc \in Waiting /\ wire'[r].down = <<>>
           /\ \/ GoesOn(r)
              \/ Ends(r, "nothing") \/ Ends(r, "interrupted")
              \/ /\ Ends(r, "nouid") /\ MayWrite(r) /\ wire[r].down # <<>>
                 /\ Head(wire[r].down).kind = "nouid"
              \/ /\ Ends(r, "queued") /\ client[r].pc = "confirm" /\ wire[r].down # <<>>
                 /\ Head(wire[r].down).kind = "queued"
              \/ \E kind \in {"empty", "unknown"} :
                    /\ Ends(r, kind) /\ wire[r].down # <<>>
                    /\ Head(wire[r].down).kind = kind
              \/ /\ Shows(r, "list")
                 /\ \E x \in Head(wire[r].down).list :
                       client'[r].shown = {<<x.num, x.msg.id>>}
              \/ /\ Shows(r, "mail")
                 /\ client'[r].shown = {<<client[r].req.num, Head(wire[r].down).msg.id>>}
<1> DEFINE head == Head(wire[r].down)
<1>0. /\ client[r] \in Clients /\ wire[r].down \in Seq(Chunks)
  BY Numbers DEF Wires
<1>1. /\ UNCHANGED <<server, world>> /\ client[r].pc \in Waiting
  BY DEF ClientStep, ReadReply, ReadCert, ReadNoUid, ReadList, ReadMail, ReadNothing,
     ReadConfirm, ReadEnd, Interrupt, Hears, Waiting
<1>2. client[r].told = "nothing" /\ client[r].shown = {}
  BY <1>1 DEF Local, Talk, Waiting
<1>3. ASSUME NEW told, NEW last, NEW unread, Quit(r, told, last, unread)
      PROVE  Others(r) /\ SameRun(r) /\ wire'[r].down = <<>> /\ Ends(r, told)
  BY <1>1, <1>2, <1>3, QuitEffect DEF Ends
<1>4. ASSUME NEW told, NEW shown, Finish(r, told, shown)
      PROVE  /\ Others(r) /\ SameRun(r) /\ wire'[r].down = <<>>
             /\ client'[r].pc = "left" /\ client'[r].told = told /\ client'[r].shown = shown
  BY <1>1, <1>4, FinishEffect
<1>5. ASSUME NEW more, NEW pc \in {"answer", "confirm"}, Proceed(r, more, pc),
             Tail(wire[r].down) = <<>>, pc = "confirm" => client[r].req.cmd = "send",
             wire[r].down # <<>>, head.kind \notin {"list", "mail"}
      PROVE  Others(r) /\ SameRun(r) /\ wire'[r].down = <<>> /\ GoesOn(r)
  <2>1. /\ Others(r) /\ SameRun(r)
        /\ client'[r].pc = pc /\ client'[r].told = client[r].told
        /\ client'[r].shown = client[r].shown
        /\ wire'[r].down = Tail(wire[r].down)
    BY <1>1, <1>5, ProceedEffect
  <2> QED
    BY <1>2, <1>5, <2>1 DEF GoesOn
<1>6. CASE ReadReply(r)
  <2>1. Hears(r, "reply", "reply") /\ Tail(wire[r].down) = <<>>
    BY <1>6, Heard DEF ReadReply
  <2>2. (\E last, unread : Quit(r, "nothing", last, unread))
        \/ \E more : Proceed(r, more, "answer")
    BY <1>6 DEF ReadReply
  <2> QED
    BY <1>1, <1>3, <1>5, <2>1, <2>2 DEF Hears
<1>7. CASE ReadCert(r)
  <2>1. Hears(r, "answer", "cert") /\ Tail(wire[r].down) = <<>>
    BY <1>7, Heard DEF ReadCert
  <2>2. (\E last, unread : Quit(r, "nothing", last, unread))
        \/ \E more : Proceed(r, more, "confirm")
    BY <1>7 DEF ReadCert
  <2>3. client[r].req.cmd = "send"
    BY <2>1, HeardType DEF Downs, Hears
  <2> QED
    BY <1>1, <1>3, <1>5, <2>1, <2>2, <2>3 DEF Hears
<1>8. CASE ReadNoUid(r)
  <2>1. Hears(r, "answer", "nouid")
    BY <1>8 DEF ReadNoUid
  <2>2. \E told \in {"nouid", "nothing"} : \E rest : Quit(r, told, <<>>, rest)
    BY <1>8 DEF ReadNoUid
  <2> QED
    BY <1>1, <1>3, <2>1, <2>2 DEF Hears, MayWrite
<1>9. CASE ReadList(r)
  <2>1. Hears(r, "answer", "list")
    BY <1>9 DEF ReadList
  <2>2. Last(head.list) \in head.list
    BY <2>1, HeardType DEF Hears, Downs, HasLast, Last
  <2>3. Quit(r, "nothing", <<>>, <<>>)
        \/ Finish(r, "list", {<<Last(head.list).num, Last(head.list).msg.id>>})
    BY <1>9 DEF ReadList
  <2> QED
    BY <1>1, <1>3, <1>4, <2>1, <2>2, <2>3 DEF Hears, Shows
<1>10. CASE ReadMail(r)
  <2>1. Hears(r, "answer", "mail")
    BY <1>10 DEF ReadMail
  <2>2. Quit(r, "nothing", <<>>, <<>>)
        \/ Finish(r, "mail", {<<client[r].req.num, head.msg.id>>})
    BY <1>10 DEF ReadMail
  <2> QED
    BY <1>1, <1>3, <1>4, <2>1, <2>2 DEF Hears, Shows
<1>11. CASE ReadNothing(r)
  <2>1. PICK kind \in {"empty", "unknown"} : Hears(r, "answer", kind)
    BY <1>11 DEF ReadNothing
  <2>2. Finish(r, kind, {})
    BY <1>11, <2>1 DEF ReadNothing, Hears
  <2> QED
    BY <1>1, <1>4, <2>1, <2>2 DEF Hears, Ends
<1>12. CASE ReadConfirm(r)
  <2>1. Hears(r, "confirm", "queued") /\ Finish(r, "queued", {})
    BY <1>12 DEF ReadConfirm
  <2> QED
    BY <1>1, <1>4, <2>1 DEF Hears, Ends
<1>13. CASE ReadEnd(r) \/ Interrupt(r)
  <2>1. \E told \in {"nothing", "interrupted"} : \E unread : Quit(r, told, <<>>, unread)
    BY <1>13 DEF ReadEnd, Interrupt
  <2> QED
    BY <1>1, <1>3, <2>1
<1> QED
  BY <1>6, <1>7, <1>8, <1>9, <1>10, <1>11, <1>12, <1>13 DEF ClientStep
------------------------------------------------------------------------------
(* The invariant is kept.                                                     *)

(* What is stored stays stored.                                               *)
LEMMA KeptIds ==
    ASSUME Kept
    PROVE  \A u \in Users : IdsOf(u) \subseteq IdsOf(u)'
BY DEF Kept, IdsOf

(* A run that a step leaves alone, whatever it does to the queues.            *)
LEMMA OtherRun ==
    ASSUME TypeInv, NEW s \in Started, RunSafe(s),
           client'[s] = client[s], handler'[s] = handler[s], wire'[s] = wire[s],
           epoch' = epoch, Kept,
           \A u \in Users : s \in IdsOf(u)' => s \in IdsOf(u)
    PROVE  RunSafe(s)' /\ Claims(s)' = Claims(s)
<1>1. client[s] \in Clients
  BY Numbers
<1>2. Local(s)'
  BY DEF RunSafe, Local, Timely
<1>3. Stored(s)'
  <2>1. client[s].req.cmd = "send" => client[s].req.to \in Users
    BY <1>1 DEF Clients, Commands
  <2> QED
    BY <2>1, KeptIds DEF RunSafe, Stored
<1>4. Claims(s)' = Claims(s)
  BY DEF Claims, Pending
<1>5. Numbered(s)'
  <2>1. client[s].user \in Users
    BY <1>1 DEF Clients
  <2> QED
    BY <1>4, <2>1 DEF RunSafe, Numbered, Kept
<1>6. Positive(s)'
  BY <1>4 DEF RunSafe, Positive
<1> QED
  BY <1>2, <1>3, <1>4, <1>5, <1>6 DEF RunSafe

(* Claims agree when they stand in the queue, and when none is new.           *)
LEMMA AgreeKeeps ==
    ASSUME \A a, g \in Started : Agree(a, g), Started' = Started, epoch' = epoch,
           \A s \in Started : /\ Numbered(s)'
                              /\ client'[s].user = client[s].user
                              /\ client'[s].epoch = client[s].epoch
                              /\ Claims(s)' \subseteq Claims(s) \/ client[s].epoch = epoch
    PROVE  \A a, g \in Started' : Agree(a, g)'
<1> SUFFICES ASSUME NEW a \in Started, NEW g \in Started,
                    client'[a].user = client'[g].user, client'[a].epoch = client'[g].epoch,
                    NEW x \in Claims(a)', NEW y \in Claims(g)', x[1] = y[1], x[1] >= 1
             PROVE  x[2] = y[2]
  BY DEF Agree
<1>1. CASE client[a].epoch = epoch
  <2>1. Numbered(a)' /\ Numbered(g)'
    OBVIOUS
  <2>2. queue'[client'[a].user][x[1]].id = x[2]
    BY <1>1, <2>1 DEF Numbered
  <2>3. queue'[client'[g].user][y[1]].id = y[2]
    BY <1>1, <2>1 DEF Numbered
  <2> QED
    BY <2>2, <2>3
<1>2. CASE client[a].epoch # epoch
  <2>1. x \in Claims(a) /\ y \in Claims(g)
    BY <1>2
  <2> QED
    BY <2>1 DEF Agree
<1> QED
  BY <1>1, <1>2

(* A client shows what it heard and nothing else.                             *)
LEMMA ClaimsShrink ==
    ASSUME TypeInv, NEW r \in Started, Local(r), ClientStep(r) \/ Interrupt(r)
    PROVE  Claims(r)' \subseteq Claims(r)
<1>1. wire'[r].down = <<>>
  BY ClientOutcome
<1>2. Claims(r)' = client'[r].shown
  BY <1>1 DEF Claims, Pending
<1>3. CASE client'[r].shown = {}
  BY <1>2, <1>3
<1>4. ASSUME NEW x \in Head(wire[r].down).list, Shows(r, "list"),
             client'[r].shown = {<<x.num, x.msg.id>>}
      PROVE  Claims(r)' \subseteq Claims(r)
  BY <1>2, <1>4 DEF Claims, Pending, Shows
<1>5. CASE /\ Shows(r, "mail")
           /\ client'[r].shown = {<<client[r].req.num, Head(wire[r].down).msg.id>>}
  BY <1>2, <1>5 DEF Claims, Pending, Shows
<1> QED
  BY <1>3, <1>4, <1>5, ClientOutcome DEF GoesOn, Ends
(* The run of a client that takes a step.                                     *)
LEMMA ClientRun ==
    ASSUME SafeInv, NEW r \in Started, ClientStep(r) \/ Interrupt(r)
    PROVE  RunSafe(r)'
<1>1. TypeInv /\ RunSafe(r) /\ Local(r) /\ Fresh(r)
  BY DEF SafeInv, FreshInv, RunSafe
<1>2. /\ SameRun(r) /\ UNCHANGED <<server, world>> /\ client[r].pc \in Waiting
      /\ wire'[r].down = <<>>
  BY <1>1, ClientOutcome
<1>3. /\ queue' = queue /\ handler' = handler /\ epoch' = epoch
  BY <1>2 DEF server, world
<1>4. Claims(r)' \subseteq Claims(r)
  BY <1>1, ClaimsShrink
<1>5. \A u : IdsOf(u)' = IdsOf(u)
  BY <1>3 DEF IdsOf
<1>6. client[r].told = "nothing"
  BY <1>1, <1>2 DEF Local, Talk, Waiting
<1>7. Local(r)'
  BY <1>1, ClientLocal
<1>8. Stored(r)'
  <2>1. /\ client'[r].told = "queued" => /\ client[r].pc = "confirm" /\ wire[r].down # <<>>
        /\ client'[r].pc = "confirm" => client[r].req.cmd = "send"
        /\ client'[r].told = "nouid" => MayWrite(r)
    BY <1>1, ClientOutcome DEF GoesOn, Ends, Shows
  <2>2. /\ client'[r].told = "queued" /\ client'[r].epoch = epoch' =>
              r \in IdsOf(client[r].req.to)'
        /\ client'[r].pc = "confirm" \/ client'[r].told = "queued" =>
              client'[r].req.cmd = "send"
    <3>1. IdsOf(client[r].req.to)' = IdsOf(client[r].req.to)
      BY <1>2, <1>3 DEF IdsOf, SameRun
    <3> QED
      BY <1>1, <1>2, <1>3, <2>1, <3>1 DEF RunSafe, Stored, SameRun
  <2>3. client'[r].told = "nouid" \/ ~ handler'[r].known => \A u \in Users : r \notin IdsOf(u)'
    BY <1>1, <1>3, <1>5, <2>1 DEF RunSafe, Stored, Fresh
  <2> QED
    BY <1>2, <2>2, <2>3 DEF Stored
<1>9. Numbered(r)'
  BY <1>1, <1>2, <1>3, <1>4 DEF RunSafe, Numbered, SameRun
<1>10. Positive(r)'
  <2>1. client'[r].told = "list" => wire[r].down # <<>> /\ Head(wire[r].down).kind = "list"
    BY <1>1, ClientOutcome DEF GoesOn, Ends, Shows
  <2> QED
    BY <1>1, <1>2, <1>4, <2>1 DEF RunSafe, Positive
<1> QED
  BY <1>7, <1>8, <1>9, <1>10 DEF RunSafe

(* Every step of a client.                                                    *)
LEMMA ClientSafe ==
    ASSUME SafeInv, NEW r \in Started, ClientStep(r) \/ Interrupt(r)
    PROVE  SafeInv'
<1>1. TypeInv /\ RunSafe(r) /\ Local(r)
  BY DEF SafeInv, FreshInv, RunSafe
<1>2. /\ Others(r) /\ SameRun(r) /\ UNCHANGED <<server, world>>
  BY <1>1, ClientOutcome
<1>3. queue' = queue /\ epoch' = epoch /\ Started' = Started
  BY <1>2 DEF server, world, Others
<1>4. FreshInv' /\ KeyInv'
  BY ClientStepFresh, ClientKeyed DEF SafeInv
<1>5. Kept /\ \A u : IdsOf(u)' = IdsOf(u)
  BY <1>3 DEF Kept, IdsOf
<1>6. ASSUME NEW s \in Started
      PROVE  RunSafe(s)' /\ Claims(s)' \subseteq Claims(s)
  <2>1. CASE s = r
    BY <1>1, <2>1, ClientRun, ClaimsShrink
  <2>2. CASE s # r
    BY <1>1, <1>2, <1>3, <1>5, <2>2, OtherRun DEF Others, SafeInv
  <2> QED
    BY <2>1, <2>2
<1>7. \A a, g \in Started' : Agree(a, g)'
  <2>1. \A s \in Started : client'[s].user = client[s].user /\ client'[s].epoch = client[s].epoch
    BY <1>2 DEF Others, SameRun
  <2>2. \A s \in Started : Numbered(s)'
    BY <1>6 DEF RunSafe
  <2> QED
    BY <1>3, <1>6, <2>1, <2>2, AgreeKeeps DEF SafeInv
<1>8. Fetched'
  <2> SUFFICES ASSUME NEW u \in Users, NEW n \in DOMAIN queue[u], queue[u][n].read
               PROVE  \E s \in Started : Fetches(s, u, n)'
    BY <1>3 DEF Fetched
  <2>1. PICK s \in Started : Fetches(s, u, n)
    BY DEF SafeInv, Fetched
  <2>2. CASE s # r
    BY <1>2, <1>3, <2>1, <2>2 DEF Fetches, Others
  <2>3. CASE s = r
    <3>1. /\ client'[r].user = u /\ client'[r].epoch = epoch'
          /\ client'[r].req.cmd = "getmsg" /\ client'[r].req.num \in {n, 0}
      BY <1>2, <1>3, <2>1, <2>3 DEF Fetches, SameRun
    <3>2. /\ client[r].pc \in Waiting /\ client[r].shown = {}
      BY <1>1, ClientOutcome DEF Local, Talk, Waiting
    <3>3. /\ wire[r].down # <<>>
          /\ Head(wire[r].down) = [kind |-> "mail", msg |-> [queue[u][n] EXCEPT !.read = FALSE]]
      BY <2>1, <2>3, <3>2 DEF Fetches, Waiting
    <3>4. Head(wire[r].down).kind = "mail"
      BY <3>3
    <3>5. queue[u][n] \in Messages
      BY <1>1, LenProperties, ElementOfSeq DEF TypeInv
    <3>6. Head(wire[r].down).msg.id = queue[u][n].id
      BY <3>3, <3>5 DEF Messages
    <3>7. \/ Ends(r, "nothing") \/ Ends(r, "interrupted")
          \/ client'[r].shown = {<<client[r].req.num, Head(wire[r].down).msg.id>>}
      BY <1>1, <3>4, ClientOutcome DEF GoesOn, Shows
    <3>8. (\E x \in client'[r].shown : x[2] = queue[u][n].id)
          \/ (client'[r].told \in {"nothing", "interrupted"} /\ client'[r].pc = "left")
      <4>1. <<client[r].req.num, Head(wire[r].down).msg.id>>[2] = queue[u][n].id
        BY <3>6
      <4> QED
        BY <3>7, <4>1 DEF Ends
    <3> QED
      BY <1>3, <3>1, <3>8 DEF Fetches
  <2> QED
    BY <2>2, <2>3
<1> QED
  BY <1>3, <1>4, <1>6, <1>7, <1>8 DEF SafeInv
(* A key that a connection has is not lost.                                   *)
LEMMA KnownStays ==
    ASSUME TypeInv, NEW r \in Started, ServerStep(r)
    PROVE  handler[r].known => handler'[r].known
<1>1. ASSUME NEW pc, Goes(r, pc)
      PROVE  handler'[r].known = handler[r].known
  BY <1>1, GoesEffect
<1>2. CASE ReadSign(r)
  <2>1. CASE handler' = [handler EXCEPT ![r] = [pc |-> "request", known |-> TRUE]]
    BY <2>1, GoesEffect
  <2> QED
    BY <1>1, <1>2, <2>1 DEF ReadSign, Dies
<1>3. CASE ReadParams(r) \/ NoParams(r) \/ ReadKey(r) \/ RequestUnknown(r) \/ SendCert(r)
           \/ ReadLineFeed(r) \/ ReadEof(r) \/ ReadReset(r)
  BY <1>1, <1>3 DEF ReadParams, NoParams, ReadKey, RequestUnknown, SendCert, ReadLineFeed,
     ReadEof, ReadReset, Dies
<1>4. CASE AskQueue(r) \/ SendToUnknown(r) \/ StoreMail(r)
  BY <1>1, <1>4 DEF AskQueue, SendToUnknown, StoreMail, Answer
<1>5. CASE GetMsg(r)
  BY <1>1, <1>5, Fetching DEF Answer, Dies
<1> QED
  BY <1>2, <1>3, <1>4, <1>5 DEF ServerStep

(* A new claim is of a message with that number, or of the last as number 0.  *)
LEMMA NewClaims ==
    ASSUME TypeInv, NEW r \in Started, Local(r), ServerStep(r)
    PROVE  \A x \in Claims(r)' :
              \/ x \in Claims(r)
              \/ /\ x[1] \in DOMAIN queue[client[r].user]
                 /\ queue[client[r].user][x[1]].id = x[2]
              \/ x[1] = 0 /\ Head(wire'[r].down).kind = "mail"
<1> DEFINE q == queue[client[r].user]
<1>1. client' = client
  BY ServerOthers
<1>2. CASE wire'[r].down = wire[r].down
  BY <1>1, <1>2 DEF Claims, Pending
<1>3. CASE wire'[r].down # <<>> /\ Head(wire'[r].down).kind \notin {"list", "mail"}
  <2>1. Claims(r)' = client[r].shown
    BY <1>1, <1>3 DEF Claims, Pending
  <2> QED
    BY <2>1 DEF Claims
<1>4. CASE Lists(r)
  <2> DEFINE chunk == [kind |-> "list", list |-> Unread(q)]
  <2>1. wire'[r].down # <<>> /\ Head(wire'[r].down) = chunk
    BY <1>4 DEF Lists
  <2>2. Claims(r)' = client[r].shown \cup {<<x.num, x.msg.id>> : x \in Unread(q)}
    BY <1>1, <2>1 DEF Claims, Pending
  <2>3. ASSUME NEW x \in Unread(q)
        PROVE  x.num \in DOMAIN q /\ q[x.num] = x.msg
    BY <2>3 DEF Unread
  <2>4. ASSUME NEW y \in {<<x.num, x.msg.id>> : x \in Unread(q)}
        PROVE  y[1] \in DOMAIN q /\ q[y[1]].id = y[2]
    <3>1. PICK x \in Unread(q) : y = <<x.num, x.msg.id>>
      BY <2>4
    <3>2. y[1] = x.num /\ y[2] = x.msg.id
      BY <3>1
    <3> QED
      BY <2>3, <3>2
  <2> QED
    BY <2>2, <2>4 DEF Claims
<1>5. CASE Posts(r)
  <2>1. PICK n \in DOMAIN q :
           /\ client[r].req.num \in {n, 0}
           /\ wire'[r].down = <<[kind |-> "mail", msg |-> q[n]]>>
    BY <1>5 DEF Posts
  <2>2. wire'[r].down # <<>> /\ Head(wire'[r].down) = [kind |-> "mail", msg |-> q[n]]
    BY <2>1
  <2>3. Claims(r)' = client[r].shown \cup {<<client[r].req.num, q[n].id>>}
    BY <1>1, <2>2 DEF Claims, Pending
  <2>4. ASSUME NEW y \in {<<client[r].req.num, q[n].id>>}
        PROVE  y[1] = client[r].req.num /\ y[2] = q[n].id
    BY <2>4
  <2> QED
    BY <2>1, <2>2, <2>3, <2>4 DEF Claims
<1> QED
  BY <1>2, <1>3, <1>4, <1>5, DownEffect

(* The run that a handler serves.                                             *)
LEMMA ServerRun ==
    ASSUME SafeInv, NEW r \in Started, ServerStep(r)
    PROVE  RunSafe(r)'
<1> DEFINE u == client[r].user
<1>1. TypeInv /\ RunSafe(r) /\ Local(r) /\ client[r] \in Clients
  BY Numbers DEF SafeInv, FreshInv, RunSafe
<1>2. client' = client /\ epoch' = epoch /\ Local(r)'
  BY <1>1, ServerOthers, ServerLocal DEF world
<1>3. Kept
  BY QueueEffect DEF SafeInv
<1>4. Stored(r)'
  <2>1. client[r].req.cmd = "send" => client[r].req.to \in Users
    BY <1>1 DEF Clients, Commands
  <2>2. StoreMail(r) => r \in IdsOf(client[r].req.to)'
    BY QueueEffect DEF SafeInv
  <2>3. ASSUME client[r].epoch = epoch,
               client[r].told = "queued" \/ (client[r].pc = "confirm" /\ wire'[r].down # <<>>)
        PROVE  r \in IdsOf(client[r].req.to)'
    <3>1. CASE StoreMail(r)
      BY <2>2, <3>1
    <3>2. CASE ~ StoreMail(r)
      <4>1. client[r].pc = "confirm" => wire'[r].down = wire[r].down
        BY <1>1, <3>2, DownEffect
      <4>2. r \in IdsOf(client[r].req.to) /\ client[r].req.to \in Users
        BY <1>1, <2>1, <2>3, <4>1 DEF RunSafe, Stored
      <4> QED
        BY <1>2, <1>3, <4>2, KeptIds DEF IdsOf
    <3> QED
      BY <3>1, <3>2
  <2>4. ASSUME client[r].told = "nouid" \/ ~ handler'[r].known, NEW v \in Users
        PROVE  r \notin IdsOf(v)'
    <3>1. client[r].told = "nouid" \/ ~ handler[r].known
      BY <1>1, <2>4, KnownStays
    <3>2. ~ StoreMail(r)
      <4> SUFFICES ASSUME StoreMail(r) PROVE FALSE
        OBVIOUS
      <4>1. Reads(r, "message", "mail") /\ "message" \in Reading
        BY DEF StoreMail, Reading
      <4>2. handler[r].known
        BY <1>1, <4>1 DEF Reads, Local, Unknown
      <4>3. client[r].told # "nouid"
        BY <1>1, <4>1, Served DEF Early, Local, Talk
      <4> QED
        BY <3>1, <4>2, <4>3
    <3>3. r \notin IdsOf(v)
      BY <1>1, <3>1 DEF RunSafe, Stored
    <3>4. \A n \in DOMAIN queue'[v] : n \in DOMAIN queue[v]
      BY <3>2, QueueEffect DEF SafeInv
    <3> QED
      BY <1>3, <3>3, <3>4 DEF IdsOf, Kept
  <2> QED
    BY <1>1, <1>2, <2>3, <2>4 DEF RunSafe, Stored
<1>5. u \in Users
  BY <1>1 DEF Clients
<1>6. Numbered(r)'
  <2> SUFFICES ASSUME client[r].epoch = epoch, NEW x \in Claims(r)', x[1] >= 1
               PROVE  x[1] \in DOMAIN queue'[u] /\ queue'[u][x[1]].id = x[2]
    BY <1>2 DEF Numbered
  <2>1. x[1] \in DOMAIN queue[u] /\ queue[u][x[1]].id = x[2]
    BY <1>1, NewClaims DEF RunSafe, Numbered
  <2> QED
    BY <1>3, <1>5, <2>1 DEF Kept
<1>7. Positive(r)'
  <2> SUFFICES ASSUME client[r].told = "list"
                      \/ (wire'[r].down # <<>> /\ Head(wire'[r].down).kind = "list"),
                      NEW x \in Claims(r)'
               PROVE  x[1] >= 1
    BY <1>2 DEF Positive
  <2>1. CASE wire'[r].down = wire[r].down
    <3>1. Claims(r)' = Claims(r)
      BY <1>2, <2>1 DEF Claims, Pending
    <3> QED
      BY <1>1, <2>1, <3>1 DEF RunSafe, Positive
  <2>2. CASE wire'[r].down # wire[r].down
    <3>1. wire[r].down = <<>> /\ wire'[r].down # <<>>
      BY <1>1, <2>2, DownEffect DEF Lists, Posts
    <3>2. client[r].pc # "left"
      BY <1>2, <3>1 DEF Local, Talk, TalkLeft
    <3>3. client[r].shown = {} /\ client[r].told = "nothing"
      BY <1>1, <3>2 DEF Local, Talk
    <3>4. Claims(r) = {}
      BY <3>1, <3>3 DEF Claims, Pending
    <3>5. x[1] \in DOMAIN queue[u]
      BY <1>1, <3>3, <3>4, NewClaims
    <3> QED
      BY <1>1, <1>5, <3>5, LenProperties DEF TypeInv
  <2> QED
    BY <2>1, <2>2
<1> QED
  BY <1>2, <1>4, <1>6, <1>7 DEF RunSafe
(* Every step of a handler.                                                   *)
LEMMA ServerSafe ==
    ASSUME SafeInv, NEW r \in Started, ServerStep(r)
    PROVE  SafeInv'
<1>1. TypeInv /\ RunSafe(r) /\ Local(r) /\ client[r] \in Clients
  BY Numbers DEF SafeInv, FreshInv, RunSafe
<1>2. Others(r) /\ client' = client /\ epoch' = epoch /\ Started' = Started
  BY <1>1, ServerOthers DEF world, Others
<1>3. Kept
  BY QueueEffect DEF SafeInv
<1>4. FreshInv' /\ KeyInv'
  BY ServerFresh, ServerKeyed DEF SafeInv
<1>5. client[r].epoch = epoch
  <2>1. handler[r].pc # "closed"
    BY DEF ServerStep, ReadParams, NoParams, ReadKey, ReadSign, RequestUnknown, AskQueue,
           GetMsg, SendToUnknown, SendCert, StoreMail, ReadLineFeed, ReadEof, ReadReset,
           Requested, Reads, Reading
  <2> QED
    BY <1>1, <2>1 DEF Local, Timely
<1>6. ASSUME NEW s \in Started \ {r}
      PROVE  RunSafe(s)' /\ Claims(s)' = Claims(s)
  <2>1. \A u \in Users : s \in IdsOf(u)' => s \in IdsOf(u)
    <3> SUFFICES ASSUME NEW u \in Users, NEW n \in DOMAIN queue'[u], queue'[u][n].id = s
                 PROVE  s \in IdsOf(u)
      BY DEF IdsOf
    <3>1. n \in DOMAIN queue[u]
      BY QueueEffect DEF SafeInv
    <3> QED
      BY <1>3, <3>1 DEF Kept, IdsOf
  <2> QED
    BY <1>1, <1>2, <1>3, <2>1, OtherRun DEF Others, SafeInv
<1>7. \A s \in Started : RunSafe(s)'
  BY <1>6, ServerRun
<1>8. \A a, g \in Started' : Agree(a, g)'
  <2>1. \A s \in Started : Claims(s)' \subseteq Claims(s) \/ client[s].epoch = epoch
    BY <1>5, <1>6
  <2>2. \A s \in Started : Numbered(s)'
    BY <1>7 DEF RunSafe
  <2> QED
    BY <1>2, <2>1, <2>2, AgreeKeeps DEF SafeInv
<1>9. Fetched'
  <2> SUFFICES ASSUME NEW u \in Users, NEW n \in DOMAIN queue'[u], queue'[u][n].read
               PROVE  \E s \in Started : Fetches(s, u, n)'
    BY <1>2 DEF Fetched
  <2>1. n \in DOMAIN queue[u] /\ (queue[u][n].read \/ MarkedBy(r, u, n))
    BY QueueEffect DEF SafeInv
  <2>2. CASE queue[u][n].read
    <3>1. PICK s \in Started : Fetches(s, u, n)
      BY <2>1, <2>2 DEF SafeInv, Fetched
    <3>2. queue'[u][n] = queue[u][n]
      BY <1>3, <2>1, <2>2 DEF Kept
    <3>3. wire[s].down # <<>> => wire'[s].down = wire[s].down
      BY <1>1, <1>2, DownEffect DEF Others
    <3>4. Fetches(s, u, n)'
      BY <1>2, <3>1, <3>2, <3>3 DEF Fetches
    <3> QED
      BY <3>4
  <2>3. CASE ~ queue[u][n].read /\ MarkedBy(r, u, n)
    <3> DEFINE m == queue[u][n]
               chunk == [kind |-> "mail", msg |-> m]
    <3>1. /\ GetMsg(r) /\ client[r].user = u /\ client[r].req.num \in {n, 0}
          /\ Answer(r, <<chunk>>) /\ m \in Messages
          /\ queue'[u][n] = [m EXCEPT !.read = TRUE]
      BY <2>3 DEF MarkedBy
    <3>2. [[m EXCEPT !.read = TRUE] EXCEPT !.read = FALSE] = m
      BY <2>3, <3>1 DEF Messages
    <3>3. Reads(r, "request", "request") /\ client[r].req.cmd = "getmsg" /\ "request" \in Reading
      BY <3>1 DEF GetMsg, Requested, Reading
    <3>4. CASE client[r].pc = "left"
      <4>1. Early(client[r])
        BY <1>1, <3>3, <3>4, Served
      <4>2. client[r].told \in {"nothing", "interrupted"}
        BY <1>1, <4>1 DEF Early, Completed, Clients
      <4>3. Fetches(r, u, n)'
        BY <1>2, <1>5, <3>1, <3>3, <3>4, <4>2 DEF Fetches
      <4> QED
        BY <4>3
    <3>5. CASE client[r].pc # "left"
      <4>1. chunk \in Chunks
        BY <3>1 DEF Chunks
      <4>2. <<>> \o <<chunk>> = <<chunk>> /\ Head(<<chunk>>) = chunk
        BY <4>1, ShortWrites
      <4>3. wire'[r].down = <<chunk>>
        BY <1>1, <3>1, <3>3, <3>5, <4>2, Answers DEF Answer
      <4>4. /\ wire'[r].down # <<>>
            /\ Head(wire'[r].down) =
                 [kind |-> "mail", msg |-> [queue'[u][n] EXCEPT !.read = FALSE]]
        BY <3>1, <3>2, <4>2, <4>3
      <4>5. Fetches(r, u, n)'
        BY <1>2, <1>5, <3>1, <3>3, <4>4 DEF Fetches
      <4> QED
        BY <4>5
    <3> QED
      BY <3>4, <3>5
  <2> QED
    BY <2>1, <2>2, <2>3
<1> QED
  BY <1>2, <1>4, <1>7, <1>8, <1>9 DEF SafeInv
(* A new connection takes the next number and leaves the others alone.        *)
LEMMA StartEffect ==
    ASSUME TypeInv, NEW u \in Users, NEW c \in Commands, Start(u, c)
    PROVE  \E r \in Nat :
              /\ Started' = Started \cup {r} /\ r \notin Started
              /\ \A s \in Started : client'[s] = client[s] /\ handler'[s] = handler[s]
                                    /\ wire'[s] = wire[s]
              /\ client'[r] = [user |-> u, req |-> c, key |-> key[u], epoch |-> epoch,
                               pc |-> IF c.cmd = "help" THEN "left" ELSE "reply",
                               told |-> "nothing", shown |-> {}]
              /\ handler'[r] = [pc |-> "params", known |-> FALSE]
              /\ wire'[r] = IF c.cmd = "help"
                            THEN [up |-> <<Chunk("lf")>>, down |-> <<>>, fin |-> "fin"]
                            ELSE [up |-> <<Chunk("params"), Chunk("key")>>, down |-> <<>>,
                                  fin |-> "open"]
              /\ UNCHANGED <<uids, queue, world>>
<1> DEFINE e == [user |-> u, req |-> c, key |-> key[u], epoch |-> epoch,
                 pc |-> IF c.cmd = "help" THEN "left" ELSE "reply",
                 told |-> "nothing", shown |-> {}]
           h == [pc |-> "params", known |-> FALSE]
           w == IF c.cmd = "help"
                THEN [up |-> <<Chunk("lf")>>, down |-> <<>>, fin |-> "fin"]
                ELSE [up |-> <<Chunk("params"), Chunk("key")>>, down |-> <<>>,
                      fin |-> "open"]
           r == Len(client) + 1
<1>1. /\ client' = Append(client, e) /\ handler' = Append(handler, h)
      /\ wire' = Append(wire, w) /\ UNCHANGED <<uids, queue, world>>
  BY DEF Start
<1>2. /\ client \in Seq(Clients \cup {e}) /\ handler \in Seq(Handlers \cup {h})
      /\ wire \in Seq(Wires \cup {w}) /\ Len(handler) = Len(client) /\ Len(wire) = Len(client)
  BY SeqMonotonic DEF TypeInv
<1>3. Len(client) \in Nat /\ Started = 1..Len(client)
  BY Numbers, LenProperties DEF TypeInv
<1> HIDE DEF e, h, w
<1>4. /\ client' \in Seq(Clients \cup {e}) /\ Len(client') = r /\ client'[r] = e
      /\ \A s \in 1..Len(client) : client'[s] = client[s]
  BY <1>1, <1>2, AppendProperties
<1>5. handler'[r] = h /\ \A s \in 1..Len(client) : handler'[s] = handler[s]
  BY <1>1, <1>2, AppendProperties
<1>6. wire'[r] = w /\ \A s \in 1..Len(client) : wire'[s] = wire[s]
  BY <1>1, <1>2, AppendProperties
<1>7. Started' = 1..r
  BY <1>4, LenProperties DEF Started
<1>8. Started' = Started \cup {r} /\ r \notin Started /\ r \in Nat
  BY <1>3, <1>7
<1> QED
  BY <1>1, <1>3, <1>4, <1>5, <1>6, <1>8 DEF e, h, w

(* It has been told nothing and claims nothing.                               *)
LEMMA StartSafe ==
    ASSUME SafeInv, NEW u \in Users, NEW c \in Commands, Start(u, c)
    PROVE  SafeInv'
<1>1. PICK r \in Nat :
         /\ Started' = Started \cup {r} /\ r \notin Started
         /\ \A s \in Started : client'[s] = client[s] /\ handler'[s] = handler[s]
                               /\ wire'[s] = wire[s]
         /\ client'[r] = [user |-> u, req |-> c, key |-> key[u], epoch |-> epoch,
                          pc |-> IF c.cmd = "help" THEN "left" ELSE "reply",
                          told |-> "nothing", shown |-> {}]
         /\ handler'[r] = [pc |-> "params", known |-> FALSE]
         /\ wire'[r] = IF c.cmd = "help"
                       THEN [up |-> <<Chunk("lf")>>, down |-> <<>>, fin |-> "fin"]
                       ELSE [up |-> <<Chunk("params"), Chunk("key")>>, down |-> <<>>,
                             fin |-> "open"]
         /\ UNCHANGED <<uids, queue, world>>
  BY StartEffect DEF SafeInv, FreshInv
<1>2. FreshInv' /\ KeyInv' /\ TypeInv /\ epoch \in Nat /\ \A v \in Users : IdsOf(v) \subseteq Started
  BY StartFresh, StartKeyed DEF SafeInv, FreshInv, TypeInv
<1>3. queue' = queue /\ epoch' = epoch /\ Kept /\ \A v : IdsOf(v)' = IdsOf(v)
  BY <1>1 DEF world, Kept, IdsOf
<1>4. \A s \in Started : RunSafe(s)' /\ Claims(s)' = Claims(s)
  BY <1>1, <1>2, <1>3, OtherRun DEF SafeInv
<1>5. Claims(r)' = {}
  BY <1>1 DEF Claims, Pending
<1>6. RunSafe(r)'
  <2>1. wire'[r].down = <<>> /\ client'[r].told = "nothing" /\ client'[r].shown = {}
    BY <1>1
  <2>2. Two(<<Chunk("params"), Chunk("key")>>, "params", "key")
    BY DEF Two, Chunk
  <2>3. Talk(client[r], handler[r], wire[r])'
    <3>1. CASE c.cmd = "help"
      <4>1. client'[r].pc = "left" /\ wire'[r].fin = "fin"
        BY <1>1, <3>1
      <4> QED
        BY <2>1, <4>1 DEF Talk, TalkLeft, Completed
    <3>2. CASE c.cmd # "help"
      <4>1. /\ client'[r].pc = "reply" /\ wire'[r].fin = "open" /\ handler'[r].pc = "params"
            /\ wire'[r].up = <<Chunk("params"), Chunk("key")>>
        BY <1>1, <3>2
      <4> QED
        BY <2>1, <2>2, <4>1 DEF Talk, TalkReply
    <3> QED
      BY <3>1, <3>2
  <2>4. Unknown(client[r], handler[r], wire[r])' /\ Timely(client[r], handler[r])'
    BY <1>1, <1>2, <1>3 DEF Unknown, Timely
  <2>5. Stored(r)'
    BY <1>1, <1>2, <1>3, <2>1 DEF Stored
  <2>6. Numbered(r)' /\ Positive(r)'
    BY <1>5 DEF Numbered, Positive
  <2> QED
    BY <2>3, <2>4, <2>5, <2>6 DEF RunSafe, Local
<1>7. ASSUME NEW a \in Started', NEW g \in Started'
      PROVE  Agree(a, g)'
  <2>1. CASE a = r \/ g = r
    BY <1>5, <2>1 DEF Agree
  <2>2. CASE a \in Started /\ g \in Started
    BY <1>1, <1>4, <2>2 DEF SafeInv, Agree
  <2> QED
    BY <1>1, <2>1, <2>2
<1>8. Fetched'
  <2> SUFFICES ASSUME NEW v \in Users, NEW n \in DOMAIN queue[v], queue[v][n].read
               PROVE  \E s \in Started' : Fetches(s, v, n)'
    BY <1>3 DEF Fetched
  <2>1. PICK s \in Started : Fetches(s, v, n)
    BY DEF SafeInv, Fetched
  <2>2. Fetches(s, v, n)'
    BY <1>1, <1>3, <2>1 DEF Fetches
  <2> QED
    BY <1>1, <2>2
<1> QED
  BY <1>1, <1>2, <1>4, <1>6, <1>7, <1>8 DEF SafeInv

(* A restart closes every connection, and nobody's claims are about its       *)
(* queues.                                                                    *)
LEMMA RestartSafe ==
    ASSUME SafeInv, Restart
    PROVE  SafeInv'
<1>1. FreshInv' /\ KeyInv' /\ TypeInv /\ epoch \in Nat
  BY RestartFresh, RestartKeyed DEF SafeInv, FreshInv, TypeInv
<1>2. /\ Started' = Started /\ client' = client /\ epoch' = epoch + 1
      /\ queue' = [u \in Users |-> <<>>]
  BY DEF Restart, Started
<1>3. ASSUME NEW r \in Started
      PROVE  /\ handler'[r].pc = "closed" /\ handler'[r].known = handler[r].known
             /\ wire'[r].down = wire[r].down /\ wire'[r].fin = wire[r].fin
             /\ wire'[r].up = <<>>
  <2>1. /\ handler[r] \in Handlers /\ wire[r] \in Wires /\ r \in DOMAIN handler
        /\ r \in DOMAIN wire
    BY <1>1, Numbers
  <2>2. handler'[r] = [handler[r] EXCEPT !.pc = "closed"] /\ wire'[r] = [wire[r] EXCEPT !.up = <<>>]
    BY <2>1 DEF Restart
  <2>3. handler'[r].pc = "closed" /\ handler'[r].known = handler[r].known
    BY <2>1, <2>2 DEF Handlers
  <2>4. /\ wire'[r].down = wire[r].down /\ wire'[r].fin = wire[r].fin
        /\ wire'[r].up = <<>>
    BY <2>1, <2>2 DEF Wires
  <2> QED
    BY <2>3, <2>4
<1>4. \A u \in Users : IdsOf(u)' = {}
  BY <1>2 DEF IdsOf
<1>5. \A s \in Started : Claims(s)' = Claims(s)
  BY <1>2, <1>3 DEF Claims, Pending
<1>6. ASSUME NEW r \in Started
      PROVE  RunSafe(r)'
  <2>1. Talk(client[r], handler[r], wire[r]) /\ Unknown(client[r], handler[r], wire[r])
        /\ client[r].epoch <= epoch /\ client[r].epoch \in Nat
    BY <1>1, Numbers DEF SafeInv, RunSafe, Local, Timely, Clients
  <2>2. client'[r].epoch <= epoch' /\ client'[r].epoch # epoch'
    BY <1>1, <1>2, <2>1
  <2>3. handler'[r].pc \in Over /\ handler'[r].pc # "message"
    BY <1>3 DEF Over
  <2>4. Talk(client[r], handler[r], wire[r])'
    <3>1. TalkReply(handler[r], wire[r]) => TalkReply(handler[r], wire[r])'
      BY <1>3, <2>3 DEF TalkReply
    <3>2. TalkAnswer(handler[r], wire[r]) => TalkAnswer(handler[r], wire[r])'
      BY <1>3, <2>3 DEF TalkAnswer
    <3>3. TalkConfirm(handler[r], wire[r]) => TalkConfirm(handler[r], wire[r])'
      BY <1>3, <2>3 DEF TalkConfirm
    <3>4. TalkLeft(client[r], handler[r], wire[r]) => TalkLeft(client[r], handler[r], wire[r])'
      BY <1>2, <1>3, <2>3 DEF TalkLeft
    <3> QED
      BY <1>2, <1>3, <2>1, <3>1, <3>2, <3>3, <3>4 DEF Talk
  <2>5. Unknown(client[r], handler[r], wire[r])'
    BY <1>2, <1>3, <2>1, <2>3 DEF Unknown
  <2>6. Timely(client[r], handler[r])'
    BY <1>3, <2>2 DEF Timely
  <2>7. Stored(r)'
    BY <1>2, <1>3, <1>4, <2>2 DEF Stored, SafeInv, RunSafe
  <2>8. Numbered(r)'
    BY <2>2 DEF Numbered
  <2>9. Positive(r)'
    BY <1>2, <1>3, <1>5 DEF Positive, SafeInv, RunSafe
  <2> QED
    BY <2>4, <2>5, <2>6, <2>7, <2>8, <2>9 DEF RunSafe, Local
<1>7. \A a, g \in Started' : Agree(a, g)'
  BY <1>2, <1>5 DEF SafeInv, Agree
<1>8. Fetched'
  BY <1>2 DEF Fetched
<1> QED
  BY <1>1, <1>2, <1>6, <1>7, <1>8 DEF SafeInv

(* Every step keeps it.                                                       *)
LEMMA SafeNext == SafeInv /\ [Next]_vars => SafeInv'
<1> SUFFICES ASSUME SafeInv, [Next]_vars PROVE SafeInv'
  OBVIOUS
<1>1. FreshInv' /\ KeyInv'
  BY FreshNext, KeyInvNext DEF SafeInv
<1>2. ASSUME UNCHANGED <<client, handler, wire, queue, epoch>> PROVE SafeInv'
  <2>1. Started' = Started /\ \A r : Claims(r)' = Claims(r)
    BY <1>2 DEF Started, Claims, Pending
  <2>2. \A r \in Started : RunSafe(r)'
    BY <1>2, <2>1 DEF SafeInv, RunSafe, Local, Timely, Stored, Numbered, Positive, IdsOf
  <2>3. \A a, g \in Started : Agree(a, g)'
    BY <1>2, <2>1 DEF SafeInv, Agree
  <2>4. Fetched'
    BY <1>2, <2>1 DEF SafeInv, Fetched, Fetches
  <2> QED
    BY <1>1, <2>1, <2>2, <2>3, <2>4 DEF SafeInv
<1>3. ASSUME NEW u \in Users, Renew(u) PROVE SafeInv'
  BY <1>2, <1>3 DEF Renew, server
<1>4. ASSUME NEW c \in Certs, Expire(c) PROVE SafeInv'
  BY <1>2, <1>4 DEF Expire, server
<1>5. CASE UNCHANGED vars
  BY <1>2, <1>5 DEF vars, world
<1> QED
  BY <1>3, <1>4, <1>5, StartSafe, ClientSafe, ServerSafe, RestartSafe DEF Next

(* At the start nobody is connected.                                          *)
LEMMA SafeInit == Init => SafeInv
<1> SUFFICES ASSUME Init PROVE SafeInv
  OBVIOUS
<1>1. Started = {} /\ \A u \in Users : DOMAIN queue[u] = {}
  BY DEF Init, Started
<1> QED
  BY <1>1, FreshInit, KeyInvInit DEF SafeInv, Fetched

------------------------------------------------------------------------------
(* handle_echo ignores the -1 of a certificate that is not valid and goes on   *)
(* with the connection: whatever its client sends then, it is told nothing and *)
(* nothing of it is stored.                                                    *)
THEOREM UnverifiedNothing == Spec => []UnverifiedGetsNothing
<1>1. SafeInv => UnverifiedGetsNothing
  BY DEF SafeInv, RunSafe, Local, Unknown, Stored, UnverifiedGetsNothing
<1> QED
  BY <1>1, SafeInit, SafeNext, PTL DEF Spec

(* The loop of handle_echo at end of file, which keeps the server from all     *)
(* others, is only entered for a client that ended early: each that ran to its *)
(* end has left a line feed to be read first, however reads split and join     *)
(* what it wrote.                                                              *)
THEOREM NeverSticks == Spec => []CompletedNeverSticks
<1>1. SafeInv => CompletedNeverSticks
  <2> SUFFICES ASSUME SafeInv, NEW r \in Started, handler[r].pc = "spin"
               PROVE  /\ client[r].pc = "left"
                      /\ client[r].told \in {"nothing", "interrupted", "nouid"}
    BY DEF CompletedNeverSticks
  <2>1. Talk(client[r], handler[r], wire[r]) /\ client[r] \in Clients
    BY Numbers DEF SafeInv, RunSafe, Local, FreshInv
  <2>2. client[r].pc = "left"
    BY <2>1 DEF Talk, TalkReply, TalkAnswer, TalkConfirm, Over, Clients, Waiting
  <2> QED
    BY <2>1, <2>2 DEF Talk, TalkLeft, Over, Completed, Clients
<1> QED
  BY <1>1, SafeInit, SafeNext, PTL DEF Spec

(* The confirmation that handle_echo writes after every send, the refused ones *)
(* included, never tells a sender what is not so.                              *)
THEOREM ToldTruth == Spec => []ToldIsTrue
<1>1. SafeInv => ToldIsTrue
  BY DEF SafeInv, RunSafe, Stored, ToldIsTrue
<1> QED
  BY <1>1, SafeInit, SafeNext, PTL DEF Spec

(* The numbers of askqueue are those getmsg indexes message_queue with, for as *)
(* long as the server runs.                                                    *)
THEOREM NumbersStay == Spec => []NumbersHold
<1>1. SafeInv => NumbersHold
  <2> SUFFICES ASSUME SafeInv, NEW a \in Started, NEW g \in Started,
                      client[a].told = "list",
                      client[a].user = client[g].user, client[a].epoch = client[g].epoch,
                      NEW x \in client[a].shown, NEW y \in client[g].shown, x[1] = y[1]
               PROVE  x[2] = y[2]
    BY DEF NumbersHold
  <2>1. x \in Claims(a) /\ y \in Claims(g)
    BY DEF Claims
  <2>2. x[1] >= 1
    BY <2>1 DEF SafeInv, RunSafe, Positive
  <2> QED
    BY <2>1, <2>2 DEF SafeInv, Agree
<1> QED
  BY <1>1, SafeInit, SafeNext, PTL DEF Spec

(* GETMSG marks a message before the answer is sent: whoever was interrupted,  *)
(* failed or was slow meanwhile, a marked message was fetched by its owner.    *)
THEOREM MarkedWasFetched == Spec => []ReadWasFetched
<1>1. SafeInv => ReadWasFetched
  BY DEF SafeInv, Fetched, Fetches, ReadWasFetched
<1> QED
  BY <1>1, SafeInit, SafeNext, PTL DEF Spec
==============================================================================
