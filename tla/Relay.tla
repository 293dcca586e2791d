-------------------------------- MODULE Relay --------------------------------
(* The message relay of TP1: one asyncio server (msg_server.py) that keeps a   *)
(* queue of messages for each pseudonym, and clients (msg_client.py) that run  *)
(* one command each over a TCP connection of their own: a handshake, then a    *)
(* request, its answer, and a line feed before the connection is closed.       *)
(*                                                                            *)
(* A connection carries what the two ends write as a stream without lengths:   *)
(* one read may take several of the chunks that have arrived.  Handlers run    *)
(* on one event loop, so what a handler does between two awaits is one step,   *)
(* and a handler that turns without an await keeps every other from running.   *)
EXTENDS Integers, Sequences, FiniteSets

CONSTANTS Users,        \* pseudonyms of the clients
          None,         \* a pseudonym that is not registered
          Offered,      \* bound: the commands that users give
          MaxRuns,      \* bound: commands started, one connection each
          MaxOpen,      \* bound: clients running at the same time
          MaxTake,      \* bound: chunks that one read returns
          MaxInterrupts,\* bound: clients stopped by their user
          MaxNum,       \* bound: numbers asked of getmsg
          MaxListed,    \* entries of an askqueue answer that fit max_msg_size
          MaxKey,       \* bound: times a user renews the key and certificate
          MaxExpired,   \* bound: certificates that expire
          MaxRestarts   \* bound: restarts of the server

ASSUME RelayAssumption ==
    /\ MaxRuns \in Nat
    /\ MaxTake \in Nat
    /\ MaxNum \in Nat
    /\ MaxKey \in Nat
    /\ None \notin Users \X (0..MaxKey)

Runs  == 1..MaxRuns
Certs == Users \X (0..MaxKey)   \* whose, and the key it certifies

(* A stored message: the run that sent it, the certificate in it, the one it   *)
(* is encrypted for, and whether it was fetched.                               *)
Messages == [id : Runs, from : Certs, to : Certs, read : BOOLEAN]

(* "bare" is a send without a subject, "help" stands for every command line     *)
(* that the client itself answers.                                              *)
Commands == [cmd : {"askqueue", "bare", "help"}]
            \cup [cmd : {"getmsg"}, num : 0..MaxNum]
            \cup [cmd : {"send"}, to : Users]

VARIABLES client,   \* client[r]: the process of run r
          handler,  \* handler[r]: the server's task for its connection
          wire,     \* wire[r]: chunks written and not read, and the client's end
          uids,     \* the certificate registered for each pseudonym
          queue,    \* message_queue
          key,      \* the key and certificate now in each user's .p12 file
          expired,  \* certificates past their date
          epoch     \* restarts of the server so far

server == <<handler, uids, queue>>
world  == <<key, expired, epoch>>
vars   == <<client, handler, wire, uids, queue, world>>

Started == DOMAIN client
Waiting == {"reply", "answer", "confirm"}
Reading == {"params", "key", "sign", "request", "message"}

Init ==
    /\ client = <<>> /\ handler = <<>> /\ wire = <<>>
    /\ uids = [u \in Users |-> None]
    /\ queue = [u \in Users |-> <<>>]
    /\ key = [u \in Users |-> 0]
    /\ expired = {}
    /\ epoch = 0

Now(u) == <<u, key[u]>>

Chunk(kind) == [kind |-> kind]

(* One read returns the first chunk that waits or several: what may be left.   *)
AfterRead(s) ==
    {SubSeq(s, k + 1, Len(s)) : k \in {i \in 1..MaxTake : i <= Len(s)}}

(* The server writes to w; a client that is gone answers with a reset, which   *)
(* the next read sees, or the end of file that came before it.                 *)
Written(w, chunks) ==
    IF w.fin = "open"
    THEN {[w EXCEPT !.down = @ \o chunks]}
    ELSE {[w EXCEPT !.fin = f] : f \in {w.fin, "reset"}}

------------------------------------------------------------------------------
(* The client                                                                 *)

Running == {r \in Started : client[r].pc # "left"}

Start(u, c) ==
    /\ Len(client) < MaxRuns
    /\ Cardinality(Running) < MaxOpen
    /\ client' = Append(client,
         [user |-> u, req |-> c, key |-> key[u], epoch |-> epoch,
          pc |-> IF c.cmd = "help" THEN "left" ELSE "reply",
          told |-> "nothing", shown |-> {}])
    /\ handler' = Append(handler, [pc |-> "params", known |-> FALSE])
    /\ wire' = Append(wire,
         IF c.cmd = "help"
         THEN [up |-> <<Chunk("lf")>>, down |-> <<>>, fin |-> "fin"]
         ELSE [up |-> <<Chunk("params"), Chunk("key")>>, down |-> <<>>,
               fin |-> "open"])
    /\ UNCHANGED <<uids, queue, world>>

(* Variant: leaves without the line feed.                                      *)
FinishSilent(r, told, shown) ==
    /\ client' = [client EXCEPT ![r].pc = "left", ![r].told = told,
                                ![r].shown = shown]
    /\ wire' = [wire EXCEPT ![r].down = <<>>, ![r].fin = "fin"]

(* The run ends with its line feed: all that was written to it has been read.  *)
Finish(r, told, shown) ==
    /\ client' = [client EXCEPT ![r].pc = "left", ![r].told = told,
                                ![r].shown = shown]
    /\ wire' = [wire EXCEPT ![r] =
                  [up |-> Append(@.up, Chunk("lf")), down |-> <<>>, fin |-> "fin"]]

(* The process ends without it, by an exception or an early return, after      *)
(* writing "last"; with input unread the connection may be reset.              *)
Quit(r, told, last, unread) ==
    /\ client' = [client EXCEPT ![r].pc = "left", ![r].told = told]
    /\ \E f \in (IF unread = <<>> THEN {"fin"} ELSE {"fin", "reset"}) :
         wire' = [wire EXCEPT ![r] =
                    [up |-> @.up \o last, down |-> <<>>, fin |-> f]]

Hears(r, pc, kind) ==
    /\ client[r].pc = pc
    /\ wire[r].down # <<>>
    /\ Head(wire[r].down).kind = kind

(* The client goes on: it writes more and waits for the next answer.           *)
Proceed(r, chunks, pc) ==
    /\ client' = [client EXCEPT ![r].pc = pc]
    /\ wire' = [wire EXCEPT ![r].up = @ \o chunks, ![r].down = Tail(@)]

ReadReply(r) ==
    LET signed == [kind |-> "sign", cert |-> Now(client[r].user),
                   by |-> <<client[r].user, client[r].key>>]
    IN
    /\ Hears(r, "reply", "reply")
    /\ IF client[r].req.cmd = "bare"
       THEN Quit(r, "nothing", <<signed>>, <<>>)
       ELSE Proceed(r, <<signed, Chunk("request")>>, "answer")
    /\ UNCHANGED <<server, world>>

(* The certificate of the addressee: the message goes out encrypted for it.    *)
ReadCert(r) ==
    LET cert == Head(wire[r].down).cert
        mail == [id |-> r, from |-> Now(client[r].user), to |-> cert, read |-> FALSE]
    IN
    /\ Hears(r, "answer", "cert")
    /\ IF cert \in expired
       THEN Quit(r, "nothing", <<>>, <<>>)
       ELSE Proceed(r, <<[kind |-> "mail", msg |-> mail]>>, "confirm")
    /\ UNCHANGED <<server, world>>

(* A refusal is printed and the client returns; read together with the         *)
(* confirmation that follows it, it cannot be parsed.                          *)
ReadNoUid(r) ==
    /\ Hears(r, "answer", "nouid")
    /\ \E rest \in AfterRead(wire[r].down) :
         Quit(r, IF rest = Tail(wire[r].down) THEN "nouid" ELSE "nothing", <<>>, rest)
    /\ UNCHANGED <<server, world>>

(* askqueue carries the keys of the last message only: subjects of other       *)
(* senders are skipped, and another subject of the same sender does not        *)
(* decrypt.                                                                    *)
Last(list) == CHOOSE x \in list : \A y \in list : y.num <= x.num

Unreadable(list, u) ==
    LET last == Last(list) IN
    \/ Cardinality(list) > MaxListed
    \/ last.msg.to # Now(u)
    \/ \E x \in list \ {last} : x.msg.from = last.msg.from

ReadList(r) ==
    LET list == Head(wire[r].down).list
        last == Last(list)
    IN
    /\ Hears(r, "answer", "list")
    /\ IF Unreadable(list, client[r].user)
       THEN Quit(r, "nothing", <<>>, <<>>)
       ELSE Finish(r, "list", {<<last.num, last.msg.id>>})
    /\ UNCHANGED <<server, world>>

ReadMail(r) ==
    LET msg == Head(wire[r].down).msg IN
    /\ Hears(r, "answer", "mail")
    /\ IF msg.to # Now(client[r].user)
       THEN Quit(r, "nothing", <<>>, <<>>)
       ELSE Finish(r, "mail", {<<client[r].req.num, msg.id>>})
    /\ UNCHANGED <<server, world>>

ReadNothing(r) ==
    /\ \/ Hears(r, "answer", "empty")
       \/ Hears(r, "answer", "unknown")
    /\ Finish(r, Head(wire[r].down).kind, {})
    /\ UNCHANGED <<server, world>>

ReadConfirm(r) ==
    /\ Hears(r, "confirm", "queued")
    /\ Finish(r, "queued", {})
    /\ UNCHANGED <<server, world>>

(* The server has closed the connection: the client fails, or takes the empty  *)
(* read for a confirmation and prints nothing.                                 *)
ReadEnd(r) ==
    /\ client[r].pc \in Waiting
    /\ wire[r].down = <<>>
    /\ handler[r].pc = "closed"
    /\ Quit(r, "nothing", <<>>, <<>>)
    /\ UNCHANGED <<server, world>>

(* ^C at the client.                                                          *)
Interrupt(r) ==
    /\ client[r].pc \in Waiting
    /\ Cardinality({i \in Started : client[i].told = "interrupted"}) < MaxInterrupts
    /\ Quit(r, "interrupted", <<>>, wire[r].down)
    /\ UNCHANGED <<server, world>>

(* A new .p12 file for the same pseudonym; a certificate past its date.        *)
Renew(u) ==
    /\ key[u] < MaxKey
    /\ key' = [key EXCEPT ![u] = @ + 1]
    /\ UNCHANGED <<client, server, wire, expired, epoch>>

Expire(c) ==
    /\ c[2] <= key[c[1]]
    /\ Cardinality(expired \cup {c}) <= MaxExpired
    /\ expired' = expired \cup {c}
    /\ UNCHANGED <<client, server, wire, key, epoch>>

------------------------------------------------------------------------------
(* The server                                                                 *)

(* No handler turns at end of file.                                           *)
Serving == \A r \in DOMAIN handler : handler[r].pc # "spin"

Reads(r, pc, kind) ==
    /\ Serving
    /\ handler[r].pc = pc
    /\ wire[r].fin # "reset"
    /\ wire[r].up # <<>>
    /\ Head(wire[r].up).kind = kind

Take(r) == \E rest \in AfterRead(wire[r].up) : wire' = [wire EXCEPT ![r].up = rest]

TakeAndWrite(r, chunks) ==
    \E rest \in AfterRead(wire[r].up) :
      \E w \in Written([wire[r] EXCEPT !.up = rest], chunks) :
        wire' = [wire EXCEPT ![r] = w]

Goes(r, pc) == handler' = [handler EXCEPT ![r].pc = pc]

(* An exception ends the task; whether the transport is closed then depends on *)
(* the version of asyncio, and matters while the client is there.              *)
Dies(r) ==
    \E pc \in (IF wire[r].fin = "open" THEN {"closed", "dead"} ELSE {"closed"}) :
        Goes(r, pc)

TakeAll(r) == wire' = [wire EXCEPT ![r].up = <<>>]

(* The parameters, and whatever was read with them.                           *)
ReadParams(r) ==
    /\ Reads(r, "params", "params")
    /\ Take(r) /\ Goes(r, "key")
    /\ UNCHANGED <<client, uids, queue, world>>

(* A client that only leaves: its line feed is no parameters.                  *)
NoParams(r) ==
    /\ Reads(r, "params", "lf")
    /\ TakeAll(r) /\ Dies(r)
    /\ UNCHANGED <<client, uids, queue, world>>

ReadKey(r) ==
    /\ Reads(r, "key", "key")
    /\ TakeAndWrite(r, <<Chunk("reply")>>)
    /\ Goes(r, "sign")
    /\ UNCHANGED <<client, uids, queue, world>>

(* Variant: the last certificate counts.                                       *)
RegisterLatest(cert) ==
    /\ uids' = [uids EXCEPT ![cert[1]] = cert]
    /\ UNCHANGED queue

(* uid_gen                                                                    *)
Register(cert) ==
    /\ uids' = [uids EXCEPT ![cert[1]] = IF @ = None THEN cert ELSE @]
    /\ UNCHANGED queue

(* The certificate, then the signature.  handle_echo ignores the -1 of a        *)
(* certificate that is not valid; the connection then has no key.               *)
ReadSign(r) ==
    LET chunk == Head(wire[r].up) IN
    /\ Reads(r, "sign", "sign")
    /\ Take(r)
    /\ IF chunk.cert \in expired
       THEN Goes(r, "request") /\ UNCHANGED <<uids, queue>>
       ELSE /\ Register(chunk.cert)
            /\ IF chunk.by = chunk.cert
               THEN handler' = [handler EXCEPT ![r] = [pc |-> "request", known |-> TRUE]]
               ELSE Dies(r)
    /\ UNCHANGED <<client, world>>

(* Variant: serves a connection without a key.                                 *)
RequestedAnyway(r, cmd) ==
    /\ Reads(r, "request", "request")
    /\ client[r].req.cmd = cmd

Requested(r, cmd) ==
    /\ Reads(r, "request", "request")
    /\ handler[r].known
    /\ client[r].req.cmd = cmd

(* The answer is written and the next request awaited.                         *)
Answer(r, chunks) == TakeAndWrite(r, chunks) /\ Goes(r, "request")

RequestUnknown(r) ==
    /\ Reads(r, "request", "request")
    /\ ~ handler[r].known
    /\ TakeAll(r) /\ Dies(r)
    /\ UNCHANGED <<client, uids, queue, world>>

(* Variants: numbers the unread messages only; takes those listed for read.    *)
AskQueueRenumbered(r) ==
    LET q == SelectSeq(queue[client[r].user], LAMBDA m : ~ m.read)
    IN
    /\ Requested(r, "askqueue")
    /\ Answer(r, IF q = <<>>
                 THEN <<Chunk("empty")>>
                 ELSE <<[kind |-> "list",
                         list |-> {[num |-> n, msg |-> q[n]] : n \in DOMAIN q}]>>)
    /\ UNCHANGED <<client, uids, queue, world>>

AskQueueMarks(r) ==
    LET u == client[r].user
        q == queue[u]
        unread == {[num |-> n, msg |-> q[n]] : n \in {m \in DOMAIN q : ~ q[m].read}}
    IN
    /\ Requested(r, "askqueue")
    /\ Answer(r, IF unread = {}
                 THEN <<Chunk("empty")>>
                 ELSE <<[kind |-> "list", list |-> unread]>>)
    /\ queue' = [queue EXCEPT ![u] = [n \in DOMAIN q |-> [q[n] EXCEPT !.read = TRUE]]]
    /\ UNCHANGED <<client, uids, world>>

AskQueue(r) ==
    LET q == queue[client[r].user]
        unread == {[num |-> n, msg |-> q[n]] : n \in {m \in DOMAIN q : ~ q[m].read}}
    IN
    /\ Requested(r, "askqueue")
    /\ Answer(r, IF unread = {}
                 THEN <<Chunk("empty")>>
                 ELSE <<[kind |-> "list", list |-> unread]>>)
    /\ UNCHANGED <<client, uids, queue, world>>

(* uid_queue[int(num) - 1]: below zero Python counts from the end.             *)
Index(q, num) == IF num >= 1 THEN num ELSE Len(q) + num

GetMsg(r) ==
    LET u == client[r].user
        num == client[r].req.num
        n == Index(queue[u], num)
    IN
    /\ Requested(r, "getmsg")
    /\ CASE num > Len(queue[u]) ->
              Answer(r, <<Chunk("unknown")>>) /\ UNCHANGED queue
         [] num <= Len(queue[u]) /\ n < 1 ->
              TakeAll(r) /\ Dies(r) /\ UNCHANGED queue
         [] OTHER ->
              /\ queue' = [queue EXCEPT ![u][n].read = TRUE]
              /\ Answer(r, <<[kind |-> "mail", msg |-> queue[u][n]]>>)
    /\ UNCHANGED <<client, uids, world>>

(* The -1 of handle_get_target_data_command is ignored: the confirmation        *)
(* follows the refusal.                                                         *)
SendToUnknown(r) ==
    /\ Requested(r, "send")
    /\ uids[client[r].req.to] = None
    /\ Answer(r, <<Chunk("nouid"), Chunk("queued")>>)
    /\ UNCHANGED <<client, uids, queue, world>>

SendCert(r) ==
    LET cert == uids[client[r].req.to] IN
    /\ Requested(r, "send")
    /\ cert # None
    /\ TakeAndWrite(r, <<[kind |-> "cert", cert |-> cert]>>)
    /\ Goes(r, "message")
    /\ UNCHANGED <<client, uids, queue, world>>

(* Variants: stores what was read as it is; drops it; puts it first; and does   *)
(* not tell the sender.                                                         *)
StoreMailRaw(r) ==
    /\ Reads(r, "message", "mail")
    /\ queue' = [queue EXCEPT ![client[r].req.to] = Append(@, Head(wire[r].up))]
    /\ Answer(r, <<Chunk("queued")>>)
    /\ UNCHANGED <<client, uids, world>>

StoreMailLost(r) ==
    /\ Reads(r, "message", "mail")
    /\ Answer(r, <<Chunk("queued")>>)
    /\ UNCHANGED <<client, uids, queue, world>>

StoreMailFirst(r) ==
    /\ Reads(r, "message", "mail")
    /\ queue' = [queue EXCEPT ![client[r].req.to] = <<Head(wire[r].up).msg>> \o @]
    /\ Answer(r, <<Chunk("queued")>>)
    /\ UNCHANGED <<client, uids, world>>

StoreMailSilent(r) ==
    /\ Reads(r, "message", "mail")
    /\ queue' = [queue EXCEPT ![client[r].req.to] = Append(@, Head(wire[r].up).msg)]
    /\ Answer(r, <<>>)
    /\ UNCHANGED <<client, uids, world>>

StoreMail(r) ==
    /\ Reads(r, "message", "mail")
    /\ queue' = [queue EXCEPT ![client[r].req.to] = Append(@, Head(wire[r].up).msg)]
    /\ Answer(r, <<Chunk("queued")>>)
    /\ UNCHANGED <<client, uids, world>>

ReadLineFeed(r) ==
    /\ Reads(r, "request", "lf")
    /\ Take(r) /\ Goes(r, "closed")
    /\ UNCHANGED <<client, uids, queue, world>>

(* The client left without its line feed: handle_echo goes round for ever, any  *)
(* other read gives the handler nothing to parse.                               *)
ReadEof(r) ==
    /\ Serving
    /\ handler[r].pc \in Reading
    /\ wire[r].fin = "fin" /\ wire[r].up = <<>>
    /\ IF handler[r].pc = "request" THEN Goes(r, "spin") ELSE Dies(r)
    /\ UNCHANGED <<client, wire, uids, queue, world>>

ReadReset(r) ==
    /\ Serving
    /\ handler[r].pc \in Reading
    /\ wire[r].fin = "reset"
    /\ Dies(r)
    /\ UNCHANGED <<client, wire, uids, queue, world>>

(* ^C at the server and a new start: uids and message_queue are empty again.   *)
Restart ==
    /\ epoch < MaxRestarts
    /\ epoch' = epoch + 1
    /\ handler' = [r \in DOMAIN handler |-> [handler[r] EXCEPT !.pc = "closed"]]
    /\ wire' = [r \in DOMAIN wire |-> [wire[r] EXCEPT !.up = <<>>]]
    /\ uids' = [u \in Users |-> None]
    /\ queue' = [u \in Users |-> <<>>]
    /\ UNCHANGED <<client, key, expired>>

------------------------------------------------------------------------------
ClientStep(r) ==
    \/ ReadReply(r) \/ ReadCert(r) \/ ReadNoUid(r) \/ ReadList(r) \/ ReadMail(r)
    \/ ReadNothing(r) \/ ReadConfirm(r) \/ ReadEnd(r)

ServerStep(r) ==
    \/ ReadParams(r) \/ NoParams(r) \/ ReadKey(r) \/ ReadSign(r)
    \/ RequestUnknown(r) \/ AskQueue(r) \/ GetMsg(r) \/ SendToUnknown(r)
    \/ SendCert(r) \/ StoreMail(r) \/ ReadLineFeed(r) \/ ReadEof(r) \/ ReadReset(r)

Next ==
    \/ \E u \in Users, c \in Commands : c.cmd \in Offered /\ Start(u, c)
    \/ \E r \in Started : ClientStep(r) \/ ServerStep(r) \/ Interrupt(r)
    \/ \E u \in Users : Renew(u)
    \/ \E c \in Certs : Expire(c)
    \/ Restart

Spec == Init /\ [][Next]_vars

(* Clients are processes of their own; the event loop runs ready handlers in    *)
(* the order they became ready.  Nobody has to start, interrupt, renew or       *)
(* restart anything.                                                            *)
Fairness == \A r \in Runs : WF_vars(r \in Started /\ ClientStep(r))
                         /\ WF_vars(r \in Started /\ ServerStep(r))

FairSpec == Spec /\ Fairness

------------------------------------------------------------------------------
Listed == [num : Nat, msg : Messages]

Chunks ==
    [kind : {"params", "key", "reply", "request", "lf", "nouid", "queued",
             "empty", "unknown"}]
    \cup [kind : {"sign"}, cert : Certs, by : Certs]
    \cup [kind : {"cert"}, cert : Certs]
    \cup [kind : {"mail"}, msg : Messages]
    \cup [kind : {"list"}, list : SUBSET Listed]

Clients ==
    [user : Users, req : Commands, key : 0..MaxKey, epoch : Nat,
     pc : Waiting \cup {"left"},
     told : {"nothing", "interrupted", "nouid", "queued", "list", "mail", "empty",
             "unknown"},
     shown : SUBSET (Nat \X Runs)]

Handlers == [pc : Reading \cup {"closed", "dead", "spin"}, known : BOOLEAN]

Wires == [up : Seq(Chunks), down : Seq(Chunks), fin : {"open", "fin", "reset"}]

(* Client processes, server tasks, connections and queues have the shapes that  *)
(* msg_client.py and msg_server.py give them.                                    *)
TypeOK ==
    /\ client \in Seq(Clients)
    /\ Len(client) <= MaxRuns
    /\ handler \in [Started -> Handlers]
    /\ wire \in [Started -> Wires]
    /\ uids \in [Users -> Certs \cup {None}]
    /\ queue \in [Users -> Seq(Messages)]
    /\ key \in [Users -> 0..MaxKey]
    /\ expired \subseteq Certs
    /\ epoch \in Nat

IdsOf(u) == {queue[u][n].id : n \in DOMAIN queue[u]}

(* What a sender is told is what happened, though the server confirms even the  *)
(* send it has refused: "queued" means stored in the addressee's queue, unless   *)
(* the server restarted, and a refused send is stored nowhere.                    *)
ToldIsTrue ==
    \A r \in Started :
        /\ client[r].told = "queued" /\ client[r].epoch = epoch
              => r \in IdsOf(client[r].req.to)
        /\ client[r].told = "nouid" => \A u \in Users : r \notin IdsOf(u)

(* The number askqueue showed for a message fetches that message, whatever other *)
(* clients sent or fetched meanwhile, as long as the server was not restarted.    *)
NumbersHold ==
    \A a, g \in Started :
        /\ client[a].told = "list" /\ client[g].told = "mail"
        /\ client[a].user = client[g].user /\ client[a].epoch = client[g].epoch
        => \A x \in client[a].shown, y \in client[g].shown :
              x[1] = y[1] => x[2] = y[2]

(* All messages of a queue are encrypted for one certificate, the registered one, *)
(* even when their senders got it before others were registered or stored.        *)
OneKeyPerQueue ==
    \A u \in Users : \A n \in DOMAIN queue[u] : queue[u][n].to = uids[u]

(* GETMSG marks before it answers: a message marked as read was shown to its      *)
(* owner, or is on its way, or the owner's client has failed or was interrupted.   *)
ReadWasFetched ==
    \A u \in Users : \A n \in DOMAIN queue[u] : queue[u][n].read =>
        \E r \in Started :
            /\ client[r].user = u /\ client[r].epoch = epoch
            /\ client[r].req.cmd = "getmsg"
            /\ \/ \E x \in client[r].shown : x[2] = queue[u][n].id
               \/ /\ wire[r].down # <<>>
                  /\ Head(wire[r].down) =
                       [kind |-> "mail", msg |-> [queue[u][n] EXCEPT !.read = FALSE]]
               \/ /\ client[r].told \in {"nothing", "interrupted"} /\ client[r].pc = "left"
                  /\ client[r].req.num \in {n, 0}

(* A client whose certificate was refused gets no answer and stores nothing,       *)
(* although handle_echo goes on with its connection.                               *)
UnverifiedGetsNothing ==
    \A r \in Started : ~ handler[r].known =>
        /\ client[r].told \in {"nothing", "interrupted"}
        /\ \A u \in Users : r \notin IdsOf(u)

(* Only a client that ended early makes handle_echo turn at end of file: one whose *)
(* command ran to its end never keeps the server from the others.                  *)
CompletedNeverSticks ==
    \A r \in Started : handler[r].pc = "spin" =>
        /\ client[r].pc = "left"
        /\ client[r].told \in {"nothing", "interrupted", "nouid"}

(* The queues are the promised mailboxes: nothing is stored twice, overwritten,     *)
(* moved or lost between restarts.                                                  *)
box == [u \in Users |-> [n \in DOMAIN queue[u] |->
           [id |-> queue[u][n].id, read |-> queue[u][n].read]]]

Promise == INSTANCE Mailbox WITH Ids <- Runs

ImplementsMailbox == Promise!Spec

(* Two chunks of the handshake read as one: each end waits for the other.            *)
Swallowed(r) ==
    \/ client[r].pc = "reply" /\ handler[r].pc = "key" /\ wire[r].up = <<>>
    \/ /\ client[r].pc = "answer" /\ handler[r].pc = "request"
       /\ wire[r].up = <<>> /\ wire[r].down = <<>>

(* Every command ends, unless two chunks of its handshake were read as one, its       *)
(* handler failed and left the connection open, or the event loop is stuck: no other  *)
(* wait of client and server for each other goes on for ever.                         *)
EndsUnless ==
    \A r \in Runs :
        r \in Started ~>
            \/ ~ Serving
            \/ /\ r \in Started
               /\ client[r].pc = "left" \/ Swallowed(r) \/ handler[r].pc = "dead"

(* msg_server.py: "Serve requests until Ctrl+C is pressed".  What a client writes     *)
(* first is read in the end.  (The code breaks this: see ReadEof.)                    *)
EveryConnectionRead ==
    \A r \in Runs : (r \in Started /\ handler[r].pc = "params")
                        ~> (r \in Started /\ handler[r].pc # "params")

==============================================================================
