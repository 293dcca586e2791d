------------------------- MODULE RelayMailboxProofs -------------------------
(* The relay of TP1 keeps what Mailbox promises, for any number of users,     *)
(* runs, keys and restarts: every step of clients and server is one of the    *)
(* abstract mailboxes or leaves them as they are.                             *)
EXTENDS RelayProofs

------------------------------------------------------------------------------
(* The mailbox of a queue.                                                    *)
Letters == [id : Runs, read : BOOLEAN]

BoxOf(q) == [n \in DOMAIN q |-> [id |-> q[n].id, read |-> q[n].read]]

LEMMA BoxAt ==
    ASSUME NEW q, NEW n \in DOMAIN q
    PROVE  BoxOf(q)[n] = [id |-> q[n].id, read |-> q[n].read]
  BY DEF BoxOf

(* The mailbox of a queue is a sequence of letters, as long as the queue.     *)
LEMMA BoxType ==
    ASSUME NEW q \in Seq(Messages)
    PROVE  BoxOf(q) \in Seq(Letters) /\ Len(BoxOf(q)) = Len(q)
  <1>1. DOMAIN q = 1..Len(q) /\ Len(q) \in Nat /\ \A n \in 1..Len(q) : q[n] \in Messages
    BY LenProperties, ElementOfSeq
  <1>2. BoxOf(q) \in [1..Len(q) -> Letters]
    BY <1>1 DEF BoxOf, Messages, Letters
  <1>3. QED
    BY <1>1, <1>2

(* An empty queue, a queue with one more message, a message marked as read.   *)
LEMMA BoxEmpty == BoxOf(<<>>) = <<>>
  <1>1. BoxOf(<<>>) \in Seq(Letters) /\ Len(BoxOf(<<>>)) = Len(<<>>)
    BY BoxType, EmptySeq
  <1>2. QED
    BY <1>1, EmptySeq

(* Storing a message in the queue delivers its letter.                        *)
LEMMA BoxAppend ==
    ASSUME NEW q \in Seq(Messages), NEW m \in Messages
    PROVE  BoxOf(Append(q, m)) = Append(BoxOf(q), [id |-> m.id, read |-> m.read])
  <1> DEFINE x == [id |-> m.id, read |-> m.read]
             s == BoxOf(Append(q, m))
             t == Append(BoxOf(q), x)
  <1>1. /\ Append(q, m) \in Seq(Messages) /\ Len(Append(q, m)) = Len(q) + 1
        /\ \A n \in 1..Len(q) : Append(q, m)[n] = q[n]
        /\ Append(q, m)[Len(q) + 1] = m
        /\ Len(q) \in Nat /\ DOMAIN q = 1..Len(q)
        /\ DOMAIN Append(q, m) = 1..(Len(q) + 1)
    BY AppendProperties, LenProperties
  <1>2. s \in Seq(Letters) /\ Len(s) = Len(q) + 1
    BY <1>1, BoxType
  <1>3. x \in Letters /\ BoxOf(q) \in Seq(Letters) /\ Len(BoxOf(q)) = Len(q)
    BY BoxType DEF Letters, Messages
  <1>4. /\ t \in Seq(Letters) /\ Len(t) = Len(q) + 1
        /\ \A n \in 1..Len(q) : t[n] = BoxOf(q)[n]
        /\ t[Len(q) + 1] = x
    BY <1>3, AppendProperties
  <1>5. ASSUME NEW n \in 1..(Len(q) + 1) PROVE s[n] = t[n]
    <2>1. s[n] = [id |-> Append(q, m)[n].id, read |-> Append(q, m)[n].read]
      BY <1>1, BoxAt
    <2>2. CASE n = Len(q) + 1
      <3>1. Append(q, m)[n] = m /\ t[n] = x
        BY <1>1, <1>4, <2>2
      <3>2. QED
        BY <2>1, <3>1
    <2>3. CASE n \in 1..Len(q)
      BY <1>1, <1>4, <2>1, <2>3, BoxAt
    <2>4. n = Len(q) + 1 \/ n \in 1..Len(q)
      BY <1>1
    <2>5. QED
      BY <2>2, <2>3, <2>4
  <1>6. QED
    BY <1>2, <1>4, <1>5, SeqEqual

(* Marking a message marks its letter.                                        *)
LEMMA BoxMark ==
    ASSUME NEW q \in Seq(Messages), NEW n \in DOMAIN q
    PROVE  BoxOf([q EXCEPT ![n].read = TRUE]) = [BoxOf(q) EXCEPT ![n].read = TRUE]
  <1> DEFINE m == [q[n] EXCEPT !.read = TRUE]
             x == [BoxOf(q)[n] EXCEPT !.read = TRUE]
             p == [q EXCEPT ![n] = m]
             b == [BoxOf(q) EXCEPT ![n] = x]
  <1>1. /\ Len(q) \in Nat /\ DOMAIN q = 1..Len(q)
        /\ \A k \in 1..Len(q) : q[k] \in Messages
    BY LenProperties, ElementOfSeq
  <1>2. m \in Messages /\ m.id = q[n].id /\ m.read = TRUE
    <2>1. q[n] \in Messages
      BY <1>1
    <2>2. QED
      BY <2>1 DEF Messages
  <1> HIDE DEF m
  <1>3. /\ p \in Seq(Messages) /\ Len(p) = Len(q)
        /\ \A k \in 1..Len(q) : p[k] = IF k = n THEN m ELSE q[k]
    BY <1>1, <1>2, ExceptSeq
  <1>4. BoxOf(q)[n] = [id |-> q[n].id, read |-> q[n].read]
    BY BoxAt
  <1>5. x \in Letters /\ x.id = q[n].id /\ x.read = TRUE
    <2>1. BoxOf(q)[n] \in Letters
      BY <1>1, BoxType, ElementOfSeq
    <2>2. BoxOf(q)[n].id = q[n].id
      BY <1>4
    <2>3. QED
      BY <2>1, <2>2 DEF Letters
  <1> HIDE DEF x
  <1>6. BoxOf(q) \in Seq(Letters) /\ Len(BoxOf(q)) = Len(q)
    BY BoxType
  <1>7. /\ b \in Seq(Letters) /\ Len(b) = Len(q)
        /\ \A k \in 1..Len(q) : b[k] = IF k = n THEN x ELSE BoxOf(q)[k]
    BY <1>1, <1>5, <1>6, ExceptSeq
  <1>8. BoxOf(p) \in Seq(Letters) /\ Len(BoxOf(p)) = Len(q)
    BY <1>3, BoxType
  <1>9. ASSUME NEW k \in 1..Len(q) PROVE BoxOf(p)[k] = b[k]
    <2>1. BoxOf(p)[k] = [id |-> p[k].id, read |-> p[k].read]
      BY <1>1, <1>3, LenProperties, BoxAt
    <2>2. CASE k = n
      <3>1. BoxOf(p)[k] \in Letters /\ b[k] = x
        BY <1>1, <1>7, <1>8, <2>2, ElementOfSeq
      <3>2. BoxOf(p)[k].id = x.id /\ BoxOf(p)[k].read = x.read
        <4>1. p[k] = m
          BY <1>3, <2>2
        <4>2. BoxOf(p)[k] = [id |-> m.id, read |-> m.read]
          BY <2>1, <4>1
        <4> HIDE DEF p
        <4>3. BoxOf(p)[k].id = m.id /\ BoxOf(p)[k].read = m.read
          BY <4>2
        <4>4. QED
          BY <1>2, <1>5, <4>3
      <3>3. ASSUME NEW y \in Letters, NEW z \in Letters, y.id = z.id, y.read = z.read
            PROVE  y = z
        <4>1. y = [id |-> y.id, read |-> y.read]
          BY DEF Letters
        <4>2. z = [id |-> z.id, read |-> z.read]
          BY DEF Letters
        <4>3. QED
          BY <3>3, <4>1, <4>2
      <3>4. QED
        BY <1>5, <3>1, <3>2, <3>3
    <2>3. CASE k # n
      BY <1>1, <1>3, <1>7, <2>1, <2>3, BoxAt
    <2>4. QED
      BY <2>2, <2>3
  <1>10. BoxOf(p) = b
    BY <1>7, <1>8, <1>9, SeqEqual
  <1>11. QED
    BY <1>10 DEF m, x

------------------------------------------------------------------------------
(* What makes a delivery a first one.  A run has at most one message on its   *)
(* way to the server, its own and not read; while it has one, or may still    *)
(* write one, none of the run is stored; and only runs that started are.      *)
Mails(s) == {i \in DOMAIN s : s[i].kind = "mail"}

OneMail(s, r) ==
    \A i \in Mails(s) : /\ s[i].msg.id = r /\ s[i].msg.read = FALSE
                        /\ \A j \in Mails(s) : j = i

MayWrite(r) == client[r].pc \in {"reply", "answer"}

Fresh(r) ==
    /\ OneMail(wire[r].up, r)
    /\ MayWrite(r) => Mails(wire[r].up) = {}
    /\ MayWrite(r) \/ Mails(wire[r].up) # {} => \A u \in Users : r \notin IdsOf(u)

FreshInv ==
    /\ TypeInv
    /\ \A r \in Started : Fresh(r)
    /\ \A u \in Users : IdsOf(u) \subseteq Started

(* A read takes at least the first chunk, and leaves none that was not there. *)
LEMMA MailsLeft ==
    ASSUME NEW s \in Seq(Chunks), NEW t \in AfterRead(s), NEW r, OneMail(s, r)
    PROVE  /\ OneMail(t, r)
           /\ Mails(s) = {} => Mails(t) = {}
           /\ Head(s).kind = "mail" => Mails(t) = {}
  <1>1. PICK k \in 1..MaxTake : k <= Len(s) /\ t = SubSeq(s, k + 1, Len(s))
    BY DEF AfterRead
  <1>2. k \in Nat /\ k >= 1 /\ Len(s) \in Nat /\ DOMAIN s = 1..Len(s)
    BY LenProperties, RelayAssumption DEF RelayAssumption
  <1>3. t \in Seq(Chunks) /\ Len(t) = Len(s) - k /\ \A i \in 1..Len(t) : t[i] = s[k + i]
    <2>1. \A i \in (k + 1)..Len(s) : s[i] \in Chunks
      BY <1>2, ElementOfSeq
    <2>2. /\ t \in Seq(Chunks)
          /\ Len(t) = (IF k + 1 <= Len(s) THEN Len(s) - (k + 1) + 1 ELSE 0)
          /\ \A i \in 1..(Len(s) - (k + 1) + 1) : t[i] = s[(k + 1) + i - 1]
      BY <1>1, <1>2, <2>1, SubSeqProperties
    <2> DEFINE d == Len(s)
    <2>3. Len(t) = d - k
      <3>1. k \in Nat /\ d \in Nat /\ k <= d
        BY <1>1, <1>2
      <3>2. (IF k + 1 <= d THEN d - (k + 1) + 1 ELSE 0) = d - k
        <4> HIDE DEF d
        <4>1. QED
          BY <3>1
      <3>3. QED
        BY <2>2, <3>2
    <2>4. ASSUME NEW i \in 1..Len(t) PROVE t[i] = s[k + i]
      <3>1. i \in 1..(d - (k + 1) + 1) /\ (k + 1) + i - 1 = k + i
        <4>1. d \in Nat /\ i \in 1..(d - k)
          BY <1>2, <2>3
        <4> HIDE DEF d
        <4>2. QED
          BY <1>2, <4>1
      <3>2. QED
        BY <2>2, <3>1
    <2>5. QED
      BY <2>2, <2>3, <2>4
  <1>4. DOMAIN t = 1..Len(t) /\ Len(t) \in Nat
    BY <1>3, LenProperties
  <1>5. ASSUME NEW i \in Mails(t)
        PROVE  /\ i \in Nat /\ k + i \in Mails(s) /\ t[i] = s[k + i] /\ k + i # 1
    BY <1>2, <1>3, <1>4 DEF Mails
  <1>6. OneMail(t, r)
    BY <1>2, <1>5 DEF OneMail
  <1>7. Mails(s) = {} => Mails(t) = {}
    BY <1>5
  <1>8. ASSUME Head(s).kind = "mail" PROVE Mails(t) = {}
    <2>1. s # <<>> /\ 1 \in DOMAIN s
      BY <1>1, <1>2
    <2>2. 1 \in Mails(s)
      BY <1>8, <2>1 DEF Mails
    <2>3. QED
      BY <1>5, <2>2 DEF OneMail
  <1>9. QED
    BY <1>6, <1>7, <1>8

(* What a client writes comes after what it has written.                      *)
LEMMA MailsConcat ==
    ASSUME NEW s \in Seq(Chunks), NEW t \in Seq(Chunks), NEW r,
           OneMail(s, r), OneMail(t, r), Mails(s) = {} \/ Mails(t) = {}
    PROVE  /\ OneMail(s \o t, r)
           /\ Mails(s) = {} /\ Mails(t) = {} => Mails(s \o t) = {}
           /\ Mails(s \o t) = {} => Mails(s) = {}
  <1>1. /\ Len(s) \in Nat /\ Len(t) \in Nat /\ DOMAIN s = 1..Len(s) /\ DOMAIN t = 1..Len(t)
        /\ DOMAIN (s \o t) = 1..(Len(s) + Len(t))
        /\ \A i \in 1..(Len(s) + Len(t)) :
              (s \o t)[i] = IF i <= Len(s) THEN s[i] ELSE t[i - Len(s)]
    BY ConcatProperties, LenProperties
  <1>2. ASSUME NEW i \in Mails(s \o t)
        PROVE  /\ i \in Nat
               /\ \/ i \in Mails(s) /\ (s \o t)[i] = s[i]
                  \/ i - Len(s) \in Mails(t) /\ (s \o t)[i] = t[i - Len(s)]
    BY <1>1 DEF Mails
  <1>3. CASE Mails(s) = {}
    <2>1. OneMail(s \o t, r)
      <3>1. ASSUME NEW i \in Mails(s \o t)
            PROVE  i \in Nat /\ i - Len(s) \in Mails(t) /\ (s \o t)[i] = t[i - Len(s)]
        BY <1>2, <1>3
      <3>2. ASSUME NEW i \in Mails(s \o t), NEW j \in Mails(s \o t) PROVE j = i
        <4>1. j - Len(s) = i - Len(s) /\ i \in Nat /\ j \in Nat
          BY <3>1 DEF OneMail
        <4>2. QED
          BY <1>1, <4>1
      <3>3. \A i \in Mails(s \o t) : /\ (s \o t)[i].msg.id = r
                                     /\ (s \o t)[i].msg.read = FALSE
        BY <3>1 DEF OneMail
      <3>4. QED
        BY <3>2, <3>3 DEF OneMail
    <2>2. QED
      BY <1>2, <1>3, <2>1
  <1>4. CASE Mails(t) = {}
    <2>1. OneMail(s \o t, r)
      BY <1>1, <1>2, <1>4 DEF OneMail
    <2>2. ASSUME NEW i \in Mails(s) PROVE i \in Mails(s \o t)
      BY <1>1 DEF Mails
    <2>3. QED
      BY <1>2, <1>4, <2>1, <2>2
  <1>5. QED
    BY <1>3, <1>4

(* A sequence of chunks without a message.                                    *)
LEMMA NoMails ==
    /\ Mails(<<>>) = {}
    /\ \A c : c.kind # "mail" => Mails(<<c>>) = {}
    /\ \A c, d : c.kind # "mail" /\ d.kind # "mail" => Mails(<<c, d>>) = {}
    /\ \A s, r : Mails(s) = {} => OneMail(s, r)
  BY DEF Mails, OneMail

(* A step of one run.                                                         *)
LEMMA FreshStep ==
    ASSUME FreshInv, TypeInv', NEW r \in Started, NEW e, NEW w,
           client' = [client EXCEPT ![r] = e],
           wire' = [wire EXCEPT ![r] = w],
           OneMail(w.up, r),
           e.pc \in {"reply", "answer"} => Mails(w.up) = {},
           e.pc \in {"reply", "answer"} \/ Mails(w.up) # {}
              => \A u \in Users : r \notin IdsOf(u)',
           \A u \in Users : IdsOf(u)' \subseteq IdsOf(u) \cup {r}
    PROVE  FreshInv'
  <1>1. DOMAIN wire = Started /\ DOMAIN client = Started
    BY Numbers DEF FreshInv, Started
  <1>2. Started' = Started
    BY <1>1 DEF Started
  <1>3. ASSUME NEW s \in Started' PROVE Fresh(s)'
    <2>1. CASE s = r
      <3>1. client'[s] = e /\ wire'[s] = w
        BY <1>1, <2>1
      <3>2. QED
        BY <2>1, <3>1 DEF Fresh, MayWrite
    <2>2. CASE s # r
      <3>1. client'[s] = client[s] /\ wire'[s] = wire[s] /\ Fresh(s)
        BY <1>1, <1>2, <2>2 DEF FreshInv
      <3>2. ASSUME \A u \in Users : s \notin IdsOf(u)
            PROVE  \A u \in Users : s \notin IdsOf(u)'
        BY <2>2, <3>2
      <3>3. QED
        BY <3>1, <3>2 DEF Fresh, MayWrite
    <2>3. QED
      BY <2>1, <2>2
  <1>4. \A u \in Users : IdsOf(u)' \subseteq Started'
    BY <1>2 DEF FreshInv
  <1>5. QED
    BY <1>3, <1>4 DEF FreshInv

(* A client that writes no message, or the one it may write.                  *)
LEMMA ClientFresh ==
    ASSUME FreshInv, TypeInv', NEW r \in Started, NEW e, NEW w, NEW more \in Seq(Chunks),
           client' = [client EXCEPT ![r] = e],
           wire' = [wire EXCEPT ![r] = w],
           w.up = wire[r].up \o more,
           UNCHANGED <<server, world>>,
           \/ Mails(more) = {} /\ (e.pc \in {"reply", "answer"} => MayWrite(r))
           \/ OneMail(more, r) /\ MayWrite(r) /\ e.pc = "confirm"
    PROVE  FreshInv'
  <1>1. wire[r].up \in Seq(Chunks) /\ Fresh(r)
    BY Numbers DEF FreshInv, Wires
  <1>2. OneMail(more, r)
    BY NoMails
  <1>3. Mails(wire[r].up) = {} \/ Mails(more) = {}
    BY <1>1 DEF Fresh
  <1>4. /\ OneMail(w.up, r)
        /\ Mails(wire[r].up) = {} /\ Mails(more) = {} => Mails(w.up) = {}
    BY <1>1, <1>2, <1>3, MailsConcat DEF Fresh
  <1>5. \A u \in Users : IdsOf(u)' = IdsOf(u)
    BY DEF IdsOf, server
  <1>6. e.pc \in {"reply", "answer"} => Mails(w.up) = {}
    BY <1>1, <1>4 DEF Fresh
  <1>7. e.pc \in {"reply", "answer"} \/ Mails(w.up) # {}
           => \A u \in Users : r \notin IdsOf(u)'
    BY <1>1, <1>4, <1>5 DEF Fresh
  <1>8. QED
    BY <1>4, <1>5, <1>6, <1>7, FreshStep

(* The ends of a client.                                                      *)
LEMMA FinishFresh ==
    ASSUME FreshInv, TypeInv', NEW r \in Started, NEW told, NEW shown,
           Finish(r, told, shown), UNCHANGED <<server, world>>
    PROVE  FreshInv'
  <1> DEFINE e == [client[r] EXCEPT !.pc = "left", !.told = told, !.shown = shown]
             w == [up |-> Append(wire[r].up, Chunk("lf")), down |-> <<>>, fin |-> "fin"]
  <1>1. client[r] \in Clients /\ wire[r] \in Wires
    BY Numbers DEF FreshInv
  <1>2. client' = [client EXCEPT ![r] = e] /\ wire' = [wire EXCEPT ![r] = w]
    BY DEF Finish
  <1>3. e.pc = "left"
    BY <1>1 DEF Clients
  <1>4. Chunk("lf") \in Chunks /\ Chunk("lf").kind # "mail"
    BY DEF Chunk, Chunks
  <1>5. <<Chunk("lf")>> \in Seq(Chunks) /\ Mails(<<Chunk("lf")>>) = {}
    BY <1>4, NoMails
  <1>6. w.up = wire[r].up \o <<Chunk("lf")>>
    BY <1>1, <1>4, AppendIsConcat DEF Wires
  <1>7. QED
    BY <1>2, <1>3, <1>5, <1>6, ClientFresh

(* A client that ends early may still write, but no mail.                     *)
LEMMA QuitFresh ==
    ASSUME FreshInv, TypeInv', NEW r \in Started, NEW told, NEW last \in Seq(Chunks),
           NEW unread, Mails(last) = {},
           Quit(r, told, last, unread), UNCHANGED <<server, world>>
    PROVE  FreshInv'
  <1> DEFINE e == [client[r] EXCEPT !.pc = "left", !.told = told]
  <1>1. client[r] \in Clients
    BY Numbers DEF FreshInv
  <1>2. PICK f : wire' = [wire EXCEPT ![r] =
                            [up |-> wire[r].up \o last, down |-> <<>>, fin |-> f]]
    BY DEF Quit
  <1> DEFINE w == [up |-> wire[r].up \o last, down |-> <<>>, fin |-> f]
  <1>3. client' = [client EXCEPT ![r] = e] /\ e.pc = "left"
    BY <1>1 DEF Quit, Clients
  <1>4. w.up = wire[r].up \o last
    OBVIOUS
  <1>5. QED
    BY <1>2, <1>3, <1>4, ClientFresh

(* A client that goes on.                                                     *)
LEMMA ProceedFresh ==
    ASSUME FreshInv, TypeInv', NEW r \in Started, NEW more \in Seq(Chunks), NEW pc,
           Proceed(r, more, pc), UNCHANGED <<server, world>>, MayWrite(r),
           \/ Mails(more) = {}
           \/ OneMail(more, r) /\ pc = "confirm"
    PROVE  FreshInv'
  <1> DEFINE e == [client[r] EXCEPT !.pc = pc]
             w == [wire[r] EXCEPT !.up = @ \o more, !.down = Tail(@)]
  <1>1. client[r] \in Clients /\ wire[r] \in Wires
    BY Numbers DEF FreshInv
  <1>2. client' = [client EXCEPT ![r] = e] /\ wire' = [wire EXCEPT ![r] = w]
    BY DEF Proceed
  <1>3. e.pc = pc /\ w.up = wire[r].up \o more
    BY <1>1 DEF Clients, Wires
  <1>4. QED
    BY <1>2, <1>3, ClientFresh

(* Every step of a client: it writes its message once, after both of its      *)
(* waits for an answer to the request.                                        *)
LEMMA ClientStepFresh ==
    ASSUME FreshInv, NEW r \in Started, ClientStep(r) \/ Interrupt(r)
    PROVE  FreshInv'
  <1> DEFINE head == Head(wire[r].down)
  <1>0. /\ TypeInv /\ TypeInv'
        /\ client[r] \in Clients /\ r \in Runs /\ key \in [Users -> 0..MaxKey]
        /\ <<>> \in Seq(Chunks) /\ Mails(<<>>) = {}
    BY ClientKeeps, Numbers, EmptySeq, NoMails DEF FreshInv, TypeInv
  <1>1. /\ Now(client[r].user) \in Certs
        /\ <<client[r].user, client[r].key>> \in Certs
    BY <1>0 DEF Now, Certs, Clients
  <1>2. CASE ReadReply(r)
    <2> DEFINE signed == [kind |-> "sign", cert |-> Now(client[r].user),
                          by |-> <<client[r].user, client[r].key>>]
    <2>1. /\ signed \in Chunks /\ signed.kind # "mail"
          /\ Chunk("request") \in Chunks /\ Chunk("request").kind # "mail"
      BY <1>1 DEF Chunks, Chunk
    <2>2. /\ <<signed>> \in Seq(Chunks) /\ Mails(<<signed>>) = {}
          /\ <<signed, Chunk("request")>> \in Seq(Chunks)
          /\ Mails(<<signed, Chunk("request")>>) = {}
      BY <2>1, NoMails
    <2>3. MayWrite(r)
      BY <1>2 DEF ReadReply, Hears, MayWrite
    <2>4. QED
      BY <1>0, <1>2, <2>2, <2>3, QuitFresh, ProceedFresh DEF ReadReply
  <1>3. CASE ReadCert(r)
    <2> DEFINE mail == [id |-> r, from |-> Now(client[r].user), to |-> head.cert,
                        read |-> FALSE]
               chunk == [kind |-> "mail", msg |-> mail]
    <2>1. head \in Chunks /\ head.kind = "cert" /\ MayWrite(r)
      BY <1>0, <1>3, HeardType DEF ReadCert, Hears, MayWrite
    <2>2. head.cert \in Certs
      BY <2>1 DEF Chunks
    <2>3. chunk \in Chunks /\ chunk.msg.id = r /\ chunk.msg.read = FALSE
      BY <1>0, <1>1, <2>2 DEF Chunks, Messages
    <2>4. <<chunk>> \in Seq(Chunks)
      BY <2>3
    <2>5. OneMail(<<chunk>>, r)
      <3>1. \A i \in Mails(<<chunk>>) : i = 1
        BY DEF Mails
      <3>2. <<chunk>>[1] = chunk
        OBVIOUS
      <3>3. QED
        BY <2>3, <3>1, <3>2 DEF OneMail
    <2>6. QED
      BY <1>0, <1>3, <2>1, <2>4, <2>5, QuitFresh, ProceedFresh DEF ReadCert
  <1>4. CASE ReadNoUid(r)
    BY <1>0, <1>4, QuitFresh DEF ReadNoUid
  <1>5. CASE ReadList(r) \/ ReadMail(r)
    BY <1>0, <1>5, QuitFresh, FinishFresh DEF ReadList, ReadMail
  <1>6. CASE ReadNothing(r) \/ ReadConfirm(r)
    BY <1>0, <1>6, FinishFresh DEF ReadNothing, ReadConfirm
  <1>7. CASE ReadEnd(r) \/ Interrupt(r)
    BY <1>0, <1>7, QuitFresh DEF ReadEnd, Interrupt
  <1>8. QED
    BY <1>2, <1>3, <1>4, <1>5, <1>6, <1>7 DEF ClientStep

(* What a step of a handler does to the queues.                               *)
Marks == \E u \in Users : \E n \in DOMAIN queue[u] :
            queue' = [queue EXCEPT ![u] = [queue[u] EXCEPT ![n].read = TRUE]]

(* The server changes queues only by marking and by storing.                  *)
LEMMA QueueStep ==
    ASSUME TypeInv, NEW r \in Started, ServerStep(r)
    PROVE  UNCHANGED queue \/ Marks \/ StoreMail(r)
  <1>1. CASE GetMsg(r)
    <2> DEFINE u == client[r].user
               num == client[r].req.num
               q == queue[u]
               n == Index(q, num)
    <2>1. u \in Users /\ client[r] \in Clients /\ q \in Seq(Messages)
      BY Numbers DEF TypeInv, Clients
    <2>2. num \in Nat
      <3>1. client[r].req.cmd = "getmsg"
        BY <1>1 DEF GetMsg, Requested
      <3>2. QED
        BY <2>1, <3>1, RelayAssumption DEF Clients, Commands, RelayAssumption
    <2>3. Len(q) \in Nat /\ DOMAIN q = 1..Len(q)
      BY <2>1, LenProperties
    <2>4. CASE num > Len(q) \/ (num <= Len(q) /\ n < 1)
      BY <1>1, <2>2, <2>3, <2>4 DEF GetMsg
    <2>5. CASE num <= Len(q) /\ ~ (n < 1)
      <3>1. n \in DOMAIN q
        BY <2>2, <2>3, <2>5 DEF Index
      <3>2. queue' = [queue EXCEPT ![u][n].read = TRUE]
        BY <1>1, <2>2, <2>3, <2>5 DEF GetMsg
      <3>3. QED
        BY <2>1, <3>1, <3>2 DEF Marks
    <2>6. QED
      BY <2>2, <2>3, <2>4, <2>5
  <1>2. CASE ServerStep(r) /\ ~ GetMsg(r) /\ ~ StoreMail(r)
    BY <1>2 DEF ServerStep, ReadParams, NoParams, ReadKey, ReadSign, Register, RequestUnknown,
       AskQueue, SendToUnknown, SendCert, ReadLineFeed, ReadEof, ReadReset
  <1>3. QED
    BY <1>1, <1>2

(* The wire of the run after it.                                              *)
LEMMA UpAfter ==
    ASSUME TypeInv, NEW r \in Started, ServerStep(r)
    PROVE  \E w : /\ wire' = [wire EXCEPT ![r] = w]
                  /\ \/ w.up = wire[r].up \/ w.up \in AfterRead(wire[r].up)
                     \/ w.up = <<>>
                  /\ StoreMail(r) => w.up \in AfterRead(wire[r].up)
  <1>1. wire[r] \in Wires /\ wire \in Seq(Wires) /\ r \in DOMAIN wire
    BY Numbers DEF TypeInv
  <1>2. ASSUME NEW more, TakeAndWrite(r, more)
        PROVE  \E w : wire' = [wire EXCEPT ![r] = w] /\ w.up \in AfterRead(wire[r].up)
    <2>1. PICK s \in AfterRead(wire[r].up) :
             \E w \in Written([wire[r] EXCEPT !.up = s], more) :
                 wire' = [wire EXCEPT ![r] = w]
      BY <1>2 DEF TakeAndWrite
    <2> DEFINE v == [wire[r] EXCEPT !.up = s]
    <2>2. v.up = s
      <3>1. wire[r] \in Wires
        BY <1>1
      <3>2. QED
        BY <3>1 DEF Wires
    <2>3. PICK w \in Written(v, more) : wire' = [wire EXCEPT ![r] = w]
      BY <2>1
    <2>4. w.up = s
      <3>1. /\ [v EXCEPT !.down = @ \o more].up = s
            /\ \A f : [v EXCEPT !.fin = f].up = s
        <4>1. wire[r] \in Wires
          BY <1>1
        <4>2. QED
          BY <4>1 DEF Wires
      <3>2. QED
        BY <3>1 DEF Written
    <2>5. QED
      BY <2>3, <2>4
  <1>3. ASSUME Take(r)
        PROVE  \E w : wire' = [wire EXCEPT ![r] = w] /\ w.up \in AfterRead(wire[r].up)
    <2>1. PICK s \in AfterRead(wire[r].up) : wire' = [wire EXCEPT ![r].up = s]
      BY <1>3 DEF Take
    <2> DEFINE w == [wire[r] EXCEPT !.up = s]
    <2>2. w.up = s
      BY <1>1 DEF Wires
    <2>3. wire' = [wire EXCEPT ![r] = w]
      BY <2>1
    <2>4. QED
      BY <2>2, <2>3
  <1>4. ASSUME TakeAll(r)
        PROVE  \E w : wire' = [wire EXCEPT ![r] = w] /\ w.up = <<>>
    <2> DEFINE w == [wire[r] EXCEPT !.up = <<>>]
    <2>1. w.up = <<>>
      BY <1>1 DEF Wires
    <2>2. wire' = [wire EXCEPT ![r] = w]
      BY <1>4 DEF TakeAll
    <2>3. QED
      BY <2>1, <2>2
  <1>5. CASE StoreMail(r)
    BY <1>2, <1>5 DEF StoreMail, Answer
  <1>6. CASE ~ StoreMail(r) /\ ((\E more : TakeAndWrite(r, more)) \/ Take(r) \/ TakeAll(r))
    BY <1>2, <1>3, <1>4, <1>6
  <1>7. CASE ~ StoreMail(r) /\ UNCHANGED wire
    <2>1. wire' = [wire EXCEPT ![r] = wire[r]]
      BY <1>1, <1>7
    <2>2. QED
      BY <1>7, <2>1
  <1>8. (\E more : TakeAndWrite(r, more)) \/ Take(r) \/ TakeAll(r) \/ UNCHANGED wire
    <2>1. ASSUME NEW more, Answer(r, more) PROVE TakeAndWrite(r, more)
      BY <2>1 DEF Answer
    <2>2. CASE AskQueue(r) \/ SendToUnknown(r) \/ StoreMail(r)
      BY <2>1, <2>2 DEF AskQueue, SendToUnknown, StoreMail
    <2>3. CASE GetMsg(r)
      BY <2>1, <2>3 DEF GetMsg
    <2>4. CASE ServerStep(r) /\ ~ (AskQueue(r) \/ SendToUnknown(r) \/ StoreMail(r) \/ GetMsg(r))
      BY <2>4 DEF ServerStep, ReadParams, NoParams, ReadKey, ReadSign, RequestUnknown,
         SendCert, ReadLineFeed, ReadEof, ReadReset
    <2>5. QED
      BY <2>2, <2>3, <2>4
  <1>9. QED
    BY <1>5, <1>6, <1>7, <1>8

(* A message that is marked keeps its name.                                   *)
LEMMA MarksKeep ==
    ASSUME TypeInv, Marks
    PROVE  \A u \in Users : IdsOf(u)' = IdsOf(u)
  <1>0. queue \in [Users -> Seq(Messages)]
    BY DEF TypeInv
  <1>1. PICK u \in Users :
           \E n \in DOMAIN queue[u] :
              queue' = [queue EXCEPT ![u] = [queue[u] EXCEPT ![n].read = TRUE]]
    BY DEF Marks
  <1>2. PICK n \in DOMAIN queue[u] :
           queue' = [queue EXCEPT ![u] = [queue[u] EXCEPT ![n].read = TRUE]]
    BY <1>1
  <1> DEFINE q == queue[u]
             m == [q[n] EXCEPT !.read = TRUE]
             p == [q EXCEPT ![n] = m]
  <1>3. /\ q \in Seq(Messages) /\ DOMAIN q = 1..Len(q)
        /\ \A k \in 1..Len(q) : q[k] \in Messages
    BY <1>0, LenProperties, ElementOfSeq
  <1>4. m \in Messages /\ m.id = q[n].id
    <2>1. q[n] \in Messages
      BY <1>3
    <2>2. QED
      BY <2>1 DEF Messages
  <1>5. queue' = [queue EXCEPT ![u] = p]
    BY <1>2
  <1> HIDE DEF m
  <1>6. /\ DOMAIN p = DOMAIN q
        /\ \A k \in DOMAIN q : p[k] = IF k = n THEN m ELSE q[k]
    BY <1>3
  <1> HIDE DEF p
  <1>7. \A k \in DOMAIN q : p[k].id = q[k].id
    BY <1>4, <1>6
  <1>8. ASSUME NEW v \in Users PROVE IdsOf(v)' = IdsOf(v)
    <2>1. CASE v = u
      <3>1. queue'[v] = p
        BY <1>0, <1>5, <2>1
      <3>2. QED
        BY <1>6, <1>7, <2>1, <3>1 DEF IdsOf
    <2>2. CASE v # u
      <3>1. queue'[v] = queue[v]
        BY <1>0, <1>5, <2>2
      <3>2. QED
        BY <3>1 DEF IdsOf
    <2>3. QED
      BY <2>1, <2>2
  <1>9. QED
    BY <1>8

(* The message that a handler stores is its run's, not read and not stored.   *)
LEMMA FirstMail ==
    ASSUME FreshInv, NEW r \in Started, StoreMail(r)
    PROVE  /\ Head(wire[r].up) \in Chunks /\ Head(wire[r].up).kind = "mail"
           /\ Head(wire[r].up).msg \in Messages
           /\ Head(wire[r].up).msg.id = r /\ Head(wire[r].up).msg.read = FALSE
           /\ ~ MayWrite(r) /\ \A u \in Users : r \notin IdsOf(u)
  <1>1. wire[r].up \in Seq(Chunks) /\ Fresh(r)
    BY Numbers DEF FreshInv, Wires
  <1>2. wire[r].up # <<>> /\ Head(wire[r].up).kind = "mail"
    BY DEF StoreMail, Reads
  <1>3. /\ Head(wire[r].up) \in Chunks /\ Head(wire[r].up) = wire[r].up[1]
        /\ 1 \in DOMAIN wire[r].up
    BY <1>1, <1>2, HeadTailProperties, LenProperties
  <1>4. 1 \in Mails(wire[r].up)
    BY <1>2, <1>3 DEF Mails
  <1>5. Head(wire[r].up).msg \in Messages
    BY <1>2, <1>3 DEF Chunks
  <1>6. QED
    BY <1>1, <1>2, <1>3, <1>4, <1>5 DEF Fresh, OneMail

(* Every step of a handler.                                                   *)
LEMMA ServerFresh ==
    ASSUME FreshInv, NEW r \in Started, ServerStep(r)
    PROVE  FreshInv'
  <1>0. /\ TypeInv /\ TypeInv' /\ wire[r].up \in Seq(Chunks) /\ Fresh(r)
        /\ OneMail(wire[r].up, r) /\ client \in Seq(Clients) /\ r \in DOMAIN client
    BY ServerKeeps, Numbers DEF FreshInv, Wires, Fresh, TypeInv, Started
  <1>1. client' = client
    BY DEF ServerStep, ReadParams, NoParams, ReadKey, ReadSign, RequestUnknown, AskQueue,
       GetMsg, SendToUnknown, SendCert, StoreMail, ReadLineFeed, ReadEof, ReadReset
  <1> DEFINE e == client[r]
  <1>2. client' = [client EXCEPT ![r] = e]
    BY <1>0, <1>1
  <1>3. PICK w : /\ wire' = [wire EXCEPT ![r] = w]
                 /\ \/ w.up = wire[r].up \/ w.up \in AfterRead(wire[r].up)
                    \/ w.up = <<>>
                 /\ StoreMail(r) => w.up \in AfterRead(wire[r].up)
    BY <1>0, UpAfter
  <1>4. OneMail(w.up, r) /\ (Mails(wire[r].up) = {} => Mails(w.up) = {})
    BY <1>0, <1>3, MailsLeft, NoMails
  <1>5. MayWrite(r) => Mails(w.up) = {}
    BY <1>0, <1>4 DEF Fresh
  <1>6. CASE UNCHANGED queue \/ Marks
    <2>1. \A u \in Users : IdsOf(u)' = IdsOf(u)
      BY <1>0, <1>6, MarksKeep DEF IdsOf
    <2>2. MayWrite(r) \/ Mails(w.up) # {} => \A u \in Users : r \notin IdsOf(u)'
      BY <1>0, <1>4, <2>1 DEF Fresh
    <2>3. QED
      BY <1>0, <1>2, <1>3, <1>4, <1>5, <2>1, <2>2, FreshStep DEF MayWrite
  <1>7. CASE StoreMail(r)
    <2> DEFINE m == Head(wire[r].up).msg
               to == client[r].req.to
    <2>1. /\ m \in Messages /\ m.id = r /\ ~ MayWrite(r)
          /\ Head(wire[r].up).kind = "mail"
      BY <1>7, FirstMail
    <2>2. Mails(w.up) = {}
      BY <1>0, <1>3, <1>7, <2>1, MailsLeft
    <2>3. queue \in [Users -> Seq(Messages)] /\ queue' = [queue EXCEPT ![to] = Append(@, m)]
      BY <1>0, <1>7 DEF TypeInv, StoreMail
    <2>4. ASSUME NEW u \in Users PROVE IdsOf(u)' \subseteq IdsOf(u) \cup {r}
      <3> DEFINE q == queue[u]
      <3>1. queue'[u] = q \/ queue'[u] = Append(q, m)
        BY <2>3
      <3>2. /\ DOMAIN q = 1..Len(q) /\ Len(q) \in Nat
            /\ DOMAIN Append(q, m) = 1..(Len(q) + 1)
            /\ \A n \in 1..Len(q) : Append(q, m)[n] = q[n]
            /\ Append(q, m)[Len(q) + 1] = m
        BY <2>1, <2>3, AppendProperties, LenProperties
      <3>3. ASSUME NEW n \in 1..(Len(q) + 1) PROVE n \in 1..Len(q) \/ n = Len(q) + 1
        BY <3>2
      <3>4. QED
        BY <2>1, <3>1, <3>2, <3>3 DEF IdsOf
    <2>5. QED
      BY <1>0, <1>2, <1>3, <1>4, <2>1, <2>2, <2>4, FreshStep DEF MayWrite
  <1>8. QED
    BY <1>0, <1>6, <1>7, QueueStep

(* A new run has stored nothing: its number is new.                           *)
LEMMA StartFresh ==
    ASSUME FreshInv, NEW u \in Users, NEW c \in Commands, Start(u, c)
    PROVE  FreshInv'
  <1> DEFINE w == IF c.cmd = "help"
                  THEN [up |-> <<Chunk("lf")>>, down |-> <<>>, fin |-> "fin"]
                  ELSE [up |-> <<Chunk("params"), Chunk("key")>>, down |-> <<>>,
                        fin |-> "open"]
             new == Len(client) + 1
  <1>1. TypeInv /\ TypeInv'
    BY StartKeeps DEF FreshInv
  <1>2. wire' = Append(wire, w) /\ queue' = queue
    BY DEF Start
  <1>3. PICK e : client' = Append(client, e)
    BY DEF Start
  <1>4. /\ Len(client) \in Nat /\ Started = 1..Len(client) /\ Len(wire) = Len(client)
        /\ client \in Seq(Clients) /\ wire \in Seq(Wires)
    BY <1>1, Numbers, LenProperties DEF TypeInv
  <1>5. /\ Started' = 1..new
        /\ \A s \in Started : client'[s] = client[s]
    <2>1. client \in Seq(Clients \cup {e}) /\ e \in Clients \cup {e}
      BY <1>4, SeqMonotonic
    <2>2. /\ Append(client, e) \in Seq(Clients \cup {e})
          /\ Len(Append(client, e)) = new
          /\ \A s \in 1..Len(client) : Append(client, e)[s] = client[s]
      BY <2>1, AppendProperties
    <2>3. QED
      BY <1>3, <1>4, <2>2, LenProperties DEF Started
  <1>6. wire'[new] = w /\ \A s \in Started : wire'[s] = wire[s]
    <2>1. wire \in Seq(Wires \cup {w}) /\ w \in Wires \cup {w}
      BY <1>4, SeqMonotonic
    <2>2. QED
      BY <1>2, <1>4, <2>1, AppendProperties
  <1>7. Mails(w.up) = {}
    <2>1. \A kind \in {"lf", "params", "key"} : Chunk(kind).kind # "mail"
      BY DEF Chunk
    <2>2. QED
      BY <2>1, NoMails
  <1>8. \A v \in Users : IdsOf(v)' = IdsOf(v) /\ IdsOf(v) \subseteq Started
    BY <1>2 DEF IdsOf, FreshInv
  <1>9. ASSUME NEW s \in Started' PROVE Fresh(s)'
    <2>1. CASE s = new
      <3>1. new \notin Started
        BY <1>4
      <3>2. QED
        BY <1>6, <1>7, <1>8, <2>1, <3>1, NoMails DEF Fresh
    <2>2. CASE s \in Started
      <3>1. Fresh(s)
        BY <2>2 DEF FreshInv
      <3>2. QED
        BY <1>5, <1>6, <1>8, <2>2, <3>1 DEF Fresh, MayWrite
    <2>3. QED
      BY <1>4, <1>5, <2>1, <2>2
  <1>10. Started \subseteq Started'
    BY <1>4, <1>5
  <1>11. QED
    BY <1>1, <1>8, <1>9, <1>10 DEF FreshInv

(* After a restart nothing is stored or on its way.                           *)
LEMMA RestartFresh ==
    ASSUME FreshInv, Restart
    PROVE  FreshInv'
  <1>1. TypeInv' /\ Started' = Started
    BY RestartKeeps DEF FreshInv, Restart, Started
  <1>2. \A u \in Users : IdsOf(u)' = {}
    BY DEF Restart, IdsOf
  <1>3. ASSUME NEW r \in Started PROVE Mails(wire'[r].up) = {}
    <2>1. wire[r] \in Wires /\ DOMAIN wire = Started
      BY Numbers DEF FreshInv
    <2>2. wire'[r].up = <<>>
      BY <2>1 DEF Restart, Wires
    <2>3. QED
      BY <2>2, NoMails
  <1>4. ASSUME NEW r \in Started' PROVE Fresh(r)'
    BY <1>1, <1>2, <1>3, NoMails DEF Fresh
  <1>5. QED
    BY <1>1, <1>2, <1>4 DEF FreshInv

(* Every step keeps the invariant, and it holds at the start.                 *)
LEMMA FreshNext == FreshInv /\ [Next]_vars => FreshInv'
  <1> SUFFICES ASSUME FreshInv, [Next]_vars PROVE FreshInv'
    OBVIOUS
  <1>1. TypeInv'
    BY TypeInvNext DEF FreshInv
  <1>2. ASSUME UNCHANGED <<client, handler, wire, uids, queue>> PROVE FreshInv'
    BY <1>1, <1>2 DEF FreshInv, Fresh, MayWrite, IdsOf, Started
  <1>3. ASSUME NEW u \in Users, Renew(u) PROVE FreshInv'
    BY <1>2, <1>3 DEF Renew, server
  <1>4. ASSUME NEW c \in Certs, Expire(c) PROVE FreshInv'
    BY <1>2, <1>4 DEF Expire, server
  <1>5. CASE UNCHANGED vars
    BY <1>2, <1>5 DEF vars
  <1>6. QED
    BY <1>3, <1>4, <1>5, StartFresh, ClientStepFresh, ServerFresh, RestartFresh DEF Next

LEMMA FreshInit == Init => FreshInv
  <1> SUFFICES ASSUME Init PROVE FreshInv
    OBVIOUS
  <1>1. Started = {} /\ \A u \in Users : IdsOf(u) = {}
    BY DEF Init, Started, IdsOf
  <1>2. QED
    BY <1>1, TypeInvInit DEF FreshInv

------------------------------------------------------------------------------
(* The steps of the mailboxes.  (That the addressee is a user is part of the  *)
(* key invariant of RelayProofs; here a name that is none changes nothing.)   *)

(* The refinement mapping, queue by queue.                                    *)
LEMMA BoxIs == box = [u \in Users |-> BoxOf(queue[u])]
  BY DEF box, BoxOf

(* What is stored in a mailbox is what is stored in the queue.                *)
LEMMA StoredIs ==
    ASSUME TypeInv, NEW u \in Users
    PROVE  Promise!Stored(u) = IdsOf(u)
  <1>1. box[u] = BoxOf(queue[u]) /\ DOMAIN box[u] = DOMAIN queue[u]
    BY BoxIs DEF BoxOf
  <1>2. \A n \in DOMAIN queue[u] : box[u][n].id = queue[u][n].id
    <2> SUFFICES ASSUME NEW n \in DOMAIN queue[u] PROVE box[u][n].id = queue[u][n].id
      OBVIOUS
    <2>1. BoxOf(queue[u])[n] = [id |-> queue[u][n].id, read |-> queue[u][n].read]
      BY BoxAt
    <2>2. BoxOf(queue[u])[n].id = queue[u][n].id
      BY <2>1
    <2>3. QED
      BY <1>1, <2>2
  <1>3. QED
    BY <1>1, <1>2 DEF Promise!Stored, IdsOf

(* Every step of the relay is one of the mailboxes, or leaves them alone.     *)
LEMMA BoxStep == FreshInv /\ [Next]_vars => [Promise!Next]_box
  <1> SUFFICES ASSUME FreshInv, [Next]_vars PROVE [Promise!Next]_box
    OBVIOUS
  <1>0. /\ TypeInv /\ queue \in [Users -> Seq(Messages)]
        /\ box' = [u \in Users |-> BoxOf(queue'[u])]
    BY BoxIs DEF FreshInv, TypeInv, box, BoxOf
  <1>1. CASE UNCHANGED queue
    BY <1>1 DEF box
  <1>2. CASE Restart
    <2>1. box' = [u \in Users |-> <<>>]
      BY <1>0, <1>2, BoxEmpty DEF Restart
    <2>2. QED
      BY <2>1 DEF Promise!Next, Promise!Restart
  <1>3. CASE Marks
    <2>1. PICK u \in Users :
             \E n \in DOMAIN queue[u] :
                queue' = [queue EXCEPT ![u] = [queue[u] EXCEPT ![n].read = TRUE]]
      BY <1>3 DEF Marks
    <2>2. PICK n \in DOMAIN queue[u] :
             queue' = [queue EXCEPT ![u] = [queue[u] EXCEPT ![n].read = TRUE]]
      BY <2>1
    <2>3. box[u] = BoxOf(queue[u]) /\ n \in DOMAIN box[u]
      BY BoxIs DEF BoxOf
    <2>4. BoxOf(queue'[u]) = [box[u] EXCEPT ![n].read = TRUE]
      <3>1. queue[u] \in Seq(Messages) /\ queue'[u] = [queue[u] EXCEPT ![n].read = TRUE]
        BY <1>0, <2>2
      <3>2. BoxOf([queue[u] EXCEPT ![n].read = TRUE]) = [BoxOf(queue[u]) EXCEPT ![n].read = TRUE]
        BY <3>1, BoxMark
      <3>3. QED
        BY <2>3, <3>1, <3>2
    <2>5. box' = [box EXCEPT ![u] = [box[u] EXCEPT ![n].read = TRUE]]
      BY <1>0, <2>2, <2>4, BoxIs
    <2>6. box' = [box EXCEPT ![u][n].read = TRUE]
      BY <2>5
    <2>7. QED
      BY <2>3, <2>6 DEF Promise!Next, Promise!MarkRead
  <1>4. ASSUME NEW r \in Started, StoreMail(r) PROVE [Promise!Next]_box
    <2> DEFINE m == Head(wire[r].up).msg
               to == client[r].req.to
               x == [id |-> r, read |-> FALSE]
    <2>1. /\ m \in Messages /\ m.id = r /\ m.read = FALSE
          /\ \A u \in Users : r \notin IdsOf(u)
      BY <1>4, FirstMail
    <2>2. queue' = [queue EXCEPT ![to] = Append(queue[to], m)] /\ r \in Runs
      BY <1>0, <1>4, Numbers DEF StoreMail
    <2>3. CASE to \in Users
      <3>1. BoxOf(queue'[to]) = Append(box[to], x)
        BY <1>0, <2>1, <2>2, <2>3, BoxAppend, BoxIs
      <3>2. box' = [box EXCEPT ![to] = Append(box[to], x)]
        BY <1>0, <2>2, <2>3, <3>1, BoxIs
      <3>3. \A v \in Users : r \notin Promise!Stored(v)
        BY <1>0, <2>1, StoredIs
      <3>4. QED
        BY <2>2, <2>3, <3>2, <3>3 DEF Promise!Next, Promise!Deliver
    <2>4. CASE to \notin Users
      <3>1. queue' = queue
        BY <1>0, <2>2, <2>4
      <3>2. QED
        BY <1>1, <3>1
    <2>5. QED
      BY <2>3, <2>4
  <1>5. ASSUME NEW r \in Started, ServerStep(r) PROVE [Promise!Next]_box
    BY <1>0, <1>1, <1>3, <1>4, <1>5, QueueStep
  <1>6. ASSUME NEW r \in Started, ClientStep(r) \/ Interrupt(r) PROVE UNCHANGED queue
    BY <1>6 DEF ClientStep, ReadReply, ReadCert, ReadNoUid, ReadList, ReadMail, ReadNothing,
       ReadConfirm, ReadEnd, Interrupt, server
  <1>7. ASSUME \/ UNCHANGED vars
               \/ \E u \in Users, c \in Commands : Start(u, c)
               \/ \E u \in Users : Renew(u)
               \/ \E c \in Certs : Expire(c)
        PROVE  UNCHANGED queue
    BY <1>7 DEF vars, Start, Renew, Expire, server
  <1>8. QED
    BY <1>1, <1>2, <1>5, <1>6, <1>7 DEF Next

(* No message is stored at the start.                                         *)
LEMMA BoxInit == Init => Promise!Init
  BY BoxIs, BoxEmpty DEF Init, Promise!Init

(* Whatever clients send, fetch, interrupt or renew at the same time, and     *)
(* however often the server is started again, its queues behave as the        *)
(* mailboxes they promise to be: a message is stored once, in one queue and   *)
(* under one number, becomes read, and is lost in a restart only.             *)
THEOREM RelayImplementsMailbox == Spec => ImplementsMailbox
  <1>1. Init => Promise!Init
    BY BoxInit
  <1>2. FreshInv /\ [Next]_vars => [Promise!Next]_box
    BY BoxStep
  <1>3. QED
    BY <1>1, <1>2, FreshInit, FreshNext, PTL DEF Spec, ImplementsMailbox, Promise!Spec
==============================================================================
