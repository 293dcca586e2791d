# A model of Concordia, with proofs

This directory models the programs of the SSI course projects in `src/TPs`:

* **TP2, Concordia** — a message service for the users of one Linux machine: a
  daemon in C, three command line clients, and a store made of directories and
  file names.
* **TP1, the message relay** — an asyncio server in Python that queues
  encrypted, signed messages for clients with certificates, and its command
  line client.

`PROJECT.json` ties every definition to the lines it stands for, and lists the
runs, the hazards and the proved theorems. Paths below are relative to
`src/TPs/TP2` unless they begin with `TP1`.

## 1. The system

### Concordia

```
 concordia-mensagem  \                                  / message_commands.c  --> users/<u>/, groups/<g>/
 concordia-grupo      >---- FIFO ----> daemon --fork--> child  group_commands.c  --> groups/<g>/, owner, /etc/group
 concordia-user      /                                  \ user_commands.c     --> users/<u>/
        ^                                                  |
        +------------- fifo_<pid> <------------------------+   one answer
```

| component | state it keeps | operations | makes it hard |
|---|---|---|---|
| request pipe and daemon (`src/daemon.c`) | the FIFO, the children | make the FIFO, open it, fork a child every second | children are forked without a request and never waited for; a restart removes the FIFO under the clients |
| answer pipes (`src/utils.c:16`, the three clients) | one FIFO per client process id | client: send, make the FIFO, read, unlink; child: open, write | the FIFO is made *after* the request is sent; both opens block; process ids come again |
| message store (`src/message_commands.c`, `src/files_struct.c`) | one file per message, everything about it in the *name* of the file: `id;name;sender;time;tam;read;nReplys;isReply`; readers of a group's message are appended to its text | enviar, listar, ler, responder, remover | no lock: ids are "highest in the directory plus one", files are found again by a name read earlier, renames overwrite |
| users (`src/user_commands.c`) | a directory per active user | ativar, desativar | desativar leaves the user's groups one after the other |
| groups (`src/group_commands.c`) | a directory, an `owner` file in it, and a group of the operating system | criar, remover, adicionar, remover-user, listar members | three things and no transaction; the owner is checked before the steps it authorises |
| access rights (`setfacl`, `chown`, `chmod`) | ACLs of files and directories | set by the operations above | nothing in the daemon, which is root, reads them |

The clients know the daemon only through the pipes. The three command files
share the directories: `enviar` puts files into a directory that
`remove_group` or `deactivate_user` may be removing, and every message command
starts by asking the operating system for the user's groups, which the group
commands change.

What makes each of them correct:

* *pipes*: a request is with exactly one child at a time, an answer goes to the
  client that asked, no request and no client waits for ever;
* *store*: ids identify a message in its folder, `isReply` and `nReplys` tell
  the truth, a message is lost only when somebody removes it, and is where its
  name says; no rename takes back what another child has recorded;
* *users and groups*: directory, owner file and system group come and go
  together; one creator, one owner; only the owner changes members; a removal
  and a deactivation are complete when they are confirmed.

### The relay (TP1)

```
 msg_client  ---- TCP: handshake, request, answer, line feed ----  handle_echo (one task per connection)
   <user>.p12                                                          |  one asyncio event loop
                                                                       v
                                                     uids (certificates), message_queue (memory only)
```

| component | state it keeps | operations | makes it hard |
|---|---|---|---|
| server (`TP1/msg_server.py`, `TP1/server_commands_handler.py`) | `uids`: the certificate of each pseudonym; `message_queue`: a list per pseudonym; a task per connection | handshake, SEND in two exchanges, ASKQUEUE, GETMSG, end of connection | one event loop, and `handle_echo` turns in it without an `await` at end of file (`msg_server.py:250`); the certificate is registered before the signature is verified; the `-1` of a refusal is ignored; a message is marked as read before it is sent; nothing is on disk |
| client (`TP1/msg_client.py`) | one command per process, the user's `.p12` file | handshake, send, askqueue, getmsg, help | returns and exceptions that leave without the line feed the server waits for |
| connection | a stream of bytes each way | write, read up to `max_msg_size` | no lengths: one read may take two writes, or part of a long one |
| certificates and encryption (`TP1/encrypt_decypt_handler.py`, `certificados.py`, `p12_generator.py`) | none | validate, sign, encrypt | one wrapped key per message, but ASKQUEUE sends only one; renewals |

What makes it correct: a queue is a mailbox — each message in it once, under the
same number until a restart, and read for good once fetched; all of it is
encrypted for the registered certificate; senders are told what happened; a
connection whose certificate was refused gets nothing; every command ends.

## 2. The modules

| module | what it is |
|---|---|
| `Inbox` | the message store; one action per system call of a child that reads or changes it |
| `MailStore` | what the store promises: deliver, mark read, count a reply, remove, one message per step |
| `Accounts` | users and groups; one action per system call or system command |
| `Concordia` | `Inbox` and `Accounts` on the same directories and system groups |
| `Daemon` | request pipe, forks, answer pipes, kills and restarts |
| `Relay` | server, clients and connections of TP1 |
| `Mailbox` | what the relay promises the owner of a queue |
| `MCInbox`, `MCAccounts`, `MCConcordia`, `MCDaemon`, `MCRelay` | instances for TLC |
| `InboxProofs`, `InboxOneProofs` | theorems about `Inbox`: with any number of children, and with one at a time |
| `AccountsProofs`, `ConcordiaProofs`, `DaemonProofs` | theorems about these modules |
| `RelayProofs`, `RelayMailboxProofs`, `RelaySafetyProofs` | theorems about `Relay`: types and keys, the refinement of `Mailbox`, what clients are told |

A child of the daemon is everywhere a record with a `pc`: between any two of its steps
other children, the clients, the clock, and a kill of the whole daemon
(`pkill -f ./daemon`, the way the project's README stops it) may come.

### Inbox

`dir[f]` is the set of files of folder `f`; a file is its name (`info`, the
fields of `FileInfo` in `include/files_struct.h`), the request that made it
(`msg`, which stands for the inode), the request whose text it holds (`text`, 0
before the text is written), and the names appended to it (`trailer`), from the
offset `base` on. Two files of a folder never have the same `info`, as two files
of a directory never have the same name: `Put` overwrites, as `open` with
`O_TRUNC` and `rename` do.

| code | actions |
|---|---|
| `handle_user_message`, `getUserGroups` | `Begin` |
| `enviar_message` | `Resolve` (`selectDestino`, `stat`), `Scan` (`getHighestID`, time), `Create` (`open`), `Write` (the text), `Reply` |
| `sort_Allfiles` | `ReadDir` (one folder's names), `CheckRead` (`checkIfRead` of one file), `Sort` |
| `listar_message` | `Count` (`count_Allfiles`), the list, `Reply` |
| `ler_message` | `Count`, the list, `Read`, `Mark` (append the reader), `Rename` (the read field), `Reply` |
| `responder_message` | `Count`, the list, `Scan`, `Create`, `Write`, `Rename` (the reply count), `Reply` |
| `remover_message` | `Count`, the list, `Unlink`, `Reply` |

Details of the code that matter and are kept: the list is sorted unread first,
with the order of equal files open (`MayBeAt`); a group's message is "read" if
the user's name lies within the first `read` bytes after the text
(`CheckIfRead`); when another child has renamed or removed the file since its
name was read, `checkIfRead` gives -1, and that becomes the read field in memory
(`ReadField`), by which the list is sorted and which `responder_message` would
write back; a file is in the directory before its text is, so that a kill leaves
it empty under a name that gives a length, and a reader's name appended to it too
early is written over (`Filled`); a text is written to the file that was opened,
whatever its name is by then, or to none that can be found (`Write`);
`ler_message` calls `parseFileName` on a full path, so `checkIfRead` is handed
uninitialised bounds and gives either answer (`Mark`); more files than counted
write past the array (`Sort`, the child may die or go on); an index outside the
list takes whatever is in memory, which is no message's name.

### Accounts

`made`, `files` and `owner` are the directories, their entries, and what the
owner file says; `sysgroup` and `member` are `/etc/group`. `criar` is
`Mkdir`, `Groupadd`, `OpenOwner`, `WriteOwner`, `Usermod`; `remover` is `Check`
(`is_owner`), `Opendir`/`Unlink`/`RemoveDirectory` (`remove_directory`, an
`nftw`), `Groupdel`; `adicionar` and `remover-user` are `Check` and `Usermod`
or `Gpasswd`; `ativar` is `Mkdir`, with the exits of a failed `chown` or `chmod`; `desativar` is `Check`, the same removal of
a directory, and `Leave`, `LeaveOne`, `LeftAll`; `Deliver` is `enviar` as far as
directories notice. `Reply` after `done` is the confirmation; an `Exit`
elsewhere leaves the client without any answer, as the code does. `gpasswd` may
fail: `remover-user` then answers nothing, and `desativar` goes on with the next
group and confirms (`LeaveOne`); `kept` remembers the groups for which it failed.
`doomed` is a history variable: groups whose removal was authorised.

### Daemon

`main` is the main process (`down`, `boot`: FIFO unlinked, `open`: waits in
`open`, `loop`); `fifo` tells which making of the FIFO has the name, so that a
client that opened the old one (`client[k].end`) is told apart from one that
opened the new one. `child[n]` is the n-th process; a child that has exited is
a `zombie` and keeps its slot. `back` are the answer pipes that have a name,
`reply` what is in them. `fate` is history: requests taken, without an answer
by their handler (`silent`), whose answer had no pipe to go to (`lost`), taken
down by a kill (`dropped`), and which answer each client read (`got`).

### Concordia

`EXTENDS Inbox`, and an instance of `Accounts` whose `made`, `job` and `Mail`
are `Inbox`'s `exists`, a second job per child (`task`) and the file names; so
the steps of `create_group` and the others are those of `Accounts`, with what
they do to messages added. A child that is idle in both respects takes a request
of either kind (`BeginMail`, `BeginGroup`).

| code | actions |
|---|---|
| the message commands | `HandleMail` (a step of `Inbox`) |
| `getUserGroups`: a group id whose group has gone | `Unnamed` |
| `mkdir`, `groupadd`, `usermod`, `gpasswd`, `groupdel`, `rmdir`, checks | `KeepFiles` |
| creating the owner file | `OpenOwner` |
| `remove_directory`: one entry | `UnlinkEntry` (the message goes with its name) |
| clock, `pkill -f ./daemon`, waiting | `CTick`, `CStop`, `CWait` |

`enviar` is `Inbox`'s here, so `Accounts`' own stand-in for it is not offered.
History variables: `doomed` (as in `Accounts`), `expelled` (how many requests had
been taken when somebody last left a group), `gone` (folders once removed).

### Relay and Mailbox

A run `r` is one start of `msg_client.py`: its process `client[r]`, the task
`handler[r]` that serves it, and its connection `wire[r]` — what is written and
not yet read in both directions (`up`, `down`) and how the client's end is
(`fin`: open, closed, reset). A read takes the first chunk and understands it;
further chunks that the same read returns are swallowed (`AfterRead`). `uids` and
`queue` are the server's memory; `key` is the key pair now in a user's `.p12`
file, `expired` the certificates past their date, `epoch` counts restarts.

| code | actions |
|---|---|
| `tcp_echo_client`: connect, handshake up to its first wait | `Start` |
| `handshake` of the client: the server's key and signature | `ReadReply` |
| answers to send, askqueue, getmsg; the confirmation | `ReadCert`, `ReadNoUid`, `ReadList`, `ReadMail`, `ReadNothing`, `ReadConfirm` |
| an empty read; `^C` | `ReadEnd`, `Interrupt` |
| `ServerWorker.handshake` | `ReadParams`, `NoParams`, `ReadKey`, `ReadSign` (`uid_gen`, then the signature) |
| `ServerWorker.process` | `RequestUnknown` (no key), `AskQueue`, `GetMsg`, `SendToUnknown`, `SendCert`, `StoreMail` |
| `handle_echo`: line feed, end of file, reset | `ReadLineFeed`, `ReadEof`, `ReadReset` |
| `^C` at the server and a new start | `Restart` |
| `p12_generator.py`; the calendar | `Renew`, `Expire` |

What a handler does between two `await`s is one action, as nothing else runs on
the event loop meanwhile. `Serving` guards every action of the server: while a
handler turns at end of file (`pc = "spin"`) none of them happens. `StoreMail` is
the second half of `handle_get_target_data_command`, after its `await`: other
sends, a renewal or a restart may come between it and `SendCert`.

## 3. The runs

### Passing

| run | instance | what it shows |
|---|---|---|
| `inbox_one` | 1 child, 2 users, 1 group, 4 requests, 1 kill, one second | With one child at a time: ids are unique, nothing that was written is lost, `isReply` and `nReplys` tell the truth, `ler` marks, a removal that is confirmed happened unless nothing was selected (`RemovedIsRemoved`), the bytes the read field counts are in the file, if its text was ever written (`ReadCountBounded`), and the files implement `MailStore` |
| `inbox_two` | 2 children, 2 users, 1 group, 3 requests, 2 seconds, 1 kill, one user's name part of the other's | What survives any interleaving: no reply counted that was not written (`NoPhantomReplies`), headers and counts never go back (`HeaderMonotone`), a text disappears only by a removal or under its twin (`LossIsTwin`) |
| `accounts_one` | 1 child, 2 users, 1 group, 5 requests, 1 kill | The three parts of a group agree, the group has an owner, only the owner changes members, `desativar` is complete when confirmed but for the groups `gpasswd` failed for, a removal ends |
| `accounts_two` | 2 children, 5 requests | `mkdir` serialises creation until somebody is cleared to remove the group: `OneCreator`, `CompleteGroups`, `OwnerFixed` |
| `concordia` | 2 children, 2 users, 1 group, 3 requests, 2 seconds, 1 kill | With folders and memberships that change under a child: a request begun after a user was removed sees nothing of the group (`RemovedSeesNothing`), id 0 is given only where a folder was removed (`ZeroOnlyAfterRemoval`), and every loss is a removal, a twin, or an entry that `remove_directory` had read (`LossIsKnown`) |
| `daemon` | 2 client ids, 3 processes, pipe for 1 request, 2 requests, 1 kill, 1 interrupt | `RequestAccounted`, `AnswerIsOwn`; a request is taken while there is room for it, and answered unless one of the named events intervenes |
| `relay_mail` | 2 users, 4 commands one after another, numbers 0 to 2 | The number that `askqueue` showed fetches that message (`NumbersHold`); a message marked as read was shown, or is on its way, or its owner's client failed (`ReadWasFetched`) |
| `relay_crash` | 2 users, 2 commands at once, reads of up to 2 chunks, 1 interrupt, 1 renewal, 1 restart | Senders are told what happened (`ToldIsTrue`), a queue has one key (`OneKeyPerQueue`), and the queues implement `Mailbox` (`ImplementsMailbox`) |
| `relay_ends` | 2 users, every command, 2 at once, 1 interrupt, 1 expired certificate | A refused certificate gets nothing (`UnverifiedGetsNothing`), a command that ran to its end never holds the event loop (`CompletedNeverSticks`), and every command ends but for three named reasons (`EndsUnless`) |

One child at a time is how Concordia runs when requests are more than a
handler's duration apart: the daemon forks once a second. Two children is what
happens when a handler takes longer than that, or when two requests wait and
the first child is slow.

Several connections at once are the normal case of the relay, and `relay_crash`
and `relay_ends` interleave two; `relay_mail` trades that for a longer sequence,
as its properties relate a send, an `askqueue` and a `getmsg` that are commands
of their own.

`MCInbox` starts from two states: everything is there and everybody belongs to
the group; or only one user's folder is there and the group has a member but no
folder, which is where the "folder missing" branches lead. `MCConcordia` starts
with both users active and in the group, and one message in the group and one in
a folder, so that three requests are enough to read, answer or remove something
while its folder goes. `MCRelay` starts with every user registered (each has run
a command before); a restart then forgets them.

**Why the bounds are enough.** Four requests are one message, an answer, and
two more that meddle (read, remove, answer again): the shortest
counterexamples of the violated properties, and those of the mutants, take
at most four. With two children three are enough: one that is there, and two that
run at the same time. Two seconds distinguish "same second" from "later", which
matters where two children may give the same id; with one child ids differ, and
`inbox_one` stays within a second. Two users
and a group give direct and group messages, reader and sender; the names have
different lengths (5 and 3), so byte counts of different readers differ. Five
requests in `Accounts` are create, add, deliver, remove, create again. One kill
can fall between any two steps; a second one would find what the first one left.
In `Concordia` three requests are two that run together and one
that comes after, such as making the removed group anew. In `Relay` two
connections give every pair of handlers; what one read joins is at most what the
other end writes without waiting, which is two chunks; a second restart would
find the same empty memory as the first. Four commands are two sends, a look and
a fetch. In `Daemon` a pipe for one request makes the second client wait, and three
processes are one more than there are requests, so that a fork without a request
can use one up.

### Where the code does not do what it says

Each of these checks one sentence of the documentation, a comment or an answer
to the client, and TLC shows an execution that breaks it.

| run | what is said | what happens |
|---|---|---|
| `reply_reaches_sender` | "Enviada resposta para ..." (`message_commands.c:275`) | the reply to a direct message is stored in the folder of whoever replies |
| `confirmed_is_gone` | "Mensagem removida com sucesso!" (`message_commands.c:326`) | a `ler` of the same user renames the file between the list and the `remove()`, which then fails; the message is still there and the removal is confirmed |
| `every_connection_read` | "Serve requests until Ctrl+C is pressed" (`TP1/msg_server.py:269`) | a client that leaves without the line feed (it was interrupted, or could not use its answer) makes `handle_echo` turn at end of file for ever, and nobody else is read |

`every_connection_read` is stated under `MCFairSpec`, so that it is not broken by
a process that merely stops. A refused send (`TP1/msg_client.py:407`) leaves that
way too, but in this instance every user is registered and none is refused.

Three more places where an answer or a document says more than the code does have
no run, but are in the model: what joana sends to ana is filed in joana's own
folder and confirmed as sent (`Destinos`; `message_commands.c:89`,
`files_struct.c:359`); a deactivation is confirmed although `gpasswd` failed
(`LeaveOne`; `user_commands.c:113-128`); `askqueue` sends the key and certificate of
the last message only, so that the messages of other senders are not shown, against
`TP1/README.md:46-48` (`AskQueue`, `ReadList`). `inbox_two` is the instance in which one
name is part of another (`BobInAlice`); the others have `OwnPath`.

Other limits of the code show in what a property has to allow, rather than in a
run of their own: `AttendedWhileRoom` says *while there is room*, because children
are never waited for; `AnsweredUnless` names the ways an answer is lost;
`RemovedIsRemoved` excepts a request whose index was not in the list, which is
confirmed all the same; `DeactivateComplete` excepts the groups for which
`gpasswd` failed; `ReadCountBounded` bounds the read field but cannot say
that it counts every reader, and excepts a file whose child was killed between
`open` and `write`; what is said about groups (`FolderAndGroupAgree`,
`CompleteGroups`, `RemoveCompletes`) is said while nothing is killed, as a kill
between two of their parts leaves them as they are; `LossIsKnown` admits `remove_directory`;
`ReadWasFetched` admits the client that failed, and `EndsUnless` the three ways a
command of the relay hangs.

### Fairness

* `Accounts!FairSpec`: weak fairness of each child's handler. A child is a
  process that makes system calls and runs `groupadd` and the like; each of them
  returns. Nothing is assumed about requests arriving or about kills.
* `Daemon!FairSpec`: weak fairness of making the FIFO, of opening it, of the
  fork once a second, of each child and of each started client. Opens and reads
  that block are guards, so fairness does not help them. That anybody starts the
  daemon again after a kill, or starts a client, is not assumed.
  `CHECK_DEADLOCK FALSE` there, because a daemon and clients that wait for one
  another, or a system without requests, are allowed to stop.
* `Relay!Fairness`: for each run, weak fairness of its client and of its handler.
  Clients are processes of their own; the event loop runs handlers that are ready
  in the order they became ready. A handler that turns without an `await`
  disables the actions of all others, so fairness does not help them. Nobody has
  to start, interrupt, renew or restart anything. `CHECK_DEADLOCK FALSE`, because
  when all commands have ended, or wait for each other, nothing is left to do.
* `Inbox` and `Concordia` need no fairness: all their properties are about safety.

Every property of a passing run has a mutant in `PROJECT.json`: a definition of
the code and a plausible wrong form of it (the operators commented as
*Variant*), with which the property fails.

## 4. What is proved

TLAPS checks these for every number of users, groups, children, requests, runs,
kills and restarts; the only assumptions are the named `ASSUME`s of the modules
(`NamesAssumption`, `BoundsAssumption`, `AccountsAssumption`,
`ConcordiaAssumption`, `OfferedAssumption`, `DaemonAssumption`,
`RelayAssumption`) and what is said here. Every invariant and every action
property that a passing run checks is a theorem, and so are both refinements. The
inductive invariants were checked with TLC before they were proved.

### The message store, any number of children (`InboxProofs`)

| theorem | statement | argument |
|---|---|---|
| `TypeCorrect` | `Spec => []TypeOK` | `TypeInv` adds to `TypeOK` which command a child serves at each `pc`, and that it has a selection where it uses one (`GoodJob`): without it `job[c].sel.info` has no type. The read field is a number or -1, in memory and in names. Directories stay finite, so that the length of a listing is a number (`ListingFinite`) |
| `LossOnlyToTwins` | `Spec => LossIsTwin`, an action property | from `TypeInv`, step by step: `Create`, `Write`, `Mark` and `Rename` put a file under a name, and what loses its text is what had that name (`PutSurvives`); `Unlink` is `remover` |
| `HeadersStay` | if no group has the name of a user: `Spec => HeaderMonotone`, an action property | `StoreInv`: a request's number is on one file of a folder at most (`OneFileEach`), because a child that has not yet written has a number that is nowhere (`NumbersOnce`). So the two files that the property compares are the one that a step retold (`Retold`), and `Renamed` keeps the header. `GoodSelection`: the read field in memory of a direct message is the one in the name that was read, never the -1 of `checkIfRead`, which is asked about the messages of groups only |
| `RepliesAreReal` | `Spec => []NoPhantomReplies` | `CountInv`: a child between writing a reply and the rename has its answer recorded (`Answered`), for the very name it is about to rename; as the rename needs that name to be still there, the count in it leaves room for one more (`CountsFit`). Two children that owe a count to the same name cannot both succeed |

### The message store, one child at a time (`InboxOneProofs`)

All with `Children = {k}`, kills anywhere. The first needs nothing else; the
others suppose `OneChild(k)`: also `OwnPaths`, and no group with a user's name.
Under it a message is in the folder its name gives (`NamedByFolder`), which is a
step of these proofs and no result: the code does nothing to ensure `OwnPaths`.

| theorem | statement | argument |
|---|---|---|
| `UniqueIdsOneChild` | `Spec => []UniqueIds` | `UniqueIds` is not inductive, because `Scan` and `Create` are two steps; `FreshId` says that the id a child carries between them is above all those in its folder. It is kept as the other steps of the one child do not come in between, and the clock and kills add no file |
| `NothingLost` | `Spec => []NoLoss` | `OneInv`, for all that follow. Its `Base` are the invariants above; they make every step write one file under a new name, change one in place, delete one, or none (`CreateMakes`, `WriteSwaps`, `MarkSwaps`, `RenameSwaps`, `UnlinkDeletes`). Its `Data` say what files and history have in common, its `JobInv` what the child knows: above all `Found`, that the file it selected is still there under the name it read (`Listed` says it of every entry while the list is built), and `Opening`, that the file it has opened is there as it was made until the child writes. `Told`: a file holds the text of the request that made it, or none if that was never written |
| `RepliesResolve` | `Spec => []ReplyResolves` | `Resolved`: the id of a reply is above that of the message it answers, so as long as the reply is in the folder `getHighestID` does not give the answered id again |
| `CountsExact` | `Spec => []ReplyCountExact` | `Counts`: while nothing was killed, a message's count and what the child owes it (`Owed`) add up to its answers |
| `ReadIsMarked` | `Spec => []LerMarksRead` | `Flags` and `Marked`: ler renames to 1, or leaves the rename out for a message that has its bit already (`Bits`) |
| `RemovalIsReal` | `Spec => []RemovedIsRemoved` | `Dropped`, with `Found`, and `OneFolder`: a text is in one folder only |
| `ReadCountsEntries` | `Spec => []ReadCountBounded` | `ReadInv` adds to `OneInv` that the read field of a group's message with a text is 0 or at most one entry of its trailer, and the trailer begins at its length (`Covers`), and what ler and responder carry to the rename (`Entered`, `Seen`). That no entry is longer than where the last one ends (`EndCovers`) is an induction over the trailer: `EntriesEnd` is recursive, and that its equation has a solution, and what it gives, follow from the least-number principle (`Smallest`, from the library's `WFMin`), stated of sets of numbers (`Inductive`) |
| `InboxImplementsMailStore` | `Spec => ImplementsMailStore`: the directory refines `MailStore` | from `OneInv`: `Write` maps to `Deliver` (`WriteDelivers`), `Create` to a stutter, `Rename` to `MarkRead`, `CountReply` or, for a reader of a group's message, a stutter (`RenameTells`), `Unlink` to `Remove` (`UnlinkRemoves`), `Mark` and every other step to a stutter (`MailStep`) |

### Users and groups (`AccountsProofs`)

| theorem | statement | argument |
|---|---|---|
| `TypeCorrect` | `Spec => []TypeOK` | `JobInv` relates each step to the commands that reach it, which is what makes `Dest(c)` a group where a group is changed |
| `CreationIsSerial` | `Spec => []OneCreator`, any number of children | `LockInv`: the creator of a group nobody was cleared to remove has its directory, no owner and, before it opens the file, no owner file, and is alone. `OneStep` says what one child's step does to the groups of the others (*it spares them*); the proof that such a step keeps the lock is then one lemma, `LockKept`. `RemoverInv` ties a removal under way to its authorisation |
| `OwnerNeverChanges` | `Spec => OwnerFixed`, an action property | from the same invariant: only a creator without an owner writes one |
| `GroupsAreComplete` | `Spec => []CompleteGroups`, any number of children | `WholeInv`: while nothing was killed, a group nobody was cleared to remove has its system group and its owner, or a child is making it, and how much is there is known from that child's step (`Whole`) |
| `FolderAndGroupOneChild`, `OwnerOneChild` | with `Children = {k}`: `Spec => []FolderAndGroupAgree`, `Spec => []GroupHasOwner` | `OneInv`: while nothing was killed, directory, system group and owner of a group differ only where the child's step says so (`Agrees`) |
| `DeactivationOneChild` | with `Children = {k}`: `Spec => []DeactivateComplete` | the part of `OneInv` that kills do not touch (`Walk`): the groups a leaving user still belongs to are among those left to walk or those `gpasswd` failed for (`kept`) |
| `MembersOneChild` | with `Children = {k}`: `Spec => OnlyOwnerChangesMembers`, an action property | `Walk` too: at `usermod` and `gpasswd` the owner check is still right |

### The composition (`ConcordiaProofs`)

| theorem | statement | argument |
|---|---|---|
| `HousedTypes` | `CSpec => []CTypeOK` | `CInv`: the types of both parts, files only in directories that exist, and each child's request number at most the number served (`Numbered`). The lemmas `…IsSound` and `AccountIsSound` say what a step of `Accounts` may do to directories, members and owner files |
| `RemovedIsBlind` | `CSpec => []RemovedSeesNothing` | the same invariant: when members leave, `expelled` becomes the number served, which is no less than that of any child at work |
| `ZeroMeansRemoved` | with `OwnPaths`: `CSpec => []ZeroOnlyAfterRemoval` | `ZeroInv`: a child that has found its folder and not yet created its file has an id above 0, or its folder is in `gone` |
| `LossesAreKnown` | `CSpec => LossIsKnown`, an action property | the steps of `Inbox` as before; `UnlinkEntry` is the remaining case |

### The daemon (`DaemonProofs`)

| theorem | statement | argument |
|---|---|---|
| `DaemonTypes` | `Spec => []TypeOK` | `TypeInv` adds that every start but the running one was ended by a stop, without which the number of starts has no bound |
| `RequestsAccounted` | `Spec => []RequestAccounted` | `Once` and `WithOne`: a request is in the pipe once at most, and with one child at most; `Unsent`: what a client has not yet written is nowhere; `Accounted`: what a waiting client wrote is in the pipe, with a child, in its answer pipe or has ended |
| `OwnAnswers` | `Spec => []AnswerIsOwn` | `Mine`, as long as nobody was interrupted: every request in the pipe or with a child is that of the client which now runs under its process id, and a client that reads has its own child at work. It needs `WriterHeard`: who has opened an answer pipe finds its client reading |

### The relay (`RelayProofs`, `RelayMailboxProofs`, `RelaySafetyProofs`)

| theorem | statement | argument |
|---|---|---|
| `RelayTypes` | `Spec => []TypeOK` | `TypeInv` adds which chunks may be on the way to a run of which command (`WiresFor`, `Downs`), without which a client's step has no type, and that an answered list has a last entry |
| `OneKey` | `Spec => []OneKeyPerQueue` | `KeyInv`: while the server has not closed a connection, a certificate on its way to a sender, and a mail on its way back, are for the registered certificate. It is kept because a registered certificate is never replaced (`Register`), and a restart, which forgets it, closes every connection |
| `RelayImplementsMailbox` | `Spec => ImplementsMailbox`: the relay refines `Mailbox` | `FreshInv`: at most one mail of a run is on its way, with the run's own id and unread, and as long as a run has one or may still write one, nothing of it is stored. Then `StoreMail` maps to `Deliver`, `GetMsg` to `MarkRead` or a stutter, `Restart` to `Restart`, and every other step to a stutter (`BoxStep`) |
| `UnverifiedNothing` | `Spec => []UnverifiedGetsNothing` | `SafeInv`, for this and the next ones: for each run, where client, handler and both directions of the connection are at the same time (`Talk`), and that a handler without a key has answered nothing but its part of the handshake (`Unknown`) |
| `NeverSticks` | `Spec => []CompletedNeverSticks` | `TalkLeft`: a client that ran to its end left a line feed, in whatever pieces it is read, and the handler reads that before the end of file |
| `ToldTruth` | `Spec => []ToldIsTrue` | `Stored`: what is confirmed, or is about to be, is in the queue of the target, and what is refused is in none |
| `NumbersStay` | `Spec => []NumbersHold` | `Numbered` and `Agree`: what a client was shown, or will read, is the queue's own numbering while the server runs, and after a restart still agrees with what others were shown before it |
| `MarkedWasFetched` | `Spec => []ReadWasFetched` | `Fetched`: for each marked message there is a run of its owner that asked for it and was shown it, has it on its way, or has failed |

### Why the hypotheses

`OwnPaths` is an assumption because `selectDestino` uses `strstr` on the whole
path (`files_struct.c:359`): a group named `users`, or a name that is part of
another's, breaks it. That no group has the name of a user is what `groupadd` sees
to, as every user has a private group of the same name. One child at a time is
not what the code ensures, it is where these properties hold: `UniqueIds` is false
with two children, as both may scan the folder before either creates its file,
and so is what rests on it. The theorems for any number of children say what is
left then: a loss is one to a twin (`LossOnlyToTwins`), headers stay, and counts may
miss a reply but invent none.

### Model-checked only

`RemoveCompletes`, `AttendedWhileRoom`, `AnsweredUnless` and `EndsUnless` stay with
TLC for good: they are leads-to properties under fairness, which is out of the
prover's reach.

## 5. Abstractions

* *Inbox*: the text of a message is the number of its request. Memberships and
  folders do not change during a behaviour; they do in `Concordia`. `ReadDir`
  reads the names of one folder at once; that the code counts this folder a second
  time before it, for an array of its own (`files_struct.c:166`), is left out, as a
  file in between overruns that array the way one after `Count` overruns the
  other. `count_Allfiles` is one step. `Mark` merges the `open`, `checkIfRead`,
  `write` and `close` of one append; a text is written in one `write`, after its
  `open`. No user's name is a prefix of another's. File names are
  never too long. Two kinds of out-of-range index (no message's name, or a crash)
  stand for whatever memory holds.
* *Accounts*: `getgrnam`, `chown`, `setfacl` and `fopen` are one step
  (`OpenOwner`). `groupadd`, `usermod` and the like are atomic; `gpasswd` may fail
  for any reason, the others only for the reasons named; contention for the lock of `/etc/group` is left out.
  Access lists are left out: the daemon is root.
* *Concordia*: a name is unlinked together with the message it has at that
  moment; the group that `getgrgid` no longer finds is left out of the list, or
  the child dies of the uninitialised entry. A group command's own look at
  `/etc/group` is one step, as in `Accounts`.
* *Daemon*: requests and answers are opaque; a handler ends in an answer or
  without one. The two writes of a listing are one. A pipe's room is counted in
  requests. The main folder exists: `main` makes the FIFO in it
  (`daemon.c:128`) before it makes the folder (`daemon.c:134`), so on a machine
  without it, which the Makefile does not make either, the daemon exits.
* *Relay*: encryption and signatures are ideal: what a key opens, and whose
  signature it is, is decided by the certificate it belongs to, a pair of user and
  renewal. Subjects, bodies and times are left out, a message is the run that sent
  it. Bytes are chunks, one per write of a process; a read takes whole chunks, and
  what it takes after the first is not understood. An answer to `askqueue` that
  does not fit `max_msg_size` is one with more than `MaxListed` entries and cannot
  be read. Signatures that fail are those of a key renewed between two steps of
  the same handshake. Whether the transport is closed after an exception in a
  handler depends on the version of asyncio: both happen (`Dies`). The server
  writes without waiting: answers are far smaller than a socket's buffer.

**Not modelled**, and why:

* access rights (`setfacl`, `chown`, `chmod`): the daemon, which is root, sets them
  and takes no decision by them; that they would keep the users out of each
  other's files is a matter of the operating system;
* `sort_files` and `responder_mensagem_grupo`: nothing calls them;
* `listar_membros_grupo`: it changes nothing and its answer is `/etc/group`'s;
* the log files and texts of TP1, which nothing reads back;
* the cryptographic libraries and the certificate authority, which are not in the
  repository.

## 6. The plan

1. `Inbox`, `MailStore` — **done**: the store is where the program's logic is.
2. `Accounts` — **done**. 3. `Daemon` — **done**. 4. `Concordia` — **done**.
5. `Relay`, `Mailbox` — **done**, with the handshake of both ends in `Relay`.
6. Proofs — **done** for every invariant and action property of the runs and for
   both refinements. What is left: properties of `Inbox` with one child
   (`NothingLost`, `RepliesResolve`, the refinement of `MailStore`) carried over to
   `Concordia` for folders that are not removed, and the refinement of `Inbox` by
   `Concordia` as long as no membership changes.
