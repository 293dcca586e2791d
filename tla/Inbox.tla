-------------------------------- MODULE Inbox --------------------------------
(* The message store of the Concordia daemon: one directory per user and per  *)
(* group, one file per message, and everything the daemon knows about a       *)
(* message written in the NAME of its file.  The store has no lock.  Each     *)
(* request runs in a child process of its own, and the steps below are the    *)
(* system calls of those children that read or change the store, so that two  *)
(* children may interleave anywhere between them.                             *)
EXTENDS Integers, Sequences, FiniteSets

CONSTANTS
    Users,       \* system users; each has a private group of the same name
    Groups,      \* system groups created for Concordia
    Children,    \* the daemon's child processes that may run at one time
    Occurs,      \* Occurs[d]: folders whose full path contains the text d
    NameLen,     \* length of a user's name
    NameRank,    \* position of a name in strcmp order
    Lengths,     \* lengths of the messages that are sent
    Mids,        \* indexes a client may type (the list shown starts at 1)
    MaxRequests, \* bound: requests the daemon serves
    MaxTime,     \* bound: seconds that pass
    MaxStops,    \* bound: times the daemon and its children are killed
    None         \* no folder, no name, no message selected

Folders == Users \cup Groups

ASSUME NamesAssumption ==
    /\ IsFiniteSet(Folders)
    /\ None \notin Folders
    /\ NameLen \in [Users -> Nat \ {0}]
    /\ NameRank \in [Folders -> Nat]
    /\ Occurs \in [Folders -> SUBSET Folders]
    /\ \A f \in Folders : f \in Occurs[f]

ASSUME BoundsAssumption ==
    /\ Lengths \subseteq Nat
    /\ Mids \subseteq Nat
    /\ MaxRequests \in Nat
    /\ MaxTime \in Nat
    /\ MaxStops \in Nat

(* What the name of a message file says.  time stands for the six fields of   *)
(* its timestamp, which has a resolution of one second.                       *)
(* read is -1 once responder has written back what a failed checkIfRead left. *)
ReadField == Nat \cup {-1}
FileInfo == [id : Nat, name : Folders, nameSender : Users, time : Nat,
             tam : Nat, read : ReadField, nReplys : Nat, isReply : Nat]

(* A file: its name; msg, the request that made it (which stands for the      *)
(* inode); text, the request whose text it holds, 0 as long as it is empty of *)
(* text; and the user names ler_message appended, from the offset base on.    *)
File == [info : FileInfo, msg : Nat, text : Nat, base : Nat,
         trailer : Seq(Users)]

Commands == {"enviar", "listar", "ler", "responder", "remover"}

ConcordiaRequest ==
    [command : Commands, user : Users, dest : Folders \cup {None},
     len : Nat, mid : Nat]

(* The requests the command line client can build.                            *)
ClientRequests ==
         [command : {"enviar"}, user : Users, dest : Folders,
          len : Lengths, mid : {0}]
    \cup [command : {"listar"}, user : Users, dest : {None},
          len : {0}, mid : {0}]
    \cup [command : {"ler", "remover"}, user : Users, dest : {None},
          len : {0}, mid : Mids]
    \cup [command : {"responder"}, user : Users, dest : {None},
          len : Lengths, mid : Mids]

VARIABLES
    exists,   \* folders that have been made and not removed
    member,   \* the system groups: member[g] is who belongs to g
    dir,      \* dir[f]: the message files in folder f
    now,      \* the clock, in seconds
    served,   \* requests taken from the daemon's FIFO so far
    stops,    \* times the daemon has been killed so far
    job,      \* job[c]: local state of child c
    sent,     \* history: messages whose text enviar or responder wrote
    removed,  \* history: messages deleted by remover
    answers   \* history: for each reply, in which folder and to which message

history == <<sent, removed, answers>>
vars == <<exists, member, dir, now, served, stops, job, history>>

IdleJob ==
    [pc |-> "idle", req |-> None, num |-> 0, folders |-> {}, folder |-> None,
     id |-> 0, time |-> 0, cnt |-> 0, left |-> {}, names |-> {}, list |-> {},
     sel |-> None, fd |-> 0, flag |-> 0]

Init ==
    /\ exists \in SUBSET Folders
    /\ member \in [Groups -> SUBSET Users]
    /\ dir = [f \in Folders |-> {}]
    /\ now = 0
    /\ served = 0
    /\ stops = 0
    /\ job = [c \in Children |-> IdleJob]
    /\ sent = {}
    /\ removed = {}
    /\ answers = {}

------------------------------------------------------------------------------
(* Reading the store.                                                         *)

Ids(f) == {x.info.id : x \in dir[f]}

(* Variant: takes the identifier of whichever file is read last.              *)
IsHighestLast(h, f) == h \in {0} \cup Ids(f)

(* h is the highest identifier used in folder f, 0 if the folder is empty.    *)
IsHighest(h, f) == h \in {0} \cup Ids(f) /\ \A k \in Ids(f) : k <= h

(* Variant: gives -1 for an empty folder too.                                 *)
HighestIDEmpty(h, f) ==
    IF f \in exists /\ dir[f] # {} THEN IsHighest(h, f) ELSE h = -1

(* getHighestID gives -1 when the folder cannot be opened.                    *)
HighestID(h, f) ==
    IF f \in exists THEN IsHighest(h, f) ELSE h = -1

(* Variant: does not ask who belongs to the groups.                           *)
UserFoldersAll(u) == {u} \cup Groups

(* Folders whose messages a user sees: the user's own one and those of the    *)
(* system groups the user belongs to.                                         *)
UserFolders(u) == {u} \cup {g \in Groups : u \in member[g]}

(* The folders selectDestino may return: the first one whose path contains    *)
(* the destination's name.  The user's own folder comes first; the order of   *)
(* the others is that of the group database.                                  *)
Destinos(folders, user, dest) ==
    LET hits == folders \cap Occurs[dest]
    IN  IF hits = {} THEN {dest} \cap Users
        ELSE IF user \in hits THEN {user} ELSE hits

(* Variant: seeks every file in the user's own folder.                        *)
FolderOfOwn(info, user) == user

(* The folder in which a file is sought again, from the name in its FileInfo. *)
FolderOf(info, user) ==
    IF info.name = user \/ info.name \in Groups THEN info.name ELSE None

(* Bytes taken by the first k names of a trailer, each written as ";name".    *)
EntriesEnd(trailer) ==
    LET End[k \in 0..Len(trailer)] ==
            IF k = 0 THEN 0 ELSE End[k - 1] + NameLen[trailer[k]] + 1
    IN  End

(* Is the user named, in full, in the first so many bytes after the text?  No *)
(* user's name is taken to be the beginning or the end of another's.          *)
NamedWithin(user, x, bytes) ==
    \E k \in 1..Len(x.trailer) :
        /\ x.trailer[k] = user
        /\ x.base + EntriesEnd(x.trailer)[k - 1] + 1 >= x.info.tam
        /\ x.base + EntriesEnd(x.trailer)[k] <= x.info.tam + bytes

(* The file of that name in folder f, if there still is one.                  *)
Named(f, info) == {x \in (IF f \in exists THEN dir[f] ELSE {}) : x.info = info}

(* checkIfRead: -1 if the file cannot be opened or so many bytes not be read. *)
CheckIfRead(f, info, user) ==
    IF Named(f, info) = {} \/ info.read < 0 THEN -1
    ELSE IF \E x \in Named(f, info) : NamedWithin(user, x, info.read)
         THEN 1 ELSE 0

(* The files count_Allfiles and sort_Allfiles go through, with their folder.  *)
Listing(folders) ==
    UNION {{<<f, x>> : x \in dir[f]} : f \in folders \cap exists}

(* An entry of sortedFiles, which a handler works with from then on: the file *)
(* name, the read field in memory, and (not in the code) which file it was.   *)
Entry(x) == [info |-> x.info, read |-> x.info.read, msg |-> x.msg]

Selection == [info : FileInfo, read : ReadField, msg : Nat]

(* Entries come with the folder they were read from.                          *)
Entries(f) == {<<p[1], Entry(p[2])>> : p \in Listing({f})}

(* compareFileInfo: unread first, then by time, then by name.                 *)
Before(p, q) ==
    LET x == p[2].info
        y == q[2].info
    IN  \/ p[2].read < q[2].read
        \/ /\ p[2].read = q[2].read
           /\ \/ x.time < y.time
              \/ x.time = y.time /\ NameRank[x.name] < NameRank[y.name]

(* p may stand at index mid: qsort leaves the order of equal entries open.    *)
MayBeAt(p, mid, list) ==
    /\ Cardinality({q \in list : Before(q, p)}) < mid
    /\ mid <= Cardinality(list) - Cardinality({q \in list : Before(p, q)})

(* Variant: a file takes the place of any other with its identifier.          *)
PutById(files, x) == {y \in files : y.info.id # x.info.id} \cup {x}

(* A directory after a file is created or renamed over the name x.info.       *)
Put(files, x) == {y \in files : y.info # x.info} \cup {x}

------------------------------------------------------------------------------
(* A child's life: it takes one request, runs its handler, and exits.         *)

store == <<exists, member>>
counters == <<now, served, stops>>

Become(c, j) == job' = [job EXCEPT ![c] = j]
Exit(c) == Become(c, IdleJob)

(* read() of one request, and getUserGroups.  The user is the client's own.   *)
Begin(c, r) ==
    /\ job[c].pc = "idle"
    /\ served < MaxRequests
    /\ served' = served + 1
    /\ Become(c, [IdleJob EXCEPT
                    !.pc = IF r.command = "enviar" THEN "resolve" ELSE "count",
                    !.req = r,
                    !.num = served + 1,
                    !.folders = UserFolders(r.user)])
    /\ UNCHANGED <<store, dir, now, stops, history>>

(* enviar: choose the folder and stat it; without it the child gives up       *)
(* and nobody answers the client.                                             *)
Resolve(c) ==
    LET j == job[c]
        targets == Destinos(j.folders, j.req.user, j.req.dest)
    IN  /\ j.pc = "resolve"
        /\ \/ \E f \in targets \cap exists :
                Become(c, [j EXCEPT !.pc = "scan", !.folder = f])
           \/ /\ ~ (targets \subseteq exists) \/ targets = {}
              /\ Exit(c)
        /\ UNCHANGED <<store, dir, counters, history>>

(* Variant: takes the highest identifier itself.                              *)
ScanHighest(c) ==
    LET j == job[c]
    IN  /\ j.pc = "scan"
        /\ \E h \in {-1, 0} \cup (IF j.folder \in exists THEN Ids(j.folder) ELSE {}) :
              /\ HighestID(h, j.folder)
              /\ Become(c, [j EXCEPT !.pc = "create", !.id = h, !.time = now])
        /\ UNCHANGED <<store, dir, counters, history>>

(* enviar and responder: take the time and scan the folder for the next id.   *)
Scan(c) ==
    LET j == job[c]
    IN  /\ j.pc = "scan"
        /\ \E h \in {-1, 0} \cup (IF j.folder \in exists THEN Ids(j.folder) ELSE {}) :
              /\ HighestID(h, j.folder)
              /\ Become(c, [j EXCEPT !.pc = "create", !.id = h + 1, !.time = now])
        /\ UNCHANGED <<store, dir, counters, history>>

(* Variant: isReply is the index the client typed.                            *)
NewInfoIndex(j) ==
    [id |-> j.id,
     name |-> IF j.req.command = "enviar" THEN j.req.dest ELSE j.sel.info.name,
     nameSender |-> j.req.user, time |-> j.time, tam |-> j.req.len,
     read |-> 0, nReplys |-> 0,
     isReply |-> j.req.mid]

(* The name of the file enviar or responder is about to write.                *)
NewInfo(j) ==
    [id |-> j.id,
     name |-> IF j.req.command = "enviar" THEN j.req.dest ELSE j.sel.info.name,
     nameSender |-> j.req.user,
     time |-> j.time,
     tam |-> j.req.len,
     read |-> 0,
     nReplys |-> 0,
     isReply |-> IF j.req.command = "enviar" THEN 0 ELSE j.sel.info.id]

(* open creates the file, or empties the one that already has this name.      *)
Opened(j) ==
    LET twins == {x \in dir[j.folder] : x.info = NewInfo(j)}
    IN  IF twins = {} THEN {j.num} ELSE {x.msg : x \in twins}

NewFile(j, m) ==
    [info |-> NewInfo(j), msg |-> m, text |-> 0, base |-> 0, trailer |-> <<>>]

(* open with O_CREAT and O_TRUNC: there is a file of that name, without text. *)
Create(c) ==
    LET j == job[c]
    IN  /\ j.pc = "create"
        /\ \/ /\ j.folder \in exists
              /\ \E m \in Opened(j) :
                    /\ dir' = [dir EXCEPT ![j.folder] = Put(@, NewFile(j, m))]
                    /\ Become(c, [j EXCEPT !.pc = "write", !.fd = m])
              /\ answers' = IF j.req.command = "enviar" THEN answers
                            ELSE answers \cup
                                   {[reply |-> j.num, folder |-> j.folder,
                                     id |-> j.sel.info.id, msg |-> j.sel.msg]}
           \/ /\ j.folder \notin exists
              /\ Exit(c)
              /\ UNCHANGED <<dir, answers>>
        /\ UNCHANGED <<store, counters, sent, removed>>

(* The file once the text is written at its beginning, over the names that    *)
(* readers have appended meanwhile.                                           *)
Filled(x, num) ==
    IF x.base + EntriesEnd(x.trailer)[Len(x.trailer)] > x.info.tam
    THEN [x EXCEPT !.text = num]
    ELSE [x EXCEPT !.text = num, !.base = x.info.tam, !.trailer = <<>>]

(* write, close, setfacl, on the file that was opened, whatever its name is   *)
(* now; it may be in no directory any more.                                   *)
Write(c) ==
    LET j == job[c]
        opened == {x \in dir[j.folder] : x.msg = j.fd}
    IN  /\ j.pc = "write"
        /\ IF opened = {}
           THEN UNCHANGED dir
           ELSE \E x \in opened :
                  dir' = [dir EXCEPT ![j.folder] = Put(@, Filled(x, j.num))]
        /\ sent' = sent \cup {j.num}
        /\ Become(c, [j EXCEPT !.pc = IF j.req.command = "enviar"
                                      THEN "reply" ELSE "rename"])
        /\ UNCHANGED <<store, counters, removed, answers>>

(* The other commands first count the files, to size the array ...            *)
Count(c) ==
    LET j == job[c]
    IN  /\ j.pc = "count"
        /\ Become(c, [j EXCEPT !.pc = "sort",
                               !.cnt = Cardinality(Listing(j.folders)),
                               !.left = j.folders])
        /\ UNCHANGED <<store, dir, counters, history>>

(* ... and then go through the directories again, the user's own one first:   *)
(* the names of one directory are read at once, and for each message that is  *)
(* not a direct one ...                                                       *)
ReadDir(c) ==
    LET j == job[c]
        user == j.req.user
    IN  /\ j.pc = "sort"
        /\ j.names = {}
        /\ \E f \in j.left :
              /\ f = user \/ user \notin j.left
              /\ Become(c, [j EXCEPT
                    !.left = @ \ {f},
                    !.names = {p \in Entries(f) : p[2].info.name # user},
                    !.list = @ \cup {p \in Entries(f) : p[2].info.name = user}])
        /\ UNCHANGED <<store, dir, counters, history>>

(* ... the file is opened under that name, to see whether this user has read  *)
(* it.  What checkIfRead gives, -1 too, takes the place of the read field.    *)
CheckRead(c) ==
    LET j == job[c]
    IN  /\ j.pc = "sort"
        /\ \E p \in j.names :
              LET answer == CheckIfRead(p[1], p[2].info, j.req.user)
              IN  Become(c, [j EXCEPT
                    !.names = @ \ {p},
                    !.list = @ \cup {<<p[1], [p[2] EXCEPT !.read = answer]>>}])
        /\ UNCHANGED <<store, dir, counters, history>>

AfterSort(command) ==
    CASE command = "ler" -> "read"
      [] command = "responder" -> "scan"
      [] command = "remover" -> "unlink"

(* The list is sorted.  With more files than were counted it was written past *)
(* the array, which may kill the child.  The index is not compared with the   *)
(* number of files: outside the list it takes whatever is in memory, which is *)
(* no message's name.                                                         *)
Sort(c) ==
    LET j == [job[c] EXCEPT !.list = {}]
        list == job[c].list
    IN  /\ j.pc = "sort"
        /\ j.left = {} /\ j.names = {}
        /\ \/ /\ Cardinality(list) > j.cnt
              /\ Exit(c)
           \/ /\ j.req.command = "listar"
              /\ Become(c, [j EXCEPT !.pc = "reply"])
           \/ /\ j.req.command # "listar"
              /\ j.cnt = 0
              /\ Exit(c)
           \/ /\ j.req.command # "listar"
              /\ j.cnt > 0
              /\ \E p \in list :
                    /\ MayBeAt(p, j.req.mid, list)
                    /\ Become(c, [j EXCEPT
                                    !.pc = AfterSort(j.req.command),
                                    !.sel = p[2],
                                    !.folder = FolderOf(p[2].info, j.req.user)])
           \/ /\ j.req.command # "listar"
              /\ j.cnt > 0
              /\ j.req.mid \notin 1..Cardinality(list)
              /\ \/ Exit(c)
                 \/ /\ j.req.command # "ler"
                    /\ Become(c, [j EXCEPT !.pc = "reply"])
        /\ UNCHANGED <<store, dir, counters, history>>

(* Variant: looks for the selected file by its identifier.                    *)
SelectedById(j) ==
    {x \in (IF j.folder \in exists THEN dir[j.folder] ELSE {}) :
        x.info.id = j.sel.info.id}

(* The selected file, if a file still has the name read from the directory.   *)
Selected(j) == Named(j.folder, j.sel.info)

(* ler: open the file and read its text.                                      *)
Read(c) ==
    LET j == job[c]
    IN  /\ j.pc = "read"
        /\ \/ /\ Selected(j) # {}
              /\ Become(c, IF j.sel.info.name = j.req.user
                           THEN [j EXCEPT !.pc = "rename", !.flag = 1]
                           ELSE [j EXCEPT !.pc = "mark"])
           \/ /\ Selected(j) = {}
              /\ Exit(c)
        /\ UNCHANGED <<store, dir, counters, history>>

(* Variant: counts the reader's entry even if it is not written.              *)
MarkUnwritten(c) ==
    LET j == job[c]
    IN  /\ j.pc = "mark"
        /\ Selected(j) # {}
        /\ Become(c, [j EXCEPT !.pc = "rename",
                               !.flag = NameLen[j.req.user] + 1 + j.sel.read])
        /\ UNCHANGED <<dir, store, counters, history>>

(* ler, on a group's message: open it again to append, ask checkIfRead, and   *)
(* append ";user" if it answers 0.  parseFileName was given a full path, so    *)
(* checkIfRead gets uninitialised bounds and may give any of its answers.      *)
(* flag is the read field the file's name will get.                           *)
Mark(c) ==
    LET j == job[c]
        user == j.req.user
    IN  /\ j.pc = "mark"
        /\ \/ \E x \in Selected(j) :
                /\ dir' = [dir EXCEPT ![j.folder] =
                            Put(@, [x EXCEPT !.trailer = Append(@, user)])]
                /\ Become(c, [j EXCEPT !.pc = "rename",
                                       !.flag = NameLen[user] + 1 + j.sel.read])
           \/ /\ Selected(j) # {}
              /\ Become(c, [j EXCEPT !.pc = "rename", !.flag = 0])
              /\ UNCHANGED dir
           \/ /\ Selected(j) = {}
              /\ Exit(c)
              /\ UNCHANGED dir
        /\ UNCHANGED <<store, counters, history>>

(* Variants: responder forgets to count; ler forgets its bit; responder puts  *)
(* the bit back to 0; ler counts a reply; responder counts down.              *)
RenamedNoCount(j) ==
    IF j.req.command = "ler" THEN [j.sel.info EXCEPT !.read = j.flag]
    ELSE [j.sel.info EXCEPT !.read = j.sel.read]
RenamedNoBit(j) ==
    IF j.req.command = "ler" THEN j.sel.info
    ELSE [j.sel.info EXCEPT !.read = j.sel.read, !.nReplys = @ + 1]
RenamedUnread(j) ==
    IF j.req.command = "ler" THEN [j.sel.info EXCEPT !.read = j.flag]
    ELSE [j.sel.info EXCEPT !.read = 0, !.nReplys = @ + 1]
RenamedAlways(j) ==
    [j.sel.info EXCEPT !.read = j.flag, !.nReplys = @ + 1]
RenamedDown(j) ==
    IF j.req.command = "ler" THEN [j.sel.info EXCEPT !.read = j.flag]
    ELSE [j.sel.info EXCEPT !.read = j.sel.read, !.nReplys = @ - 1]

(* The name ler or responder gives the selected file: every field comes from  *)
(* memory, read among them.                                                   *)
Renamed(j) ==
    IF j.req.command = "ler"
    THEN [j.sel.info EXCEPT !.read = j.flag]
    ELSE [j.sel.info EXCEPT !.read = j.sel.read, !.nReplys = @ + 1]

(* rename from the name read earlier to the new one.  It fails, and nobody    *)
(* looks, if that name is gone; a file that has the new name is replaced.     *)
(* ler does it only for a message it found unread.                            *)
Rename(c) ==
    LET j == job[c]
    IN  /\ j.pc = "rename"
        /\ IF (j.req.command = "ler" /\ j.sel.read # 0) \/ Selected(j) = {}
           THEN UNCHANGED dir
           ELSE \E x \in Selected(j) :
                  dir' = [dir EXCEPT ![j.folder] =
                            Put(@ \ {x}, [x EXCEPT !.info = Renamed(j)])]
        /\ Become(c, [j EXCEPT !.pc = "reply"])
        /\ UNCHANGED <<store, counters, history>>

(* remover: delete the file of that name.  The client is told that the        *)
(* message was removed either way.                                            *)
Unlink(c) ==
    LET j == job[c]
    IN  /\ j.pc = "unlink"
        /\ IF Selected(j) = {}
           THEN UNCHANGED <<dir, removed>>
           ELSE /\ dir' = [dir EXCEPT ![j.folder] = @ \ Selected(j)]
                /\ removed' = removed \cup ({x.text : x \in Selected(j)} \ {0})
        /\ Become(c, [j EXCEPT !.pc = "reply"])
        /\ UNCHANGED <<store, counters, sent, answers>>

(* returnListToClient (or returnListToClient2 for a listing), then exit.      *)
Reply(c) ==
    /\ job[c].pc = "reply"
    /\ Exit(c)
    /\ UNCHANGED <<store, dir, counters, history>>

------------------------------------------------------------------------------
(* The clock, and "pkill -f ./daemon": it kills the daemon and its children   *)
(* wherever they are; what is on disk stays, and a new daemon starts.         *)

Tick ==
    /\ now < MaxTime
    /\ now' = now + 1
    /\ UNCHANGED <<store, dir, served, stops, job, history>>

Stop ==
    /\ stops < MaxStops
    /\ \E c \in Children : job[c].pc # "idle"
    /\ stops' = stops + 1
    /\ job' = [c \in Children |-> IdleJob]
    /\ UNCHANGED <<store, dir, now, served, history>>

(* The daemon waits for more requests: there is nothing left within bounds.   *)
Wait ==
    /\ served = MaxRequests
    /\ \A c \in Children : job[c].pc = "idle"
    /\ UNCHANGED vars

Handle(c) ==
    \/ Resolve(c) \/ Scan(c) \/ Create(c) \/ Write(c)
    \/ Count(c) \/ ReadDir(c) \/ CheckRead(c) \/ Sort(c)
    \/ Read(c) \/ Mark(c) \/ Rename(c) \/ Unlink(c) \/ Reply(c)

Next ==
    \/ \E c \in Children : (\E r \in ClientRequests : Begin(c, r)) \/ Handle(c)
    \/ Tick
    \/ Stop
    \/ Wait

Spec == Init /\ [][Next]_vars

------------------------------------------------------------------------------
(* Properties.                                                                *)

JobStates ==
    [pc : {"idle", "resolve", "scan", "create", "write", "count", "sort",
           "read", "mark", "rename", "unlink", "reply"},
     req : ConcordiaRequest \cup {None}, num : Nat, folders : SUBSET Folders,
     folder : Folders \cup {None}, id : Nat, time : Nat, cnt : Nat,
     left : SUBSET Folders, names : SUBSET (Folders \X Selection),
     list : SUBSET (Folders \X Selection), sel : Selection \cup {None},
     fd : Nat, flag : Nat]

(* Every variable keeps its type: in particular the fields of a file's name   *)
(* stay what parseFileName can read back.                                     *)
TypeOK ==
    /\ exists \in SUBSET Folders
    /\ member \in [Groups -> SUBSET Users]
    /\ dir \in [Folders -> SUBSET File]
    /\ \A f \in Folders : IsFiniteSet(dir[f])
    /\ now \in Nat
    /\ served \in Nat
    /\ stops \in Nat
    /\ job \in [Children -> JobStates]
    /\ sent \in SUBSET Nat
    /\ removed \in SUBSET Nat
    /\ answers \in SUBSET [reply : Nat, folder : Folders, id : Nat, msg : Nat]

Files == UNION {dir[f] : f \in Folders}
Stored == {x.msg : x \in Files}
Texts == {x.text : x \in Files}

(* The identifier that getHighestID + 1 gives a message is its own in its     *)
(* folder, so that isReply says which message was answered.                   *)
UniqueIds ==
    \A f \in Folders : \A x, y \in dir[f] :
        x.info.id = y.info.id => x = y

(* A message that was written stays until some remover deletes it: neither    *)
(* O_TRUNC nor rename destroys another one.                                   *)
NoLoss == sent \subseteq Texts \cup removed

(* The isReply of a reply never leads to a message other than the one that    *)
(* was answered, even after that one was removed.                             *)
ReplyResolves ==
    \A a \in answers : \A r \in dir[a.folder] :
        r.msg = a.reply =>
            \A x \in dir[a.folder] :
                x.info.id = r.info.isReply => x.msg = a.msg

(* nReplys never counts a reply that was not written: responder_message       *)
(* renames with the count it read, and succeeds only if that is still the     *)
(* file's name, so concurrent replies may be missed but none counts twice.    *)
NoPhantomReplies ==
    \A f \in Folders : \A x \in dir[f] :
        x.info.nReplys <=
            Cardinality({a \in answers : /\ a.folder = f /\ a.id = x.info.id
                                         /\ a.reply \in sent})

(* With one child at a time that is never killed, nReplys is the number of    *)
(* replies written to the message, once responder has done its rename.        *)
ReplyCountExact ==
    (stops = 0 /\ \A c \in Children : job[c].pc \notin {"write", "rename"}) =>
        \A f \in Folders : \A x \in dir[f] :
            x.info.nReplys = Cardinality({a \in answers : a.msg = x.msg})

(* When ler is about to hand over a direct message, its file says it is read: *)
(* the message does not stay in the unread part of the list.                  *)
LerMarksRead ==
    \A c \in Children :
        LET j == job[c]
        IN  (/\ j.pc = "reply" /\ j.req.command = "ler"
             /\ j.sel.info.name = j.req.user)
            => \A x \in dir[j.folder] : x.msg = j.sel.msg => x.info.read = 1

SameHeader(i, k) ==
    /\ i.id = k.id
    /\ i.name = k.name
    /\ i.nameSender = k.nameSender
    /\ i.time = k.time
    /\ i.tam = k.tam
    /\ i.isReply = k.isReply

(* However the children interleave, no step changes who sent a message, to    *)
(* whom, when, or what it answers; its reply count never goes back, and a     *)
(* direct message never turns unread again.                                   *)
HeaderMonotone ==
    [][\A f \in Folders : \A x \in dir[f] : \A y \in dir'[f] :
          x.msg = y.msg =>
            /\ SameHeader(x.info, y.info)
            /\ x.info.nReplys <= y.info.nReplys
            /\ x.info.name \in Users => x.info.read <= y.info.read]_vars

(* A text that was written disappears only when remover deletes it, or when a *)
(* message with the same id, sender, second and length takes its file name.   *)
LossIsTwin ==
    [][\A f \in Folders : \A x \in dir[f] : x.text # 0 =>
          \/ \E y \in dir'[f] : y.text = x.text
          \/ x.text \in removed'
          \/ \E y \in dir'[f] : SameHeader(x.info, y.info)]_vars

(* What the users may rely on, once the files are read as messages: the bit   *)
(* of a direct message and the reply count are in the file's name, who has    *)
(* read a group's message is left out.                                        *)
Promised(x) == [msg |-> x.text,
            read |-> x.info.name \in Users /\ x.info.read = 1,
            replies |-> x.info.nReplys]

(* A file without text is no message.                                         *)
Delivered(files) == {Promised(x) : x \in {y \in files : y.text # 0}}

Promise == INSTANCE MailStore WITH
    Msgs <- 1..MaxRequests,
    mail <- [f \in Folders |-> Delivered(dir[f])],
    delivered <- sent

(* With one child at a time the directory of files is such a store: each      *)
(* request that gets that far takes effect on one message and no other.       *)
ImplementsMailStore == Promise!Spec

(* A file is in the folder its name field gives: that is where ler, responder *)
(* and remover look for it.  It holds as long as no folder's path contains    *)
(* the name of another one.                                                   *)
NamedByFolder ==
    \A f \in Folders : \A x \in dir[f] : x.info.name = f

(* With one child at a time, a confirmed removal of a message in the list has  *)
(* removed it: the folder is found again from the name, the file from what the *)
(* name said when the list was made, and it is in no folder any more.          *)
RemovedIsRemoved ==
    \A c \in Children :
        LET j == job[c]
        IN  (j.pc = "reply" /\ j.req.command = "remover" /\ j.sel # None) =>
                /\ j.sel.msg \in sent => j.sel.msg \in removed
                /\ j.sel.msg \notin Stored

(* "Mensagem removida com sucesso!": when remover confirms the removal of a    *)
(* message in its list, that message is in no folder, under whatever name.    *)
ConfirmedIsGone ==
    \A c \in Children :
        LET j == job[c]
        IN  (j.pc = "reply" /\ j.req.command = "remover" /\ j.sel # None) =>
                j.sel.msg \notin Stored

(* "Enviada resposta para <nameSender>": when responder confirms, the reply   *)
(* is in a folder that the sender of the answered message reads.              *)
ReplyReachesSender ==
    \A c \in Children :
        LET j == job[c]
        IN  (j.pc = "reply" /\ j.req.command = "responder" /\ j.sel # None)
            => j.folder \in UserFolders(j.sel.info.nameSender)

(* The bytes that the name of a group's message counts are in the file, after  *)
(* the text, even when ler was killed between the name it appended and the     *)
(* rename, or checkIfRead worked with garbage.  A file whose child was killed  *)
(* before it wrote the text is excepted: there the bytes after the length in   *)
(* the name are missing.                                                       *)
ReadCountBounded ==
    \A g \in Groups : \A x \in dir[g] :
        (x.info.name \in Groups /\ x.text # 0) =>
            x.info.tam + x.info.read <=
                x.base + EntriesEnd(x.trailer)[Len(x.trailer)]
==============================================================================
