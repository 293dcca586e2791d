---------------------------- MODULE InboxOneProofs ----------------------------
(* The message store while the daemon runs one child at a time: identifiers   *)
(* are unique, nothing is lost, replies and counts are exact, the readers it  *)
(* counts are in the file, and the files are the store that MailStore         *)
(* promises, wherever that child is killed.                                   *)
EXTENDS InboxProofs, WellFoundedInduction

------------------------------------------------------------------------------
(* One child at a time: unique identifiers.  getHighestID and open are two    *)
(* steps; what makes them safe is that the identifier a child carries from    *)
(* one to the other is still above every identifier in its folder.            *)

FreshId ==
    \A c \in Children :
        LET j == job[c]
        IN  (j.pc = "create" /\ j.folder \in exists) =>
                \A x \in dir[j.folder] : x.info.id < j.id

IdInv == TypeInv /\ UniqueIds /\ FreshId

DistinctIds(S) == \A x, y \in S : x.info.id = y.info.id => x = y

(* A new file with an identifier nobody has keeps identifiers distinct.       *)
LEMMA PutNewId ==
    ASSUME NEW S, DistinctIds(S), NEW x, \A y \in S : y.info.id # x.info.id
    PROVE  DistinctIds(Put(S, x))
  BY DEF DistinctIds, Put

(* So does a file that takes the place of one with its identifier.            *)
LEMMA PutSameId ==
    ASSUME NEW S, DistinctIds(S), NEW x \in S, NEW y, y.info.id = x.info.id
    PROVE  /\ DistinctIds(Put(S \ {x}, y))
           /\ y.info = x.info => DistinctIds(Put(S, y))
  BY DEF DistinctIds, Put

(* One folder changes, and its identifiers stay distinct.                     *)
LEMMA FolderUnique ==
    ASSUME TypeOK, UniqueIds, NEW f \in Folders, NEW S, DistinctIds(S),
           dir' = [dir EXCEPT ![f] = S]
    PROVE  UniqueIds'
  BY DEF TypeOK, UniqueIds, DistinctIds

(* The other way round, for one folder.                                       *)
LEMMA FolderDistinct ==
    ASSUME UniqueIds, NEW f \in Folders
    PROVE  DistinctIds(dir[f])
  BY DEF UniqueIds, DistinctIds

(* A file gives way to one with its identifier.                               *)
LEMMA RetoldUnique ==
    ASSUME TypeOK, UniqueIds, NEW g, NEW w, NEW z, Retold(g, w, z),
           z.info.id = w.info.id
    PROVE  UniqueIds'
  <1>1. /\ g \in Folders /\ w \in dir[g]
        /\ dir' = [dir EXCEPT ![g] = Put(dir[g] \ {w}, z)]
    BY DEF Retold
  <1>2. DistinctIds(Put(dir[g] \ {w}, z))
    BY <1>1, FolderDistinct, PutSameId
  <1>3. QED
    BY <1>1, <1>2, FolderUnique

(* A child that is not about to create a file carries no identifier.          *)
LEMMA NotCreating ==
    ASSUME NEW k, Children = {k}, TypeInv, job' \in [Children -> JobStates],
           job'[k].pc # "create"
    PROVE  FreshId'
  BY DEF FreshId

(* Create and Rename are the steps that matter: the one uses a fresh          *)
(* identifier, the other keeps the identifier of the file it renames.         *)
LEMMA IdInvNext ==
    ASSUME NEW k, Children = {k}, IdInv, [Next]_vars
    PROVE  IdInv'
  <1> USE DEF IdInv
  <1>1. TypeInv'
    BY TypeInvNext
  <1>2. TypeOK /\ TypeOK' /\ k \in Children
    BY <1>1 DEF TypeInv
  <1>3. job \in [Children -> JobStates] /\ job' \in [Children -> JobStates]
    BY <1>2 DEF TypeOK
  <1>4. ASSUME UNCHANGED dir PROVE UniqueIds'
    BY <1>4 DEF UniqueIds
  <1>5. ASSUME NEW j, Become(k, j) PROVE job'[k] = j
    BY <1>2, <1>3, <1>5 DEF Become
  <1>6. Exit(k) => job'[k].pc # "create"
    BY <1>2, <1>3 DEF Exit, Become, IdleJob
  <1>7. ASSUME NEW pc, pc # "create", Become(k, [job[k] EXCEPT !.pc = pc])
         PROVE  job'[k].pc # "create"
    BY <1>2, <1>3, <1>7 DEF Become, JobStates
  <1>8. ASSUME NEW r \in ClientRequests, Begin(k, r)
        PROVE  UniqueIds' /\ FreshId'
    <2>1. job'[k].pc # "create"
      BY <1>5, <1>8 DEF Begin, IdleJob
    <2>2. QED
      BY <1>1, <1>3, <1>4, <1>8, <2>1, NotCreating DEF Begin
  <1>9. CASE Resolve(k)
    <2>1. job'[k].pc # "create"
      <3>1. ASSUME NEW f, Become(k, [job[k] EXCEPT !.pc = "scan", !.folder = f])
            PROVE  job'[k].pc # "create"
        BY <1>2, <1>3, <3>1 DEF Become, JobStates
      <3>2. QED
        BY <1>9, <1>6, <3>1 DEF Resolve
    <2>2. QED
      BY <1>1, <1>3, <1>4, <1>9, <2>1, NotCreating DEF Resolve
  <1>10. CASE Scan(k)
    <2>1. UniqueIds'
      BY <1>4, <1>10 DEF Scan
    <2>2. PICK h : /\ HighestID(h, job[k].folder)
                   /\ Become(k, [job[k] EXCEPT !.pc = "create", !.id = h + 1,
                                               !.time = now])
      BY <1>10 DEF Scan
    <2>3. /\ job'[k].folder = job[k].folder
          /\ job'[k].id = h + 1
      BY <1>3, <1>5, <2>2, <1>2 DEF JobStates
    <2>4. ASSUME job[k].folder \in exists, NEW x \in dir[job[k].folder]
          PROVE  x.info.id < h + 1
      <3>1. x.info.id \in Ids(job[k].folder) /\ Ids(job[k].folder) \subseteq Nat
        <4>1. dir[job[k].folder] \in SUBSET File
          BY <1>2, <2>4 DEF TypeOK
        <4>2. \A y \in dir[job[k].folder] : y.info.id \in Nat
          BY <4>1 DEF File, FileInfo
        <4>3. QED
          BY <2>4, <4>2 DEF Ids
      <3>2. h \in Nat /\ x.info.id <= h
        BY <2>2, <2>4, <3>1 DEF HighestID, IsHighest
      <3>3. QED
        BY <3>1, <3>2
    <2>5. QED
      BY <1>1, <1>10, <2>1, <2>3, <2>4 DEF Scan, FreshId, store
  <1>11. CASE Create(k)
    <2> DEFINE j == job[k]
    <2>1. CASE UNCHANGED dir /\ Exit(k)
      BY <1>1, <1>3, <1>4, <1>6, <2>1, NotCreating
    <2>2. ASSUME NEW m \in Nat, j.folder \in exists, j.folder \in Folders,
                 Become(k, [j EXCEPT !.pc = "write", !.fd = m]),
                 \/ /\ m = j.num
                    /\ dir' = [dir EXCEPT ![j.folder] = Put(@, NewFile(j, m))]
                 \/ \E w \in dir[j.folder] : /\ Retold(j.folder, w, NewFile(j, m))
                                             /\ w.info = NewInfo(j)
          PROVE  UniqueIds' /\ FreshId'
      <3>1. PICK n : n = NewFile(j, m)
        OBVIOUS
      <3>2. n.info.id = j.id /\ n.info = NewInfo(j)
        BY <3>1 DEF NewFile, NewInfo
      <3>3. ASSUME NEW w \in dir[j.folder], Retold(j.folder, w, n),
                   w.info = NewInfo(j)
            PROVE  UniqueIds'
        BY <1>2, <3>2, <3>3, RetoldUnique
      <3>4. ASSUME dir' = [dir EXCEPT ![j.folder] = Put(dir[j.folder], n)]
            PROVE  UniqueIds'
        <4>1. \A y \in dir[j.folder] : y.info.id < j.id
          BY <1>2, <1>11, <2>2 DEF Create, FreshId
        <4>2. \A y \in dir[j.folder] : y.info.id \in Nat
          BY <1>2, <2>2 DEF TypeOK, File, FileInfo
        <4>3. j.id \in Nat
          BY <1>2, <1>3 DEF JobStates
        <4>4. \A y \in dir[j.folder] : y.info.id # n.info.id
          BY <3>2, <4>1, <4>2, <4>3
        <4>5. DistinctIds(Put(dir[j.folder], n))
          BY <2>2, <4>4, FolderDistinct, PutNewId
        <4>6. QED
          BY <1>2, <2>2, <3>4, <4>5, FolderUnique
      <3>5. UniqueIds'
        BY <2>2, <3>1, <3>3, <3>4
      <3>6. job'[k].pc # "create"
        BY <1>2, <1>3, <2>2 DEF Become, JobStates
      <3>7. QED
        BY <1>1, <1>3, <3>5, <3>6, NotCreating
    <2>3. QED
      BY <1>1, <1>2, <1>11, <2>1, <2>2, CreateShape
  <1>22. CASE Write(k)
    <2> DEFINE j == job[k]
    <2>1. job'[k].pc # "create"
      BY <1>2, <1>3, <1>22 DEF Become, Write, JobStates
    <2>2. ASSUME NEW w \in dir[j.folder], NEW z, Retold(j.folder, w, z),
                 z.info = w.info
          PROVE  UniqueIds'
      BY <1>2, <2>2, RetoldUnique
    <2>3. UniqueIds'
      BY <1>2, <1>4, <1>22, <2>2, WriteShape
    <2>4. QED
      BY <1>1, <1>3, <2>1, <2>3, NotCreating
  <1>23. CASE ReadDir(k) \/ CheckRead(k)
    <2>1. job'[k].pc # "create"
      <3>1. ASSUME NEW l, NEW n, NEW e,
                   Become(k, [job[k] EXCEPT !.left = l, !.names = n, !.list = e])
            PROVE  job'[k].pc = job[k].pc
        BY <1>2, <1>3, <3>1 DEF Become, JobStates
      <3>2. ASSUME NEW n, NEW e,
                   Become(k, [job[k] EXCEPT !.names = n, !.list = e])
            PROVE  job'[k].pc = job[k].pc
        BY <1>2, <1>3, <3>2 DEF Become, JobStates
      <3>3. job[k].pc = "sort"
        BY <1>23 DEF ReadDir, CheckRead
      <3>4. CASE ReadDir(k)
        BY <3>1, <3>3, <3>4 DEF ReadDir
      <3>5. CASE CheckRead(k)
        BY <3>2, <3>3, <3>5 DEF CheckRead
      <3>6. QED
        BY <1>23, <3>4, <3>5
    <2>2. UNCHANGED dir
      BY <1>23 DEF ReadDir, CheckRead
    <2>3. QED
      BY <1>1, <1>3, <1>4, <2>1, <2>2, NotCreating
  <1>12. CASE Count(k)
    <2>1. job'[k].pc # "create"
      BY <1>2, <1>3, <1>12 DEF Become, Count, JobStates
    <2>2. QED
      BY <1>1, <1>3, <1>4, <1>12, <2>1, NotCreating DEF Count
  <1>13. CASE Sort(k)
    <2> DEFINE j == [job[k] EXCEPT !.list = {}]
               taken(p) == [j EXCEPT !.pc = AfterSort(j.req.command),
                                     !.sel = p[2],
                                     !.folder = FolderOf(p[2].info, j.req.user)]
    <2>0. job[k] \in JobStates
      BY <1>2, <1>3
    <2>1. PICK i : i = j
      OBVIOUS
    <2>2. /\ i \in JobStates /\ i.req = job[k].req
          /\ job[k].pc = "sort"
          /\ \/ Exit(k)
             \/ Become(k, [j EXCEPT !.pc = "reply"])
             \/ j.req.command # "listar" /\ \E p \in job[k].list : Become(k, taken(p))
          /\ UNCHANGED dir
      BY <1>2, <1>13, <2>0, <2>1, SortShape
    <2>3. ASSUME NEW p, j.req.command # "listar", Become(k, taken(p))
          PROVE  job'[k].pc # "create"
      <3>1. j.req.command \in {"ler", "responder", "remover"}
        BY <1>2, <2>1, <2>2, <2>3 DEF TypeInv, GoodJob, ConcordiaRequest, Commands
      <3>2. taken(p).pc = AfterSort(j.req.command)
        BY <2>1, <2>2 DEF JobStates
      <3>3. job'[k].pc = AfterSort(j.req.command)
        BY <1>5, <2>3, <3>2
      <3>4. QED
        BY <3>1, <3>3 DEF AfterSort
    <2>4. ASSUME Become(k, [j EXCEPT !.pc = "reply"]) PROVE job'[k].pc # "create"
      <3>1. [j EXCEPT !.pc = "reply"].pc = "reply"
        BY <2>1, <2>2 DEF JobStates
      <3>2. QED
        BY <1>5, <2>4, <3>1
    <2> HIDE DEF taken, j
    <2>5. job'[k].pc # "create"
      BY <1>6, <2>2, <2>3, <2>4
    <2>6. QED
      BY <1>1, <1>3, <1>4, <2>2, <2>5, NotCreating
  <1>14. CASE Read(k)
    <2>1. job'[k].pc # "create"
      <3>1. Become(k, [job[k] EXCEPT !.pc = "rename", !.flag = 1])
              => job'[k].pc # "create"
        BY <1>2, <1>3 DEF Become, JobStates
      <3>2. QED
        BY <1>14, <1>6, <1>7, <3>1 DEF Read
    <2>2. QED
      BY <1>1, <1>3, <1>4, <1>14, <2>1, NotCreating DEF Read
  <1>15. CASE Mark(k)
    <2> DEFINE j == job[k]
    <2>1. job'[k].pc # "create"
      <3>1. ASSUME NEW n, Become(k, [job[k] EXCEPT !.pc = "rename", !.flag = n])
            PROVE  job'[k].pc # "create"
        BY <1>2, <1>3, <3>1 DEF Become, JobStates
      <3>2. QED
        BY <1>15, <1>6, <3>1 DEF Mark
    <2>2. ASSUME NEW w \in Selected(j), NEW z, Retold(j.folder, w, z),
                 z.info = w.info
          PROVE  UniqueIds'
      BY <1>2, <2>2, RetoldUnique
    <2>3. UniqueIds'
      BY <1>2, <1>4, <1>15, <2>2, MarkShape
    <2>4. QED
      BY <1>1, <1>3, <2>1, <2>3, NotCreating
  <1>16. CASE Rename(k)
    <2> DEFINE j == job[k]
    <2>1. job'[k].pc # "create"
      BY <1>2, <1>3, <1>16 DEF Become, Rename, JobStates
    <2>2. ASSUME NEW w \in Selected(j), NEW z, Retold(j.folder, w, z),
                 z.info = Renamed(j)
          PROVE  UniqueIds'
      <3>1. w \in File /\ w.info = j.sel.info
        BY <1>2, <1>3, SelectedType
      <3>2. z.info.id = w.info.id
        BY <2>2, <3>1 DEF File, FileInfo, Renamed
      <3>3. QED
        BY <1>2, <2>2, <3>2, RetoldUnique
    <2>3. UniqueIds'
      BY <1>2, <1>4, <1>16, <2>2, RenameShape
    <2>4. QED
      BY <1>1, <1>3, <2>1, <2>3, NotCreating
  <1>17. CASE Unlink(k)
    <2> DEFINE j == job[k]
    <2>1. job'[k].pc # "create"
      BY <1>2, <1>3, <1>17 DEF Become, Unlink, JobStates
    <2>2. CASE Selected(j) # {}
      <3>1. j.folder \in Folders
        BY <1>2, <1>3, <2>2, SelectedType
      <3>2. DistinctIds(dir[j.folder] \ Selected(j))
        BY <3>1, FolderDistinct DEF DistinctIds
      <3>3. QED
        BY <1>1, <1>2, <1>3, <1>17, <2>1, <2>2, <3>1, <3>2, FolderUnique, NotCreating
        DEF Unlink
    <2>3. CASE Selected(j) = {}
      BY <1>1, <1>3, <1>4, <1>17, <2>1, <2>3, NotCreating DEF Unlink
    <2>4. QED
      BY <2>2, <2>3
  <1>18. CASE Reply(k)
    <2>1. job'[k].pc # "create"
      BY <1>2, <1>3, <1>18 DEF Become, Reply, Exit, IdleJob
    <2>2. QED
      BY <1>1, <1>3, <1>4, <1>18, <2>1, NotCreating DEF Reply
  <1>19. CASE Tick \/ UNCHANGED vars
    BY <1>1, <1>4, <1>19 DEF Tick, vars, store, FreshId
  <1>20. CASE Stop
    <2>1. job'[k].pc # "create"
      BY <1>2, <1>20 DEF Stop, IdleJob
    <2>2. QED
      BY <1>1, <1>3, <1>4, <1>20, <2>1, NotCreating DEF Stop
  <1>21. QED
    BY <1>1, <1>8, <1>9, <1>10, <1>11, <1>12, <1>13, <1>14, <1>15, <1>16, <1>17,
       <1>18, <1>19, <1>20, <1>22, <1>23
    DEF Next, Handle, Wait

(* getHighestID + 1 gives every message an identifier of its own in its       *)
(* folder, for any users, groups and requests, restarts included, as long as  *)
(* the daemon has one child at a time.                                        *)
THEOREM UniqueIdsOneChild ==
    ASSUME NEW k, Children = {k}
    PROVE  Spec => []UniqueIds
  <1>1. Init => IdInv
    BY TypeInvInit DEF Init, IdInv, UniqueIds, FreshId, IdleJob
  <1>2. IdInv /\ [Next]_vars => IdInv'
    BY IdInvNext
  <1>3. IdInv => UniqueIds
    BY DEF IdInv
  <1>4. QED
    BY <1>1, <1>2, <1>3, PTL DEF Spec

------------------------------------------------------------------------------
(* The inductive invariant.  The files of a child's choice stay as it found   *)
(* them, since nobody else is there to touch them.                            *)

(* One child; no folder's path contains another's name; and no group has the  *)
(* name of a user, as groupadd refuses the name of a user's private group.    *)
OneChild(k) ==
    /\ Children = {k}
    /\ OwnPaths
    /\ Users \cap Groups = {}

(* The child has selected a message and is not done with it.                  *)
Holding(j) ==
    \/ j.pc \in {"read", "mark", "rename", "unlink"}
    \/ j.pc \in {"scan", "create", "write"} /\ j.req.command # "enviar"

(* The file is there, under the name that was read, and is the one it was.    *)
Found(j) ==
    Holding(j) =>
      /\ j.sel.info.name \in {j.req.user} \cup Groups
      /\ \E x \in Selected(j) : x.msg = j.sel.msg

(* An entry of the list, or a name still to be looked into: the file is there *)
(* under that name.                                                           *)
Listed(p, user) ==
    /\ p[1] \in exists \cap ({user} \cup Groups)
    /\ \E x \in dir[p[1]] : x.info = p[2].info /\ x.msg = p[2].msg

Looks(j) ==
    j.pc \in {"count", "sort"} =>
      /\ j.sel = None
      /\ j.folders \subseteq {j.req.user} \cup Groups
      /\ j.left \subseteq {j.req.user} \cup Groups
      /\ \A p \in j.names \cup j.list : Listed(p, j.req.user)

(* The file that was opened is the child's own, and still as it was made.     *)
Opening(j) ==
    j.pc = "write" =>
      /\ j.fd = j.num
      /\ \E x \in dir[j.folder] :
            x.msg = j.num /\ x.info = NewInfo(j) /\ x.base = 0 /\ x.trailer = <<>>

(* What ler will write into the read field of a direct message.               *)
Flags(j) ==
    /\ j.pc = "mark" => j.sel.info.name # j.req.user
    /\ (/\ j.pc = "rename" /\ j.req.command = "ler"
        /\ j.sel.info.name = j.req.user) => j.flag = 1

(* What ler and remover have done when they answer.                           *)
Marked(j) ==
    (/\ j.pc = "reply" /\ j.req.command = "ler"
     /\ j.sel.info.name = j.req.user)
    => \A x \in dir[j.folder] : x.msg = j.sel.msg => x.info.read = 1

Dropped(j) ==
    (j.pc = "reply" /\ j.req.command = "remover" /\ j.sel # None)
    => /\ j.sel.msg \in sent => j.sel.msg \in removed
       /\ j.sel.msg \notin Stored

JobInv(j) ==
    Found(j) /\ Looks(j) /\ Opening(j) /\ Flags(j) /\ Marked(j) /\ Dropped(j)

(* A message is in one folder, and a direct message's read field is a bit.    *)
OneFolder ==
    \A f, g \in Folders : \A x \in dir[f] : \A y \in dir[g] :
        x.msg = y.msg => f = g

Bits ==
    \A f \in Folders : \A x \in dir[f] :
        x.info.name \in Users => x.info.read \in {0, 1}

(* A file holds the text of the request that made it, or none if that child   *)
(* has not written it yet or was killed before.                               *)
Told ==
    \A f \in Folders : \A x \in dir[f] :
        x.text = IF x.msg \in sent THEN x.msg ELSE 0

Kept == sent \subseteq Stored \cup removed

(* Where the numbers of requests are found.                                   *)
Numbers == sent \cup Stored \cup {a.msg : a \in answers}
                \cup {a.reply : a \in answers}

EverSent ==
    /\ served <= MaxRequests
    /\ removed \subseteq sent
    /\ \A n \in Numbers : 1 <= n /\ n <= served
    /\ \A c \in Children : Unwritten(job[c]) => job[c].num \notin Numbers
    /\ \A c \in Children : job[c].pc = "write" => job[c].num \notin sent
    /\ \A c \in Children : job[c].pc # "idle" => 1 <= job[c].num

(* The identifier of an answered message is not given again while a reply to  *)
(* it is in the folder, because that of the reply is higher.                  *)
Resolved ==
    \A a \in answers : \A r \in dir[a.folder] :
        r.msg = a.reply =>
            /\ r.info.isReply = a.id
            /\ a.id < r.info.id
            /\ \A x \in dir[a.folder] : x.info.id = a.id => x.msg = a.msg

AnswersTo(m) == {a \in answers : a.msg = m}

(* From opening the reply until renaming the answered message, the child owes *)
(* that message a count.                                                      *)
Owed(j, m) == IF Answering(j) /\ j.sel.msg = m THEN 1 ELSE 0

Counts(j) ==
    stops = 0 =>
        \A f \in Folders : \A x \in dir[f] :
            x.info.nReplys + Owed(j, x.msg) = Cardinality(AnswersTo(x.msg))

Base == IdInv /\ NamedInv /\ CountInv

Data == OneFolder /\ Bits /\ EverSent /\ Told /\ Kept /\ Resolved

OneInv(k) == Base /\ Data /\ JobInv(job[k]) /\ Counts(job[k])

------------------------------------------------------------------------------
(* How a step changes the files.  With one child, a file never takes the name *)
(* of another: each step makes one, changes one, deletes one, or none.        *)

Made(j) ==
    /\ j.folder \in Folders
    /\ dir' = [dir EXCEPT ![j.folder] = @ \cup {NewFile(j, j.num)}]
    /\ UNCHANGED <<sent, removed>>
    /\ answers' = IF j.req.command = "enviar" THEN answers
                  ELSE answers \cup
                         {[reply |-> j.num, folder |-> j.folder,
                           id |-> j.sel.info.id, msg |-> j.sel.msg]}

Swapped(g, w, z) ==
    /\ g \in Folders
    /\ w \in dir[g]
    /\ z.msg = w.msg
    /\ SameHeader(w.info, z.info)
    /\ dir' = [dir EXCEPT ![g] = (@ \ {w}) \cup {z}]
    /\ UNCHANGED <<removed, answers>>

(* The text stays, or is the one that is now sent.                            *)
SameText(w, z) == z.text = w.text /\ sent' = sent
NewText(w, z) == z.text = w.msg /\ sent' = sent \cup {w.msg}

Deleted(g, w) ==
    /\ g \in Folders
    /\ w \in dir[g]
    /\ dir' = [dir EXCEPT ![g] = @ \ {w}]
    /\ removed' = removed \cup ({w.text} \ {0})
    /\ UNCHANGED <<sent, answers>>

(* The selected file is one, and the one that was seen.                       *)
LEMMA SelectedOne ==
    ASSUME Base, NEW c \in Children, Found(job[c]), Holding(job[c])
    PROVE  \E w : /\ Selected(job[c]) = {w}
                  /\ w \in dir[job[c].folder] /\ w \in File
                  /\ w.info = job[c].sel.info /\ w.msg = job[c].sel.msg
                  /\ job[c].folder \in Folders
                  /\ job[c].sel \in Selection
                  /\ job[c].folder = w.info.name
  <1> DEFINE j == job[c]
  <1>1. TypeOK /\ j \in JobStates /\ GoodJob(j) /\ UniqueIds /\ NamedByFolder
    BY DEF Base, IdInv, TypeInv, TypeOK, NamedInv
  <1>2. PICK w \in Selected(j) : w.msg = j.sel.msg
    BY DEF Found
  <1>3. /\ j.folder \in Folders /\ w \in dir[j.folder] /\ w \in File
        /\ w.info = j.sel.info
    BY <1>1, SelectedType
  <1>4. \A x \in Selected(j) : x \in dir[j.folder] /\ x.info = w.info
    BY <1>1, <1>3, SelectedType
  <1>5. Selected(j) = {w}
    BY <1>1, <1>3, <1>4 DEF UniqueIds
  <1>6. j.sel \in Selection
    BY <1>1 DEF GoodJob, Holding
  <1>7. j.folder = w.info.name
    BY <1>1, <1>3 DEF NamedByFolder
  <1>8. QED
    BY <1>2, <1>3, <1>5, <1>6, <1>7

(* enviar and responder make a file under an identifier that no file has.     *)
LEMMA CreateMakes ==
    ASSUME Base, NEW c \in Children, Create(c), job[c].folder \in exists
    PROVE  /\ Made(job[c])
           /\ Become(c, [job[c] EXCEPT !.pc = "write", !.fd = job[c].num])
           /\ \A x \in dir[job[c].folder] : x.info.id < job[c].id
  <1>0. PICK j : j = job[c]
    OBVIOUS
  <1>1. TypeOK /\ j \in JobStates /\ FreshId /\ j.pc = "create"
    BY <1>0 DEF Base, IdInv, TypeInv, TypeOK, Create
  <1>2. j.folder \in Folders /\ j.id \in Nat /\ j.folder \in exists
    BY <1>0, <1>1 DEF TypeOK, JobStates
  <1>3. \A x \in dir[j.folder] : x.info.id < j.id
    BY <1>0, <1>1 DEF FreshId
  <1>4. \A x \in dir[j.folder] : x.info.id \in Nat
    BY <1>1, <1>2 DEF TypeOK, File, FileInfo
  <1>5. PICK n : n = NewFile(j, j.num)
    OBVIOUS
  <1>6. n.info.id = j.id /\ NewInfo(j).id = j.id
    BY <1>5 DEF NewFile, NewInfo
  <1>7. Opened(j) = {j.num}
    <2>1. \A x \in dir[j.folder] : x.info # NewInfo(j)
      BY <1>2, <1>3, <1>4, <1>6
    <2>2. {x \in dir[j.folder] : x.info = NewInfo(j)} = {}
      BY <2>1
    <2>3. QED
      BY <2>2 DEF Opened
  <1>8. Put(dir[j.folder], n) = dir[j.folder] \cup {n}
    BY <1>2, <1>3, <1>4, <1>6 DEF Put
  <1>9. PICK m \in Opened(j) :
          /\ dir' = [dir EXCEPT ![j.folder] = Put(@, NewFile(j, m))]
          /\ Become(c, [j EXCEPT !.pc = "write", !.fd = m])
    BY <1>0 DEF Create
  <1>10. m = j.num
    BY <1>7
  <1>11. dir' = [dir EXCEPT ![j.folder] = dir[j.folder] \cup {n}]
    BY <1>5, <1>8, <1>9, <1>10
  <1>12. Made(j)
    BY <1>0, <1>2, <1>5, <1>11 DEF Create, Made
  <1>13. QED
    BY <1>0, <1>3, <1>9, <1>10, <1>12

(* Retelling a text under a name with the same identifier hits no other file. *)
LEMMA RetoldSwaps ==
    ASSUME Base, NEW g, NEW w, NEW z, Retold(g, w, z),
           SameHeader(w.info, z.info), UNCHANGED <<removed, answers>>
    PROVE  Swapped(g, w, z)
  <1>1. UniqueIds /\ g \in Folders /\ w \in dir[g]
    BY DEF Base, IdInv, Retold
  <1>2. \A y \in dir[g] \ {w} : y.info # z.info
    BY <1>1 DEF UniqueIds, SameHeader
  <1>3. Put(dir[g] \ {w}, z) = (dir[g] \ {w}) \cup {z}
    BY <1>2 DEF Put
  <1>4. dir' = [dir EXCEPT ![g] = (dir[g] \ {w}) \cup {z}]
    BY <1>3 DEF Retold
  <1>5. QED
    BY <1>4 DEF Retold, Swapped

(* The text goes into the file that was opened.                               *)
LEMMA WriteSwaps ==
    ASSUME Base, NEW c \in Children, Opening(job[c]), Write(c)
    PROVE  \E w, z : /\ Swapped(job[c].folder, w, z)
                     /\ w.msg = job[c].num /\ w \in File
                     /\ w.base = 0 /\ w.trailer = <<>>
                     /\ z = Filled(w, job[c].num)
                     /\ z.info = w.info /\ w.info = NewInfo(job[c])
                     /\ NewText(w, z)
  <1>0. PICK j : j = job[c]
    OBVIOUS
  <1>1. /\ TypeInv /\ OneFileEach /\ j.pc = "write" /\ j.fd = j.num
        /\ UNCHANGED <<removed, answers>> /\ sent' = sent \cup {j.num}
        /\ j.folder \in Folders
    BY <1>0 DEF Base, IdInv, CountInv, StoreInv, TypeInv, GoodJob, Write, Opening
  <1>2. PICK x \in dir[j.folder] :
          x.msg = j.num /\ x.info = NewInfo(j) /\ x.base = 0 /\ x.trailer = <<>>
    BY <1>0, <1>1 DEF Opening
  <1>3. PICK w, z :
          /\ w \in dir[j.folder]
          /\ Retold(j.folder, w, z) /\ w \in File /\ w.msg = j.fd
          /\ z = Filled(w, j.num) /\ z.info = w.info
    BY <1>0, <1>1, <1>2, WriteShape
  <1>4. w = x
    BY <1>1, <1>2, <1>3 DEF OneFileEach, OneFile
  <1>5. SameHeader(w.info, z.info)
    BY <1>3 DEF SameHeader
  <1>6. Swapped(j.folder, w, z)
    BY <1>1, <1>3, <1>5, RetoldSwaps
  <1>7. z.text = j.num
    BY <1>3, FilledKeeps
  <1>8. NewText(w, z)
    BY <1>1, <1>3, <1>7 DEF NewText
  <1>9. QED
    BY <1>0, <1>1, <1>2, <1>3, <1>4, <1>6, <1>8

(* ler's entry after the text of a group's message.                           *)
LEMMA MarkSwaps ==
    ASSUME Base, NEW c \in Children, Found(job[c]), Mark(c)
    PROVE  /\ UNCHANGED history
           /\ \/ UNCHANGED dir
              \/ \E w, z : /\ Selected(job[c]) = {w}
                           /\ w.msg = job[c].sel.msg
                           /\ Swapped(job[c].folder, w, z)
                           /\ z.info = w.info
                           /\ SameText(w, z)
  <1>1. TypeInv /\ TypeOK /\ Holding(job[c]) /\ UNCHANGED history
    BY DEF Base, IdInv, TypeInv, Mark, Holding
  <1>2. ASSUME NEW w \in Selected(job[c]), NEW z,
               Retold(job[c].folder, w, z), z.info = w.info, z.text = w.text
        PROVE  /\ Selected(job[c]) = {w}
               /\ w.msg = job[c].sel.msg
               /\ Swapped(job[c].folder, w, z)
               /\ SameText(w, z)
    <2>1. Selected(job[c]) = {w} /\ w.msg = job[c].sel.msg
      BY <1>1, SelectedOne
    <2>2. SameHeader(w.info, z.info)
      BY <1>2 DEF SameHeader
    <2>3. QED
      BY <1>1, <1>2, <2>1, <2>2, RetoldSwaps DEF history, SameText
  <1>3. QED
    BY <1>1, <1>2, MarkShape

(* The rename finds the file: only ler may leave it out, for a message that   *)
(* was read before.                                                           *)
LEMMA RenameSwaps ==
    ASSUME Base, NEW c \in Children, Found(job[c]), Rename(c)
    PROVE  /\ UNCHANGED history
           /\ \/ /\ job[c].req.command = "ler" /\ job[c].sel.read # 0
                 /\ UNCHANGED dir
              \/ \E w, z : /\ Selected(job[c]) = {w}
                           /\ w.msg = job[c].sel.msg
                           /\ Swapped(job[c].folder, w, z)
                           /\ z.info = Renamed(job[c])
                           /\ SameText(w, z)
                           /\ job[c].req.command = "ler" => job[c].sel.read = 0
  <1> DEFINE j == job[c]
  <1>1. TypeInv /\ TypeOK /\ Holding(j) /\ UNCHANGED history /\ j \in JobStates
    BY DEF Base, IdInv, TypeInv, TypeOK, Rename, Holding
  <1>2. PICK w : /\ Selected(j) = {w} /\ w.msg = j.sel.msg
                 /\ w \in dir[j.folder] /\ w \in File /\ j.folder \in Folders
                 /\ w.info = j.sel.info /\ j.sel \in Selection
    BY <1>1, SelectedOne
  <1>3. CASE j.req.command = "ler" /\ j.sel.read # 0
    BY <1>1, <1>3 DEF Rename
  <1>4. CASE ~ (j.req.command = "ler" /\ j.sel.read # 0)
    <2> DEFINE z == [w EXCEPT !.info = Renamed(j)]
    <2>1. z.info = Renamed(j) /\ z.msg = w.msg /\ z.text = w.text
      BY <1>2 DEF File
    <2>2. dir' = [dir EXCEPT ![j.folder] = Put(@ \ {w}, z)]
      BY <1>2, <1>4 DEF Rename
    <2> HIDE DEF z
    <2>3. Retold(j.folder, w, z)
      BY <1>2, <2>1, <2>2 DEF Retold
    <2>4. SameHeader(w.info, z.info)
      <3>1. w.info \in FileInfo /\ z.info = Renamed(j) /\ w.info = j.sel.info
        BY <1>2, <2>1 DEF File
      <3>2. QED
        BY <3>1 DEF SameHeader, Renamed, FileInfo
    <2>5. Swapped(j.folder, w, z) /\ SameText(w, z)
      BY <1>1, <2>1, <2>3, <2>4, RetoldSwaps DEF history, SameText
    <2>6. QED
      BY <1>1, <1>2, <1>4, <2>1, <2>5
  <1>5. QED
    BY <1>3, <1>4

(* remover deletes the file it selected.                                      *)
LEMMA UnlinkDeletes ==
    ASSUME Base, NEW c \in Children, Found(job[c]), Unlink(c)
    PROVE  \E w : /\ Deleted(job[c].folder, w)
                  /\ w.msg = job[c].sel.msg
  <1> DEFINE j == job[c]
  <1>1. Holding(j)
    BY DEF Unlink, Holding
  <1>2. PICK w : /\ Selected(j) = {w} /\ w.msg = j.sel.msg
                 /\ w \in dir[j.folder] /\ j.folder \in Folders
    BY <1>1, SelectedOne
  <1>3. /\ dir' = [dir EXCEPT ![j.folder] = @ \ {w}]
        /\ removed' = removed \cup ({x.text : x \in {w}} \ {0})
        /\ UNCHANGED <<sent, answers>>
    BY <1>2 DEF Unlink
  <1>4. {x.text : x \in {w}} = {w.text}
    OBVIOUS
  <1>5. Deleted(j.folder, w)
    BY <1>2, <1>3, <1>4 DEF Deleted
  <1>6. QED
    BY <1>2, <1>5

------------------------------------------------------------------------------
(* Which files there are after such a step.                                   *)

(* One file more.                                                             *)
LEMMA MadeAt ==
    ASSUME TypeOK, NEW j, Made(j)
    PROVE  /\ \A f \in Folders :
                dir'[f] = IF f = j.folder THEN dir[f] \cup {NewFile(j, j.num)}
                          ELSE dir[f]
           /\ NewFile(j, j.num).msg = j.num
           /\ Stored' = Stored \cup {j.num}
  <1>0. PICK n : n = NewFile(j, j.num)
    OBVIOUS
  <1>1. \A f \in Folders :
          dir'[f] = IF f = j.folder THEN dir[f] \cup {n} ELSE dir[f]
    BY <1>0 DEF TypeOK, Made
  <1>2. n.msg = j.num
    BY <1>0 DEF NewFile
  <1>3. ASSUME NEW m \in Stored' PROVE m \in Stored \cup {j.num}
    <2>1. PICK f \in Folders : \E x \in dir'[f] : x.msg = m
      BY DEF Stored, Files
    <2>2. PICK x \in dir'[f] : x.msg = m
      BY <2>1
    <2>3. x \in dir[f] \/ x = n
      BY <1>1, <2>2
    <2>4. QED
      BY <1>2, <2>2, <2>3 DEF Stored, Files
  <1>4. ASSUME NEW m \in Stored PROVE m \in Stored'
    <2>1. PICK f \in Folders : \E x \in dir[f] : x.msg = m
      BY DEF Stored, Files
    <2>2. PICK x \in dir[f] : x.msg = m
      BY <2>1
    <2>3. x \in dir'[f]
      BY <1>1, <2>2
    <2>4. QED
      BY <2>2, <2>3 DEF Stored, Files
  <1>5. j.num \in Stored'
    <2>1. j.folder \in Folders
      BY DEF Made
    <2>2. n \in dir'[j.folder]
      BY <1>1, <2>1
    <2>3. QED
      BY <1>2, <2>1, <2>2 DEF Stored, Files
  <1>6. QED
    BY <1>0, <1>1, <1>2, <1>3, <1>4, <1>5

(* The same ones.                                                             *)
LEMMA SwappedAt ==
    ASSUME TypeOK, NEW g, NEW w, NEW z, Swapped(g, w, z)
    PROVE  /\ \A f \in Folders :
                dir'[f] = IF f = g THEN (dir[f] \ {w}) \cup {z} ELSE dir[f]
           /\ Stored' = Stored
  <1>1. \A f \in Folders :
          dir'[f] = IF f = g THEN (dir[f] \ {w}) \cup {z} ELSE dir[f]
    BY DEF TypeOK, Swapped
  <1>2. g \in Folders /\ w \in dir[g] /\ z.msg = w.msg /\ z \in dir'[g]
    BY <1>1 DEF Swapped
  <1>3. ASSUME NEW m \in Stored' PROVE m \in Stored
    <2>1. PICK f \in Folders : \E x \in dir'[f] : x.msg = m
      BY DEF Stored, Files
    <2>2. PICK x \in dir'[f] : x.msg = m
      BY <2>1
    <2>3. x \in dir[f] \/ x = z
      BY <1>1, <2>2
    <2>4. QED
      BY <1>2, <2>2, <2>3 DEF Stored, Files
  <1>4. ASSUME NEW m \in Stored PROVE m \in Stored'
    <2>1. PICK f \in Folders : \E x \in dir[f] : x.msg = m
      BY DEF Stored, Files
    <2>2. PICK x \in dir[f] : x.msg = m
      BY <2>1
    <2>3. x \in dir'[f] \/ (f = g /\ x = w)
      BY <1>1, <2>2
    <2>4. QED
      BY <1>2, <2>2, <2>3 DEF Stored, Files
  <1>5. QED
    BY <1>1, <1>3, <1>4

(* All but the one that is deleted, of which there was no second file.        *)
LEMMA DeletedAt ==
    ASSUME TypeOK, OneFileEach, OneFolder, NEW g, NEW w, Deleted(g, w)
    PROVE  /\ \A f \in Folders :
                dir'[f] = IF f = g THEN dir[f] \ {w} ELSE dir[f]
           /\ Stored' = Stored \ {w.msg}
  <1>1. \A f \in Folders : dir'[f] = IF f = g THEN dir[f] \ {w} ELSE dir[f]
    BY DEF TypeOK, Deleted
  <1>2. g \in Folders /\ w \in dir[g]
    BY DEF Deleted
  <1>3. ASSUME NEW m \in Stored' PROVE m \in Stored \ {w.msg}
    <2>1. PICK f \in Folders : \E x \in dir'[f] : x.msg = m
      BY DEF Stored, Files
    <2>2. PICK x \in dir'[f] : x.msg = m
      BY <2>1
    <2>3. x \in dir[f] /\ ~ (f = g /\ x = w)
      BY <1>1, <2>2
    <2>4. x.msg # w.msg
      BY <1>2, <2>3 DEF OneFolder, OneFileEach, OneFile
    <2>5. QED
      BY <2>2, <2>3, <2>4 DEF Stored, Files
  <1>4. ASSUME NEW m \in Stored \ {w.msg} PROVE m \in Stored'
    <2>1. PICK f \in Folders : \E x \in dir[f] : x.msg = m
      BY DEF Stored, Files
    <2>2. PICK x \in dir[f] : x.msg = m
      BY <2>1
    <2>3. x \in dir'[f]
      BY <1>1, <2>2
    <2>4. QED
      BY <2>2, <2>3 DEF Stored, Files
  <1>5. QED
    BY <1>1, <1>3, <1>4

------------------------------------------------------------------------------
(* What the files say, after each kind of step.                               *)

DataButNumbers == OneFolder /\ Bits /\ Told /\ Kept /\ Resolved

(* A message more, and for responder an answer more: its identifier is above  *)
(* all others, so no isReply that is there already leads to it.               *)
LEMMA MadeData ==
    ASSUME Base, Data, NEW c \in Children, Found(job[c]),
           Create(c), job[c].folder \in exists
    PROVE  DataButNumbers'
  <1> DEFINE j == job[c]
             n == NewFile(j, j.num)
  <1>1. Made(j) /\ \A x \in dir[j.folder] : x.info.id < j.id
    BY CreateMakes
  <1>2. /\ TypeOK /\ j \in JobStates /\ GoodJob(j) /\ j.pc = "create"
        /\ j.folder \in Folders /\ OneFileEach /\ UniqueIds
    BY <1>1
    DEF Base, IdInv, CountInv, StoreInv, TypeInv, TypeOK, Create, Made
  <1>3. /\ \A f \in Folders : dir'[f] = IF f = j.folder THEN dir[f] \cup {n} ELSE dir[f]
        /\ n.msg = j.num
        /\ Stored' = Stored \cup {j.num}
    BY <1>1, <1>2, MadeAt
  <1>4. j.num \notin Numbers
    BY <1>2 DEF Data, EverSent, Unwritten
  <1>5. /\ j.num \notin Stored /\ j.num \notin sent
        /\ \A a \in answers : a.reply # j.num /\ a.msg # j.num
    BY <1>4 DEF Numbers
  <1>6. /\ n.info.read = 0 /\ n.text = 0 /\ n.info.id = j.id
        /\ n.info.isReply = IF j.req.command = "enviar" THEN 0 ELSE j.sel.info.id
    BY DEF NewFile, NewInfo
  <1> HIDE DEF n
  <1>7. \A f \in Folders : \A x \in dir[f] : x.msg # j.num
    BY <1>5 DEF Stored, Files
  <1>8. OneFolder'
    <2>1. ASSUME NEW f \in Folders, NEW e \in Folders,
                 NEW x \in dir'[f], NEW y \in dir'[e], x.msg = y.msg
          PROVE  f = e
      <3>1. (f = j.folder /\ x = n) \/ x \in dir[f]
        BY <1>3
      <3>2. (e = j.folder /\ y = n) \/ y \in dir[e]
        BY <1>3
      <3>3. x \in dir[f] /\ y \in dir[e] => f = e
        BY <2>1 DEF OneFolder, Data
      <3>4. QED
        BY <1>3, <1>7, <2>1, <3>1, <3>2, <3>3
    <2>2. QED
      BY <2>1 DEF OneFolder
  <1>9. Bits'
    <2>1. \A f \in Folders : \A x \in dir'[f] : x \in dir[f] \/ x = n
      BY <1>3
    <2>2. Bits
      BY DEF Data
    <2>3. QED
      BY <1>6, <2>1, <2>2 DEF Bits
  <1>10. Kept'
    BY <1>1, <1>3 DEF Kept, Data, Made
  <1>11. Told'
    <2>1. sent' = sent
      BY <1>1 DEF Made
    <2>2. \A f \in Folders : \A x \in dir'[f] : x \in dir[f] \/ x = n
      BY <1>3
    <2>3. Told
      BY DEF Data
    <2>4. QED
      BY <1>3, <1>5, <1>6, <2>1, <2>2, <2>3 DEF Told
  <1>12. ASSUME NEW a \in answers', NEW r \in dir'[a.folder], r.msg = a.reply
         PROVE  /\ r.info.isReply = a.id
                /\ a.id < r.info.id
                /\ \A x \in dir'[a.folder] : x.info.id = a.id => x.msg = a.msg
    <2>1. CASE a \in answers
      <3>1. a.folder \in Folders /\ a.id \in Nat
        BY <1>2, <2>1 DEF TypeOK
      <3>2. r \in dir[a.folder]
        BY <1>3, <1>5, <1>12, <2>1, <3>1
      <3>3. /\ r.info.isReply = a.id
            /\ a.id < r.info.id
            /\ \A x \in dir[a.folder] : x.info.id = a.id => x.msg = a.msg
        BY <1>12, <2>1, <3>2 DEF Data, Resolved
      <3>4. a.folder = j.folder => n.info.id # a.id
        <4>1. r.info.id \in Nat /\ j.id \in Nat
          BY <1>2, <3>1, <3>2 DEF TypeOK, File, FileInfo, JobStates
        <4>2. a.folder = j.folder => r.info.id < j.id
          BY <1>1, <3>2
        <4>3. QED
          BY <1>6, <3>1, <3>3, <4>1, <4>2
      <3>5. QED
        BY <1>3, <3>1, <3>3, <3>4
    <2>2. CASE a \notin answers
      <3>1. /\ j.req.command # "enviar"
            /\ a.reply = j.num /\ a.folder = j.folder
            /\ a.id = j.sel.info.id /\ a.msg = j.sel.msg
        BY <1>1, <2>2 DEF Made
      <3>2. r = n
        BY <1>2, <1>3, <1>7, <1>12, <3>1
      <3>3. Holding(j)
        BY <1>2, <3>1 DEF Holding
      <3>4. PICK w : /\ w \in dir[j.folder] /\ w \in File
                     /\ w.info = j.sel.info /\ w.msg = j.sel.msg
        BY <3>3, SelectedOne
      <3>5. w.info.id < j.id /\ w.info.id \in Nat /\ j.id \in Nat
        BY <1>1, <1>2, <3>4 DEF File, FileInfo, JobStates
      <3>6. \A x \in dir[j.folder] : x.info.id = a.id => x.msg = a.msg
        BY <1>2, <3>1, <3>4 DEF UniqueIds
      <3>7. n.info.id # a.id
        BY <1>6, <3>1, <3>4, <3>5
      <3>8. \A x \in dir'[a.folder] : x.info.id = a.id => x.msg = a.msg
        BY <1>2, <1>3, <3>1, <3>6, <3>7
      <3>9. QED
        BY <1>6, <3>1, <3>2, <3>4, <3>5, <3>8
    <2>3. QED
      BY <2>1, <2>2
  <1>13. Resolved'
    BY <1>12 DEF Resolved
  <1>14. QED
    BY <1>8, <1>9, <1>10, <1>11, <1>13 DEF DataButNumbers

(* A file changed: its bit if it has one is a bit.                            *)
LEMMA SwappedData ==
    ASSUME Base, Data, NEW g, NEW w, NEW z, Swapped(g, w, z),
           SameText(w, z) \/ NewText(w, z),
           w.info.name \in Users => z.info.read \in {0, 1}
    PROVE  DataButNumbers'
  <1>1. TypeOK /\ OneFileEach /\ g \in Folders /\ w \in dir[g] /\ z.msg = w.msg
               /\ SameHeader(w.info, z.info) /\ UNCHANGED <<removed, answers>>
    BY DEF Base, IdInv, TypeInv, CountInv, StoreInv, Swapped
  <1>2. /\ \A f \in Folders :
             dir'[f] = IF f = g THEN (dir[f] \ {w}) \cup {z} ELSE dir[f]
        /\ Stored' = Stored
    BY <1>1, SwappedAt
  <1>3. ASSUME NEW f \in Folders, NEW x \in dir'[f]
        PROVE  \E y \in dir[f] : y.msg = x.msg /\ SameHeader(y.info, x.info)
    <2>1. CASE x \in dir[f]
      BY <2>1 DEF SameHeader
    <2>2. CASE x = z /\ f = g
      BY <1>1, <2>2
    <2>3. QED
      BY <1>2, <2>1, <2>2
  <1>4. OneFolder'
    BY <1>3 DEF Data, OneFolder
  <1>5. Bits'
    BY <1>1, <1>2 DEF Data, Bits, SameHeader
  <1>6. Kept'
    <2>1. w.msg \in Stored
      BY <1>1 DEF Stored, Files
    <2>2. QED
      BY <1>1, <1>2, <2>1 DEF Data, Kept, SameText, NewText
  <1>9. ASSUME NEW f \in Folders, NEW x \in dir'[f]
        PROVE  x.text = IF x.msg \in sent' THEN x.msg ELSE 0
    <2>1. w.text = IF w.msg \in sent THEN w.msg ELSE 0
      BY <1>1 DEF Data, Told
    <2>2. CASE x = z
      BY <1>1, <2>1, <2>2 DEF SameText, NewText
    <2>3. CASE x \in dir[f] /\ ~ (f = g /\ x = w)
      <3>1. x.msg # w.msg
        BY <1>1, <2>3 DEF Data, OneFolder, OneFileEach, OneFile
      <3>2. x.text = IF x.msg \in sent THEN x.msg ELSE 0
        BY <2>3 DEF Data, Told
      <3>3. x.msg \in sent' <=> x.msg \in sent
        BY <3>1 DEF SameText, NewText
      <3>4. QED
        BY <3>2, <3>3
    <2>4. QED
      BY <1>2, <2>2, <2>3
  <1>7. Resolved'
    <2>1. ASSUME NEW a \in answers, NEW r \in dir'[a.folder], r.msg = a.reply
          PROVE  /\ r.info.isReply = a.id
                 /\ a.id < r.info.id
                 /\ \A x \in dir'[a.folder] : x.info.id = a.id => x.msg = a.msg
      <3>1. a.folder \in Folders
        BY <1>1 DEF TypeOK
      <3>2. PICK s \in dir[a.folder] : s.msg = r.msg /\ SameHeader(s.info, r.info)
        BY <1>3, <3>1
      <3>3. /\ s.info.isReply = a.id
            /\ a.id < s.info.id
            /\ \A x \in dir[a.folder] : x.info.id = a.id => x.msg = a.msg
        BY <2>1, <3>2 DEF Data, Resolved
      <3>4. QED
        BY <1>3, <3>1, <3>2, <3>3 DEF SameHeader
    <2>2. answers' = answers
      BY <1>1
    <2>3. QED
      BY <2>1, <2>2 DEF Resolved
  <1>8. QED
    BY <1>4, <1>5, <1>6, <1>7, <1>9 DEF DataButNumbers, Told

(* A message less, which is noted as removed.                                 *)
LEMMA DeletedData ==
    ASSUME Base, Data, NEW g, NEW w, Deleted(g, w)
    PROVE  DataButNumbers'
  <1>1. TypeOK /\ OneFileEach /\ OneFolder
    BY DEF Base, IdInv, TypeInv, CountInv, StoreInv, Data
  <1>2. /\ \A f \in Folders : dir'[f] = IF f = g THEN dir[f] \ {w} ELSE dir[f]
        /\ Stored' = Stored \ {w.msg}
    BY <1>1, DeletedAt
  <1>3. \A f \in Folders : dir'[f] \subseteq dir[f]
    BY <1>2
  <1>4. OneFolder' /\ Bits'
    BY <1>3 DEF Data, OneFolder, Bits
  <1>5. Told'
    BY <1>3 DEF Data, Told, Deleted
  <1>9. Kept'
    <2>1. ASSUME NEW n \in sent PROVE n \in Stored' \cup removed'
      <3>1. CASE n = w.msg
        <4>1. w.text = n
          BY <3>1 DEF Data, Told, Deleted
        <4>2. n # 0
          BY DEF Data, EverSent, Numbers
        <4>3. QED
          BY <4>1, <4>2 DEF Deleted
      <3>2. CASE n # w.msg
        BY <1>2, <3>2 DEF Data, Kept, Deleted
      <3>3. QED
        BY <3>1, <3>2
    <2>2. QED
      BY <2>1 DEF Kept, Deleted
  <1>6. \A a \in answers : a.folder \in Folders
    BY <1>1 DEF TypeOK
  <1>7. Resolved'
    <2>1. answers' = answers
      BY DEF Deleted
    <2>2. QED
      BY <1>3, <1>6, <2>1 DEF Data, Resolved
  <1>8. QED
    BY <1>4, <1>5, <1>7, <1>9 DEF DataButNumbers

(* No file changed.                                                           *)
LEMMA StillData ==
    ASSUME Data, UNCHANGED <<dir, history>>
    PROVE  DataButNumbers'
  BY DEF Data, DataButNumbers, OneFolder, Bits, Told, Kept, Resolved, Stored, Files,
         history

------------------------------------------------------------------------------
(* What the child knows, step by step.                                        *)

(* A child goes on with its request, or is done with it.                      *)
Moves(j, i) ==
    \/ i = IdleJob
    \/ /\ j.pc # "idle"
       /\ i.num = j.num
       /\ Unwritten(i) => Unwritten(j)
       /\ i.pc = "write" => j.pc = "create"

(* A child that is done knows nothing.                                        *)
LEMMA IdleKnows == JobInv(IdleJob) /\ JobInv(IdleJob)'
  BY DEF JobInv, Found, Holding, Looks, Opening, Flags, Marked, Dropped, IdleJob

(* A request begins with the folders its user may read.                       *)
LEMMA BeginKnows ==
    ASSUME TypeInv, NEW k \in Children, NEW r \in ClientRequests, Begin(k, r)
    PROVE  /\ JobInv(job[k])'
           /\ job'[k].num = served + 1
  <1> DEFINE i == [IdleJob EXCEPT
                     !.pc = IF r.command = "enviar" THEN "resolve" ELSE "count",
                     !.req = r,
                     !.num = served + 1,
                     !.folders = UserFolders(r.user)]
  <1>1. job'[k] = i
    BY OneJob DEF Begin
  <1>2. /\ i.pc \in {"resolve", "count"} /\ i.req = r /\ i.sel = None
        /\ i.folders = UserFolders(r.user) /\ i.num = served + 1
        /\ i.left = {} /\ i.names = {} /\ i.list = {}
    BY DEF IdleJob
  <1> HIDE DEF i
  <1>3. i.folders \subseteq {i.req.user} \cup Groups
    BY <1>2 DEF UserFolders
  <1>4. QED
    BY <1>1, <1>2, <1>3 DEF JobInv, Found, Holding, Looks, Opening, Flags, Marked, Dropped

(* A child that only goes on keeps what it has found.                         *)
LEMMA GoesOn ==
    ASSUME NEW j, NEW i, Found(j), UNCHANGED <<dir, exists>>,
           Holding(i) => Holding(j),
           i.req = j.req, i.sel = j.sel, i.folder = j.folder
    PROVE  Found(i)'
  <1> SUFFICES ASSUME Holding(i) PROVE Found(i)'
    BY DEF Found
  <1>1. Selected(i)' = Selected(j)
    BY DEF Selected, Named
  <1>2. QED
    BY <1>1 DEF Found

(* The steps of enviar and responder before they write, and the count.        *)
LEMMA LookKnows ==
    ASSUME TypeInv, NEW k \in Children, JobInv(job[k]),
           Resolve(k) \/ Scan(k) \/ Count(k)
    PROVE  JobInv(job[k])' /\ Moves(job[k], job'[k])
  <1> DEFINE j == job[k]
  <1>1. /\ j \in JobStates /\ GoodJob(j) /\ UNCHANGED <<dir, exists>>
        /\ Found(j) /\ Looks(j)
    BY DEF TypeInv, TypeOK, JobInv, Resolve, Scan, Count, store
  <1>2. ASSUME NEW i, Become(k, i) PROVE job'[k] = i
    BY <1>2, OneJob
  <1>3. CASE Exit(k)
    BY <1>2, <1>3, IdleKnows DEF Exit, Moves
  <1>4. CASE Resolve(k)
    <2>1. ASSUME NEW f, Become(k, [j EXCEPT !.pc = "scan", !.folder = f])
          PROVE  JobInv(job[k])' /\ Moves(j, job'[k])
      <3>1. PICK i : i = [j EXCEPT !.pc = "scan", !.folder = f]
        OBVIOUS
      <3>2. job'[k] = i
        BY <1>2, <2>1, <3>1
      <3>3. i.pc = "scan" /\ i.req = j.req /\ i.num = j.num
        BY <1>1, <3>1 DEF JobStates
      <3>4. j.pc = "resolve" /\ j.req.command = "enviar"
        BY <1>1, <1>4 DEF Resolve, GoodJob
      <3>5. Moves(j, i)
        BY <3>3, <3>4 DEF Moves, Unwritten
      <3>6. QED
        BY <3>2, <3>3, <3>4, <3>5
        DEF JobInv, Found, Holding, Looks, Opening, Flags, Marked, Dropped
    <2>2. QED
      BY <1>3, <1>4, <2>1 DEF Resolve
  <1>5. CASE Scan(k)
    <2>1. PICK h : Become(k, [j EXCEPT !.pc = "create", !.id = h + 1, !.time = now])
      BY <1>5 DEF Scan
    <2>2. PICK i : i = [j EXCEPT !.pc = "create", !.id = h + 1, !.time = now]
      OBVIOUS
    <2>3. job'[k] = i
      BY <1>2, <2>1, <2>2
    <2>4. /\ i.pc = "create" /\ i.req = j.req /\ i.sel = j.sel
          /\ i.folder = j.folder /\ i.num = j.num /\ j.pc = "scan"
      BY <1>1, <1>5, <2>2 DEF JobStates, Scan
    <2>5. Found(i)'
      BY <1>1, <2>4, GoesOn DEF Holding
    <2>6. Moves(j, i)
      BY <2>4 DEF Moves, Unwritten
    <2>7. QED
      BY <2>3, <2>4, <2>5, <2>6
      DEF JobInv, Found, Selected, Named, Holding, Looks, Opening, Flags, Marked, Dropped
  <1>6. CASE Count(k)
    <2>1. PICK i : /\ i = [j EXCEPT !.pc = "sort", !.cnt = Cardinality(Listing(j.folders)),
                                    !.left = j.folders]
                   /\ Become(k, i)
      BY <1>6 DEF Count
    <2>2. job'[k] = i
      BY <1>2, <2>1
    <2>3. /\ i.pc = "sort" /\ i.req = j.req /\ i.sel = j.sel
          /\ i.folders = j.folders /\ i.num = j.num /\ j.pc = "count"
          /\ i.left = j.folders /\ i.names = j.names /\ i.list = j.list
      BY <1>1, <1>6, <2>1 DEF JobStates, Count
    <2>4. Moves(j, i)
      BY <2>3 DEF Moves, Unwritten
    <2>5. Looks(i)'
      BY <1>1, <2>3 DEF Looks, Listed
    <2>6. QED
      BY <2>2, <2>3, <2>4, <2>5
      DEF JobInv, Found, Holding, Opening, Flags, Marked, Dropped
  <1>7. QED
    BY <1>4, <1>5, <1>6

(* The names of a folder, and what checkIfRead gives in place of the read     *)
(* field: either way the files are there under their names.                   *)
LEMMA ListKnows ==
    ASSUME Base, NEW k \in Children, JobInv(job[k]), ReadDir(k) \/ CheckRead(k)
    PROVE  JobInv(job[k])' /\ Moves(job[k], job'[k])
  <1>0. PICK j : j = job[k]
    OBVIOUS
  <1>1. /\ TypeInv /\ TypeOK /\ j \in JobStates /\ GoodJob(j)
        /\ UNCHANGED <<dir, exists>> /\ j.pc = "sort" /\ Looks(j)
    BY <1>0
    DEF Base, IdInv, TypeInv, TypeOK, JobInv, ReadDir, CheckRead, store
  <1>2. ASSUME NEW i, Become(k, i), i.pc = "sort", i.num = j.num, i.req = j.req,
               i.sel = j.sel, i.folders = j.folders,
               i.left \subseteq j.left,
               \A p \in i.names \cup i.list : Listed(p, j.req.user)
        PROVE  JobInv(job[k])' /\ Moves(job[k], job'[k])
    <2>1. job'[k] = i
      BY <1>1, <1>2, OneJob
    <2>2. Looks(i)'
      BY <1>1, <1>2 DEF Looks, Listed
    <2>3. Moves(j, i)
      BY <1>1, <1>2 DEF Moves, Unwritten
    <2>4. QED
      BY <1>0, <1>2, <2>1, <2>2, <2>3
      DEF JobInv, Found, Holding, Opening, Flags, Marked, Dropped
  <1>3. \A p \in j.names \cup j.list : Listed(p, j.req.user)
    BY <1>1 DEF Looks
  <1>4. CASE ReadDir(k)
    <2> DEFINE here(f) == {p \in Entries(f) : p[2].info.name # j.req.user}
               own(f) == {p \in Entries(f) : p[2].info.name = j.req.user}
    <2>1. PICK f \in j.left :
            Become(k, [j EXCEPT !.left = @ \ {f}, !.names = here(f),
                                !.list = @ \cup own(f)])
      BY <1>0, <1>4 DEF ReadDir
    <2>2. f \in Folders /\ f \in {j.req.user} \cup Groups
      BY <1>1, <2>1 DEF JobStates, Looks
    <2>3. ASSUME NEW p \in Entries(f) PROVE Listed(p, j.req.user)
      <3>1. PICK x \in dir[f] : p = <<f, Entry(x)>> /\ f \in exists
        BY <1>1, <2>2, EntriesType
      <3>2. p[1] = f /\ p[2].info = x.info /\ p[2].msg = x.msg
        BY <3>1 DEF Entry
      <3>3. QED
        BY <2>2, <3>1, <3>2 DEF Listed
    <2>4. PICK i : i = [j EXCEPT !.left = @ \ {f}, !.names = here(f),
                                 !.list = @ \cup own(f)]
      OBVIOUS
    <2>5. /\ i.pc = j.pc /\ i.num = j.num /\ i.req = j.req /\ i.sel = j.sel
          /\ i.folders = j.folders /\ i.left = j.left \ {f}
          /\ i.names = here(f) /\ i.list = j.list \cup own(f)
      BY <1>1, <2>4 DEF JobStates
    <2>6. here(f) \subseteq Entries(f) /\ own(f) \subseteq Entries(f)
      OBVIOUS
    <2> HIDE DEF here, own
    <2>7. \A p \in i.names \cup i.list : Listed(p, j.req.user)
      BY <1>3, <2>3, <2>5, <2>6
    <2>8. QED
      BY <1>1, <1>2, <2>1, <2>4, <2>5, <2>7
  <1>5. CASE CheckRead(k)
    <2>1. PICK p \in j.names :
            Become(k, [j EXCEPT
              !.names = @ \ {p},
              !.list = @ \cup
                {<<p[1], [p[2] EXCEPT !.read =
                             CheckIfRead(p[1], p[2].info, j.req.user)]>>}])
      BY <1>0, <1>5, Zenon DEF CheckRead
    <2>2. PICK q : q = <<p[1], [p[2] EXCEPT !.read =
                                  CheckIfRead(p[1], p[2].info, j.req.user)]>>
      OBVIOUS
    <2>3. p[2] \in Selection
      BY <1>1, <2>1 DEF JobStates
    <2>4. q[1] = p[1] /\ q[2].info = p[2].info /\ q[2].msg = p[2].msg
      BY <2>2, <2>3 DEF Selection
    <2>5. Listed(q, j.req.user)
      BY <1>3, <2>1, <2>4 DEF Listed
    <2>6. PICK i : i = [j EXCEPT !.names = @ \ {p}, !.list = @ \cup {q}]
      OBVIOUS
    <2>7. /\ i.pc = j.pc /\ i.num = j.num /\ i.req = j.req /\ i.sel = j.sel
          /\ i.folders = j.folders /\ i.left = j.left
          /\ i.names = j.names \ {p} /\ i.list = j.list \cup {q}
      BY <1>1, <2>6 DEF JobStates
    <2>8. Become(k, i)
      BY <2>1, <2>2, <2>6
    <2>9. \A r \in i.names \cup i.list : Listed(r, j.req.user)
      BY <1>3, <2>5, <2>7
    <2>10. QED
      BY <1>1, <1>2, <2>7, <2>8, <2>9
  <1>6. QED
    BY <1>4, <1>5

(* The selected file is in the folder its name gives.                         *)
LEMMA SortKnows ==
    ASSUME Base, NEW k \in Children, JobInv(job[k]), Sort(k)
    PROVE  JobInv(job[k])' /\ Moves(job[k], job'[k])
  <1>0. PICK l, j : l = job[k] /\ j = [job[k] EXCEPT !.list = {}]
    OBVIOUS
  <1>1. /\ TypeInv /\ TypeOK /\ l \in JobStates /\ GoodJob(l) /\ NamedByFolder
        /\ Looks(l)
    BY <1>0 DEF Base, IdInv, NamedInv, TypeInv, TypeOK, JobInv
  <1>2. /\ j \in JobStates /\ j.pc = "sort" /\ j.num = l.num /\ j.req = l.req
        /\ l.pc = "sort" /\ UNCHANGED <<dir, exists>>
    BY <1>0, <1>1, SortShape DEF store
  <1>3. \/ Exit(k)
        \/ j.req.command # "ler" /\ Become(k, [j EXCEPT !.pc = "reply"])
        \/ /\ j.req.command # "listar"
           /\ \E p \in l.list :
                Become(k, [j EXCEPT !.pc = AfterSort(j.req.command), !.sel = p[2],
                                    !.folder = FolderOf(p[2].info, j.req.user)])
    BY <1>0, <1>1, SortShape
  <1>4. j.sel = None
    BY <1>0, <1>1, <1>2 DEF JobStates, Looks
  <1>5. ASSUME NEW i, Become(k, i) PROVE job'[k] = i
    BY <1>1, <1>5, OneJob
  <1>6. CASE Exit(k)
    BY <1>5, <1>6, IdleKnows DEF Exit, Moves
  <1>7. ASSUME Become(k, [j EXCEPT !.pc = "reply"]), j.req.command # "ler"
        PROVE  JobInv(job[k])' /\ Moves(job[k], job'[k])
    <2>1. PICK i : i = [j EXCEPT !.pc = "reply"]
      OBVIOUS
    <2>2. job'[k] = i
      BY <1>5, <1>7, <2>1
    <2>3. /\ i.pc = "reply" /\ i.req = j.req /\ i.sel = None /\ i.num = j.num
      BY <1>2, <1>4, <2>1 DEF JobStates
    <2>4. Moves(l, i)
      BY <1>1, <1>2, <2>3 DEF Moves, Unwritten
    <2>5. QED
      BY <1>0, <1>7, <2>2, <2>3, <2>4
      DEF JobInv, Found, Holding, Looks, Opening, Flags, Marked, Dropped
  <1>8. ASSUME j.req.command # "listar", NEW p \in l.list,
               Become(k, [j EXCEPT !.pc = AfterSort(j.req.command), !.sel = p[2],
                                   !.folder = FolderOf(p[2].info, j.req.user)])
        PROVE  JobInv(job[k])' /\ Moves(job[k], job'[k])
    <2>1. Listed(p, l.req.user)
      BY <1>1, <1>2, <1>8 DEF Looks
    <2>2. PICK f : f = p[1]
      OBVIOUS
    <2>3. PICK x \in dir[f] : x.info = p[2].info /\ x.msg = p[2].msg
      BY <2>1, <2>2 DEF Listed
    <2>4. /\ f \in Folders /\ f \in exists /\ x.info.name = f
          /\ f \in {j.req.user} \cup Groups
      BY <1>1, <1>2, <2>1, <2>2, <2>3 DEF TypeOK, NamedByFolder, Listed
    <2>5. PICK i : i = [j EXCEPT !.pc = AfterSort(j.req.command), !.sel = p[2],
                                 !.folder = FolderOf(p[2].info, j.req.user)]
      OBVIOUS
    <2>6. job'[k] = i
      BY <1>5, <1>8, <2>5
    <2>7. j.req.command \in {"ler", "responder", "remover"}
      BY <1>1, <1>2, <1>8 DEF GoodJob, ConcordiaRequest, Commands
    <2>8. FolderOf(p[2].info, j.req.user) = f
      BY <2>3, <2>4 DEF FolderOf
    <2>9. /\ i.pc = AfterSort(j.req.command) /\ i.sel = p[2]
          /\ i.folder = f /\ i.req = j.req /\ i.num = j.num
      BY <1>2, <2>5, <2>8 DEF JobStates
    <2>10. i.pc \in {"read", "scan", "unlink"}
      BY <2>7, <2>9 DEF AfterSort
    <2>11. Selected(i)' = {y \in dir[f] : y.info = x.info}
      BY <1>2, <2>3, <2>4, <2>9 DEF Selected, Named
    <2>12. Found(i)'
      BY <2>3, <2>4, <2>9, <2>11 DEF Found
    <2>13. Moves(l, i)
      BY <1>1, <1>2, <2>9, <2>10 DEF Moves, Unwritten
    <2>14. QED
      BY <1>0, <2>6, <2>10, <2>12, <2>13
      DEF JobInv, Found, Holding, Looks, Opening, Flags, Marked, Dropped
  <1>9. QED
    BY <1>3, <1>6, <1>7, <1>8

(* ler has opened the file.                                                   *)
LEMMA ReadKnows ==
    ASSUME Base, NEW k \in Children, JobInv(job[k]), Read(k)
    PROVE  JobInv(job[k])' /\ Moves(job[k], job'[k])
  <1> DEFINE j == job[k]
  <1>1. /\ TypeInv /\ j \in JobStates /\ UNCHANGED <<dir, exists>>
        /\ j.pc = "read" /\ Found(j)
    BY DEF Base, IdInv, TypeInv, TypeOK, JobInv, Read, store
  <1>2. ASSUME NEW i, Become(k, i) PROVE job'[k] = i
    BY <1>1, <1>2, OneJob
  <1>3. CASE Exit(k)
    BY <1>2, <1>3, IdleKnows DEF Exit, Moves
  <1>4. ASSUME j.sel.info.name = j.req.user,
               Become(k, [j EXCEPT !.pc = "rename", !.flag = 1])
        PROVE  JobInv(job[k])' /\ Moves(j, job'[k])
    <2>1. PICK i : i = [j EXCEPT !.pc = "rename", !.flag = 1]
      OBVIOUS
    <2>2. job'[k] = i
      BY <1>2, <1>4, <2>1
    <2>3. /\ i.pc = "rename" /\ i.req = j.req /\ i.sel = j.sel /\ i.flag = 1
          /\ i.folder = j.folder /\ i.num = j.num
      BY <1>1, <2>1 DEF JobStates
    <2>4. Found(i)'
      BY <1>1, <2>3, GoesOn DEF Holding
    <2>5. Moves(j, i)
      BY <1>1, <2>3 DEF Moves, Unwritten
    <2>6. QED
      BY <2>2, <2>3, <2>4, <2>5
      DEF JobInv, Found, Selected, Named, Holding, Looks, Opening, Flags, Marked, Dropped
  <1>5. ASSUME j.sel.info.name # j.req.user, Become(k, [j EXCEPT !.pc = "mark"])
        PROVE  JobInv(job[k])' /\ Moves(j, job'[k])
    <2>1. PICK i : i = [j EXCEPT !.pc = "mark"]
      OBVIOUS
    <2>2. job'[k] = i
      BY <1>2, <1>5, <2>1
    <2>3. /\ i.pc = "mark" /\ i.req = j.req /\ i.sel = j.sel
          /\ i.folder = j.folder /\ i.num = j.num
      BY <1>1, <2>1 DEF JobStates
    <2>4. Found(i)'
      BY <1>1, <2>3, GoesOn DEF Holding
    <2>5. Moves(j, i)
      BY <1>1, <2>3 DEF Moves, Unwritten
    <2>6. QED
      BY <1>5, <2>2, <2>3, <2>4, <2>5
      DEF JobInv, Found, Selected, Named, Holding, Looks, Opening, Flags, Marked, Dropped
  <1>6. QED
    BY <1>3, <1>4, <1>5 DEF Read

(* ler has written its entry, or not.                                         *)
LEMMA MarkKnows ==
    ASSUME Base, NEW k \in Children, JobInv(job[k]), Mark(k)
    PROVE  JobInv(job[k])' /\ Moves(job[k], job'[k])
  <1>0. PICK j : j = job[k]
    OBVIOUS
  <1>1. /\ TypeInv /\ TypeOK /\ j \in JobStates /\ exists' = exists
        /\ j.pc = "mark" /\ Found(j) /\ Flags(j) /\ Holding(j)
    BY <1>0 DEF Base, IdInv, TypeInv, TypeOK, JobInv, Mark, store, Holding
  <1>2. ASSUME NEW i, Become(k, i) PROVE job'[k] = i
    BY <1>1, <1>2, OneJob
  <1>3. CASE Exit(k)
    BY <1>0, <1>2, <1>3, IdleKnows DEF Exit, Moves
  <1>4. \E y \in Selected(j)' : y.msg = j.sel.msg
    <2>1. CASE UNCHANGED dir
      BY <1>1, <2>1 DEF Found, Selected, Named
    <2>2. ASSUME NEW w, NEW z, Selected(j) = {w}, w.msg = j.sel.msg,
                 Swapped(j.folder, w, z), z.info = w.info
          PROVE  \E y \in Selected(j)' : y.msg = j.sel.msg
      <3>0. \A f \in Folders :
              dir'[f] = IF f = j.folder THEN (dir[f] \ {w}) \cup {z} ELSE dir[f]
        BY <1>1, <2>2, SwappedAt
      <3>1. /\ j.folder \in Folders /\ z.msg = w.msg /\ z \in dir'[j.folder]
        BY <2>2, <3>0 DEF Swapped
      <3>2. j.folder \in exists /\ w.info = j.sel.info
        BY <2>2 DEF Selected, Named
      <3>3. z \in Selected(j)'
        BY <1>1, <2>2, <3>1, <3>2 DEF Selected, Named
      <3>4. QED
        BY <2>2, <3>1, <3>3
    <2>3. QED
      BY <1>0, <1>1, <2>1, <2>2, MarkSwaps
  <1>5. ASSUME NEW n, Become(k, [j EXCEPT !.pc = "rename", !.flag = n])
        PROVE  JobInv(job[k])' /\ Moves(j, job'[k])
    <2>1. PICK i : i = [j EXCEPT !.pc = "rename", !.flag = n]
      OBVIOUS
    <2>2. job'[k] = i
      BY <1>2, <1>5, <2>1
    <2>3. /\ i.pc = "rename" /\ i.req = j.req /\ i.sel = j.sel
          /\ i.folder = j.folder /\ i.num = j.num
      BY <1>1, <2>1 DEF JobStates
    <2>4. Selected(i)' = Selected(j)'
      BY <2>3 DEF Selected, Named
    <2>5. Found(i)'
      BY <1>1, <1>4, <2>3, <2>4 DEF Found
    <2>6. Moves(j, i)
      BY <1>1, <2>3 DEF Moves, Unwritten
    <2>7. QED
      BY <1>1, <2>2, <2>3, <2>5, <2>6
      DEF JobInv, Found, Selected, Named, Holding, Looks, Opening, Flags, Marked, Dropped
  <1>6. QED
    BY <1>0, <1>3, <1>5 DEF Mark

(* The answered message is still there when the reply is opened, and the new  *)
(* file is the child's own.                                                   *)
LEMMA CreateKnows ==
    ASSUME Base, NEW k \in Children, JobInv(job[k]), Create(k)
    PROVE  JobInv(job[k])' /\ Moves(job[k], job'[k])
  <1>0. PICK j : j = job[k]
    OBVIOUS
  <1>1. /\ TypeInv /\ TypeOK /\ j \in JobStates /\ GoodJob(j)
        /\ exists' = exists /\ j.pc = "create" /\ Found(j)
    BY <1>0 DEF Base, IdInv, TypeInv, TypeOK, JobInv, Create, store
  <1>2. ASSUME NEW i, Become(k, i) PROVE job'[k] = i
    BY <1>1, <1>2, OneJob
  <1>3. CASE j.folder \notin exists
    BY <1>0, <1>2, <1>3, IdleKnows DEF Exit, Create, Moves
  <1>4. CASE j.folder \in exists
    <2>1. PICK i : i = [j EXCEPT !.pc = "write", !.fd = j.num]
      OBVIOUS
    <2>2. Made(j) /\ Become(k, i)
      BY <1>0, <1>4, <2>1, CreateMakes
    <2>3. job'[k] = i
      BY <1>2, <2>2
    <2>4. /\ i.pc = "write" /\ i.fd = j.num
          /\ i.req = j.req /\ i.sel = j.sel /\ i.id = j.id /\ i.time = j.time
          /\ i.folder = j.folder /\ i.num = j.num
      BY <1>1, <2>1 DEF JobStates
    <2>5. Moves(j, i)
      BY <1>1, <2>4 DEF Moves, Unwritten
    <2>6. PICK n : n = NewFile(j, j.num)
      OBVIOUS
    <2>7. /\ j.folder \in Folders /\ dir[j.folder] \subseteq dir'[j.folder]
          /\ n \in dir'[j.folder]
      <3>1. j.folder \in Folders
        BY <2>2 DEF Made
      <3>2. dir'[j.folder] = dir[j.folder] \cup {n}
        BY <1>1, <2>2, <2>6, <3>1, MadeAt
      <3>3. QED
        BY <3>1, <3>2
    <2>8. Found(i)'
      <3>1. Selected(j) \subseteq Selected(i)'
        BY <1>1, <1>4, <2>4, <2>7 DEF Selected, Named
      <3>2. Holding(i) => Holding(j)
        BY <1>1, <2>4 DEF Holding
      <3>3. QED
        BY <1>1, <2>4, <3>1, <3>2 DEF Found
    <2>9. Opening(i)'
      <3>1. NewInfo(i) = NewInfo(j)
        BY <2>4 DEF NewInfo
      <3>2. n.msg = j.num /\ n.info = NewInfo(j) /\ n.base = 0 /\ n.trailer = <<>>
        BY <2>6 DEF NewFile
      <3>3. QED
        BY <2>4, <2>7, <3>1, <3>2 DEF Opening, NewInfo
    <2>10. QED
      BY <1>0, <2>3, <2>4, <2>5, <2>8, <2>9
      DEF JobInv, Looks, Flags, Marked, Dropped
  <1>5. QED
    BY <1>3, <1>4

(* Nor does writing the reply take the answered message away.                 *)
LEMMA WriteKnows ==
    ASSUME Base, NEW k \in Children, JobInv(job[k]), Write(k)
    PROVE  JobInv(job[k])' /\ Moves(job[k], job'[k])
  <1>0. PICK j : j = job[k]
    OBVIOUS
  <1>1. /\ TypeInv /\ TypeOK /\ j \in JobStates /\ GoodJob(j)
        /\ exists' = exists /\ j.pc = "write" /\ Found(j) /\ Opening(j)
    BY <1>0 DEF Base, IdInv, TypeInv, TypeOK, JobInv, Write, store
  <1>2. PICK i : i = [j EXCEPT !.pc = IF j.req.command = "enviar"
                                      THEN "reply" ELSE "rename"]
    OBVIOUS
  <1>3. job'[k] = i
    BY <1>0, <1>1, <1>2, OneJob DEF Write
  <1>4. /\ i.pc = IF j.req.command = "enviar" THEN "reply" ELSE "rename"
        /\ i.req = j.req /\ i.sel = j.sel
        /\ i.folder = j.folder /\ i.num = j.num
    BY <1>1, <1>2 DEF JobStates
  <1>5. Moves(j, i)
    BY <1>1, <1>4 DEF Moves, Unwritten
  <1>6. j.req.command \in {"enviar", "responder"}
    BY <1>1 DEF GoodJob
  <1>7. PICK w, z : Swapped(j.folder, w, z) /\ z.info = w.info
    BY <1>0, <1>1, WriteSwaps
  <1>8. Found(i)'
    <2> SUFFICES ASSUME Holding(i) PROVE Found(i)'
      BY DEF Found
    <2>1. Holding(j)
      BY <1>1, <1>4 DEF Holding
    <2>2. PICK x \in Selected(j) : x.msg = j.sel.msg
      BY <1>1, <2>1 DEF Found
    <2>3. /\ dir'[j.folder] = (dir[j.folder] \ {w}) \cup {z}
          /\ j.folder \in Folders /\ z.msg = w.msg
      <3>1. j.folder \in Folders /\ z.msg = w.msg
        BY <1>7 DEF Swapped
      <3>2. \A f \in Folders :
              dir'[f] = IF f = j.folder THEN (dir[f] \ {w}) \cup {z} ELSE dir[f]
        BY <1>1, <1>7, SwappedAt
      <3>3. QED
        BY <3>1, <3>2
    <2>4. x \in dir[j.folder] /\ x.info = j.sel.info /\ j.folder \in exists
      BY <2>2 DEF Selected, Named
    <2>5. PICK y : y = IF x = w THEN z ELSE x
      OBVIOUS
    <2>6. y \in dir'[j.folder] /\ y.info = j.sel.info /\ y.msg = j.sel.msg
      BY <1>7, <2>2, <2>3, <2>4, <2>5
    <2>7. y \in Selected(i)'
      BY <1>1, <1>4, <2>4, <2>6 DEF Selected, Named
    <2>8. QED
      BY <1>1, <1>4, <2>1, <2>6, <2>7 DEF Found
  <1>9. QED
    BY <1>0, <1>3, <1>4, <1>5, <1>6, <1>8
    DEF JobInv, Looks, Opening, Flags, Marked, Dropped

(* When ler has renamed a direct message, or found that it need not, its file *)
(* says that it is read.                                                      *)
LEMMA RenameKnows ==
    ASSUME Base, Data, NEW k \in Children, JobInv(job[k]), Rename(k)
    PROVE  JobInv(job[k])' /\ Moves(job[k], job'[k])
  <1> DEFINE j == job[k]
  <1>1. /\ TypeInv /\ TypeOK /\ j \in JobStates /\ GoodJob(j) /\ OneFileEach
        /\ GoodSelection(j) /\ j.pc = "rename" /\ Found(j) /\ Flags(j) /\ Holding(j)
    BY DEF Base, IdInv, CountInv, StoreInv, Selections, TypeInv, TypeOK, JobInv,
           Rename, Holding
  <1>2. PICK i : i = [j EXCEPT !.pc = "reply"]
    OBVIOUS
  <1>3. job'[k] = i
    BY <1>1, <1>2, OneJob DEF Rename
  <1>4. /\ i.pc = "reply" /\ i.req = j.req /\ i.sel = j.sel
        /\ i.folder = j.folder /\ i.num = j.num
    BY <1>1, <1>2 DEF JobStates
  <1>5. Moves(j, i)
    BY <1>1, <1>4 DEF Moves, Unwritten
  <1>6. j.req.command # "remover" /\ j.req.command # "enviar" /\ j.req.user \in Users
    BY <1>1 DEF GoodJob, ConcordiaRequest
  <1>7. ASSUME j.req.command = "ler", j.sel.info.name = j.req.user,
               NEW x \in dir'[j.folder], x.msg = j.sel.msg
        PROVE  x.info.read = 1
    <2>1. PICK w : /\ Selected(j) = {w} /\ w.msg = j.sel.msg
                   /\ w \in dir[j.folder] /\ j.folder \in Folders
                   /\ w.info = j.sel.info /\ j.sel \in Selection
      BY <1>1, SelectedOne
    <2>2. \A y \in dir[j.folder] : y.msg = w.msg => y = w
      BY <1>1, <2>1 DEF OneFileEach, OneFile
    <2>3. CASE j.sel.read # 0 /\ UNCHANGED dir
      <3>1. x = w
        BY <1>7, <2>1, <2>2, <2>3
      <3>2. j.sel.read = w.info.read
        BY <1>1, <1>6, <1>7, <2>1 DEF GoodSelection
      <3>3. w.info.read \in {0, 1}
        BY <1>6, <1>7, <2>1 DEF Data, Bits
      <3>4. QED
        BY <2>3, <3>1, <3>2, <3>3
    <2>4. ASSUME NEW z, Swapped(j.folder, w, z), z.info = Renamed(j)
          PROVE  x.info.read = 1
      <3>0. \A f \in Folders :
              dir'[f] = IF f = j.folder THEN (dir[f] \ {w}) \cup {z} ELSE dir[f]
        BY <1>1, <2>4, SwappedAt
      <3>1. dir'[j.folder] = (dir[j.folder] \ {w}) \cup {z}
        BY <2>1, <3>0
      <3>2. x = z
        BY <1>7, <2>1, <2>2, <3>1
      <3>3. z.info = [j.sel.info EXCEPT !.read = j.flag] /\ j.flag = 1
        BY <1>1, <1>7, <2>4 DEF Renamed, Flags
      <3>4. QED
        BY <2>1, <3>2, <3>3 DEF Selection, FileInfo
    <2>5. QED
      BY <1>1, <2>1, <2>3, <2>4, RenameSwaps
  <1>8. Marked(i)'
    BY <1>4, <1>7 DEF Marked
  <1>9. QED
    BY <1>3, <1>4, <1>5, <1>6, <1>8
    DEF JobInv, Found, Holding, Looks, Opening, Flags, Marked, Dropped

(* The text that remover deleted is in no folder.                             *)
LEMMA UnlinkKnows ==
    ASSUME Base, Data, NEW k \in Children, JobInv(job[k]), Unlink(k)
    PROVE  JobInv(job[k])' /\ Moves(job[k], job'[k])
  <1> DEFINE j == job[k]
  <1>1. /\ TypeInv /\ TypeOK /\ j \in JobStates /\ GoodJob(j) /\ OneFileEach
        /\ OneFolder /\ j.pc = "unlink" /\ Found(j)
    BY DEF Base, IdInv, CountInv, StoreInv, TypeInv, TypeOK, JobInv, Unlink, Data
  <1>2. PICK i : i = [j EXCEPT !.pc = "reply"]
    OBVIOUS
  <1>3. job'[k] = i
    BY <1>1, <1>2, OneJob DEF Unlink
  <1>4. /\ i.pc = "reply" /\ i.req = j.req /\ i.sel = j.sel /\ i.num = j.num
        /\ j.req.command = "remover"
    BY <1>1, <1>2 DEF JobStates, GoodJob
  <1>5. Moves(j, i)
    BY <1>1, <1>4 DEF Moves, Unwritten
  <1>6. PICK w : Deleted(j.folder, w) /\ w.msg = j.sel.msg
    BY <1>1, UnlinkDeletes
  <1>7. Stored' = Stored \ {w.msg}
    BY <1>1, <1>6, DeletedAt
  <1>8. Dropped(i)'
    <2>1. w.text = IF w.msg \in sent THEN w.msg ELSE 0
      BY <1>6 DEF Data, Told, Deleted
    <2>2. w.msg \in sent => w.msg # 0
      BY DEF Data, EverSent, Numbers
    <2>3. j.sel.msg \in sent' => j.sel.msg \in removed'
      BY <1>6, <2>1, <2>2 DEF Deleted
    <2>4. QED
      BY <1>4, <1>6, <1>7, <2>3 DEF Dropped
  <1>9. QED
    BY <1>3, <1>4, <1>5, <1>8
    DEF JobInv, Found, Holding, Looks, Opening, Flags, Marked, Dropped, Stored

------------------------------------------------------------------------------
(* The numbers of requests, step by step.                                     *)

(* A step that makes no file and writes no text.                              *)
LEMMA QuietNumbers ==
    ASSUME NEW k, Children = {k}, EverSent, Moves(job[k], job'[k]),
           job'[k].pc # "write",
           UNCHANGED <<served, sent, answers>>,
           Stored' \subseteq Stored, removed' \subseteq sent
    PROVE  EverSent'
  <1>1. Unwritten(job'[k]) => Unwritten(job[k]) /\ job'[k].num = job[k].num
    BY DEF Moves, Unwritten, IdleJob
  <1>2. job'[k].pc # "idle" => job[k].pc # "idle" /\ job'[k].num = job[k].num
    BY DEF Moves, IdleJob
  <1>3. Numbers' \subseteq Numbers
    BY DEF Numbers
  <1>4. QED
    BY <1>1, <1>2, <1>3 DEF EverSent

(* A new request has the next number.                                         *)
LEMMA BeginNumbers ==
    ASSUME NEW k, Children = {k}, TypeInv, EverSent,
           NEW r \in ClientRequests, Begin(k, r), job'[k].num = served + 1
    PROVE  EverSent'
  <1>1. /\ served \in Nat /\ MaxRequests \in Nat /\ served < MaxRequests
        /\ served' = served + 1 /\ UNCHANGED <<dir, sent, removed, answers>>
    BY BoundsAssumption DEF TypeInv, TypeOK, Begin, BoundsAssumption, history
  <1>2. Numbers' = Numbers /\ Numbers \subseteq Nat
    <2>1. Numbers' = Numbers
      BY <1>1 DEF Numbers, Stored, Files
    <2>2. sent \subseteq Nat /\ \A a \in answers : a.msg \in Nat /\ a.reply \in Nat
      BY DEF TypeInv, TypeOK
    <2>3. Stored \subseteq Nat
      BY DEF TypeInv, TypeOK, Stored, Files, File
    <2>4. QED
      BY <2>1, <2>2, <2>3 DEF Numbers
  <1>3. \A n \in Numbers' : 1 <= n /\ n <= served' /\ n # served + 1
    BY <1>1, <1>2 DEF EverSent
  <1>4. served' <= MaxRequests /\ 1 <= job'[k].num /\ job'[k].num \notin Numbers'
    BY <1>1, <1>3
  <1>5. job'[k].num \notin sent' /\ removed' \subseteq sent'
    BY <1>1, <1>4 DEF Numbers, EverSent
  <1>6. QED
    BY <1>3, <1>4, <1>5 DEF EverSent

(* The file that is made has the number of its request, which was nowhere.    *)
LEMMA CreateNumbers ==
    ASSUME NEW k, Children = {k}, Base, Data, Found(job[k]),
           Create(k), job[k].folder \in exists
    PROVE  EverSent'
  <1>0. PICK j : j = job[k]
    OBVIOUS
  <1>1. /\ TypeInv /\ TypeOK /\ j \in JobStates /\ GoodJob(j) /\ j.pc = "create"
        /\ NumbersOnce /\ EverSent /\ k \in Children /\ served' = served
    BY <1>0
    DEF Base, IdInv, CountInv, StoreInv, TypeInv, TypeOK, Create, Data, counters
  <1>2. Made(j) /\ Become(k, [j EXCEPT !.pc = "write", !.fd = j.num])
    BY <1>0, <1>1, CreateMakes
  <1>3. Stored' = Stored \cup {j.num}
    BY <1>1, <1>2, MadeAt
  <1>4. PICK i : i = [j EXCEPT !.pc = "write", !.fd = j.num]
    OBVIOUS
  <1>5. job'[k] = i /\ i.num = j.num /\ i.pc = "write"
    BY <1>1, <1>2, <1>4, OneJob DEF JobStates
  <1>6. 1 <= j.num /\ j.num <= served /\ j.num \notin sent
    BY <1>0, <1>1 DEF EverSent, NumbersOnce, Unwritten, Numbers
  <1>7. j.req.command # "enviar" => j.sel.msg \in Stored
    <2>1. SUFFICES ASSUME j.req.command # "enviar" PROVE j.sel.msg \in Stored
      OBVIOUS
    <2>2. Holding(j)
      BY <1>1, <2>1 DEF Holding
    <2>3. PICK w \in dir[j.folder] : w.msg = j.sel.msg /\ j.folder \in Folders
      BY <1>0, <1>1, <2>2, SelectedOne
    <2>4. QED
      BY <2>3 DEF Stored, Files
  <1>8. Numbers' \subseteq Numbers \cup {j.num}
    <2>1. \A a \in answers' : a.msg \in Numbers /\ a.reply \in Numbers \cup {j.num}
      BY <1>2, <1>7 DEF Made, Numbers
    <2>2. sent' = sent
      BY <1>2 DEF Made
    <2>3. QED
      BY <1>3, <2>1, <2>2 DEF Numbers
  <1>9. \A n \in Numbers' : 1 <= n /\ n <= served'
    BY <1>1, <1>6, <1>8 DEF EverSent
  <1>10. removed' \subseteq sent' /\ sent' = sent
    BY <1>1, <1>2 DEF EverSent, Made
  <1>11. QED
    BY <1>1, <1>5, <1>6, <1>9, <1>10 DEF EverSent, Unwritten

(* The text that is written is that of the file that was made.                *)
LEMMA WriteNumbers ==
    ASSUME NEW k, Children = {k}, Base, Data, Opening(job[k]), Write(k)
    PROVE  EverSent'
  <1>0. PICK j : j = job[k]
    OBVIOUS
  <1>1. /\ TypeInv /\ TypeOK /\ j \in JobStates /\ GoodJob(j) /\ j.pc = "write"
        /\ EverSent /\ k \in Children /\ UNCHANGED <<served, answers, removed>>
        /\ sent' = sent \cup {j.num}
    BY <1>0 DEF Base, IdInv, TypeInv, TypeOK, Write, Data, counters
  <1>2. PICK w, z : Swapped(j.folder, w, z) /\ w.msg = j.num
    BY <1>0, <1>1, WriteSwaps
  <1>3. Stored' = Stored /\ w.msg \in Stored
    <2>1. w.msg \in Stored
      BY <1>2 DEF Swapped, Stored, Files
    <2>2. QED
      BY <1>1, <1>2, <2>1, SwappedAt
  <1>4. PICK i : i = [j EXCEPT !.pc = IF j.req.command = "enviar"
                                      THEN "reply" ELSE "rename"]
    OBVIOUS
  <1>5. job'[k] = i /\ i.num = j.num /\ i.pc \in {"reply", "rename"}
    BY <1>0, <1>1, <1>4, OneJob DEF Write, JobStates
  <1>6. Numbers' \subseteq Numbers
    BY <1>1, <1>2, <1>3 DEF Numbers
  <1>7. 1 <= i.num /\ ~ Unwritten(i)
    BY <1>0, <1>1, <1>5 DEF EverSent, Unwritten
  <1>8. QED
    BY <1>1, <1>5, <1>6, <1>7 DEF EverSent

------------------------------------------------------------------------------
(* The reply count, step by step.                                             *)

(* A step that makes no reply and counts none.                                *)
LEMMA QuietCounts ==
    ASSUME NEW k, Counts(job[k]), answers' = answers, stops' = 0 => stops = 0,
           ~ Answering(job[k]), ~ Answering(job'[k]),
           \A f \in Folders : \A y \in dir'[f] : \E x \in dir[f] :
               x.msg = y.msg /\ x.info.nReplys = y.info.nReplys
    PROVE  Counts(job[k])'
  <1>1. \A m : Owed(job[k], m) = 0 /\ Owed(job'[k], m) = 0
    BY DEF Owed
  <1>2. ASSUME stops' = 0, NEW f \in Folders, NEW y \in dir'[f]
        PROVE  y.info.nReplys + Owed(job'[k], y.msg) = Cardinality(AnswersTo(y.msg)')
    <2>1. PICK x \in dir[f] : x.msg = y.msg /\ x.info.nReplys = y.info.nReplys
      OBVIOUS
    <2>2. x.info.nReplys + Owed(job[k], x.msg) = Cardinality(AnswersTo(x.msg))
      BY <1>2 DEF Counts
    <2>3. AnswersTo(y.msg)' = {a \in answers : a.msg = y.msg}
      BY DEF AnswersTo
    <2>4. AnswersTo(x.msg) = {a \in answers : a.msg = y.msg}
      BY <2>1 DEF AnswersTo
    <2>5. QED
      BY <1>1, <2>1, <2>2, <2>3, <2>4
  <1>3. QED
    BY <1>2 DEF Counts, AnswersTo, Owed, Answering

(* A reply more, and a count that is owed for it.                             *)
LEMMA CreateCounts ==
    ASSUME NEW k, Children = {k}, Base, Data, Found(job[k]), Counts(job[k]),
           Create(k), job[k].folder \in exists
    PROVE  Counts(job[k])'
  <1>0. PICK j : j = job[k]
    OBVIOUS
  <1>1. /\ TypeInv /\ TypeOK /\ j \in JobStates /\ GoodJob(j) /\ j.pc = "create"
        /\ NumbersOnce /\ EverSent /\ k \in Children
        /\ IsFiniteSet(answers) /\ stops' = stops
    BY <1>0
    DEF Base, IdInv, CountInv, StoreInv, TypeInv, TypeOK, Create, Data, counters
  <1>2. Made(j) /\ Become(k, [j EXCEPT !.pc = "write", !.fd = j.num])
    BY <1>0, <1>1, CreateMakes
  <1>12. PICK n : n = NewFile(j, j.num)
    OBVIOUS
  <1>3. /\ \A f \in Folders :
             dir'[f] = IF f = j.folder THEN dir[f] \cup {n} ELSE dir[f]
        /\ n.msg = j.num
    BY <1>1, <1>2, <1>12, MadeAt
  <1>13. PICK i : i = [j EXCEPT !.pc = "write", !.fd = j.num]
    OBVIOUS
  <1>4. job'[k] = i
    BY <1>1, <1>2, <1>13, OneJob
  <1>5. i.pc = "write" /\ i.req = j.req /\ i.sel = j.sel
    BY <1>1, <1>13 DEF JobStates
  <1>6. \A m : /\ Owed(j, m) = 0
               /\ Owed(i, m) = IF j.req.command # "enviar" /\ j.sel.msg = m
                               THEN 1 ELSE 0
    BY <1>1, <1>5 DEF Owed, Answering, GoodJob
  <1>7. /\ j.num \notin Stored
        /\ \A a \in answers : a.msg # j.num /\ a.reply # j.num
    BY <1>0, <1>1 DEF EverSent, Unwritten, Numbers
  <1>8. j.req.command # "enviar" => j.sel.msg # j.num
    <2>1. SUFFICES ASSUME j.req.command # "enviar" PROVE j.sel.msg # j.num
      OBVIOUS
    <2>2. Holding(j)
      BY <1>1, <2>1 DEF Holding
    <2>3. PICK w \in dir[j.folder] : w.msg = j.sel.msg /\ j.folder \in Folders
      BY <1>0, <1>1, <2>2, SelectedOne
    <2>4. j.sel.msg \in Stored
      BY <2>3 DEF Stored, Files
    <2>5. QED
      BY <1>7, <2>4
  <1>9. ASSUME NEW m
        PROVE  Cardinality(AnswersTo(m)') = Cardinality(AnswersTo(m)) + Owed(i, m)
    <2>1. IsFiniteSet(AnswersTo(m))
      BY <1>1, FS_Subset DEF AnswersTo
    <2>2. Cardinality(AnswersTo(m)) \in Nat
      BY <2>1, FS_CardinalityType
    <2>3. CASE Owed(i, m) = 0
      <3>1. AnswersTo(m)' = AnswersTo(m)
        BY <1>2, <1>6, <2>3 DEF AnswersTo, Made
      <3>2. QED
        BY <2>2, <2>3, <3>1
    <2>4. CASE Owed(i, m) # 0
      <3>1. j.req.command # "enviar" /\ j.sel.msg = m /\ Owed(i, m) = 1
        BY <1>6, <2>4
      <3>2. PICK a : a = [reply |-> j.num, folder |-> j.folder,
                          id |-> j.sel.info.id, msg |-> j.sel.msg]
        OBVIOUS
      <3>3. answers' = answers \cup {a} /\ a.msg = m /\ a \notin answers
        BY <1>2, <1>7, <3>1, <3>2 DEF Made
      <3>4. AnswersTo(m)' = AnswersTo(m) \cup {a} /\ a \notin AnswersTo(m)
        BY <3>3 DEF AnswersTo
      <3>5. QED
        BY <2>1, <3>1, <3>4, FS_AddElement
    <2>5. QED
      BY <2>3, <2>4
  <1>10. ASSUME stops' = 0, NEW f \in Folders, NEW y \in dir'[f]
         PROVE  y.info.nReplys + Owed(i, y.msg) = Cardinality(AnswersTo(y.msg)')
    <2>1. CASE y \in dir[f]
      <3>1. y.info.nReplys + Owed(j, y.msg) = Cardinality(AnswersTo(y.msg))
        BY <1>0, <1>1, <1>10, <2>1 DEF Counts
      <3>2. y.info.nReplys \in Nat
        BY <1>1, <2>1 DEF TypeOK, File, FileInfo
      <3>3. y.info.nReplys = Cardinality(AnswersTo(y.msg))
        BY <1>6, <3>1, <3>2
      <3>4. QED
        BY <1>9, <3>3
    <2>2. CASE y = n
      <3>1. y.info.nReplys = 0 /\ y.msg = j.num
        BY <1>3, <1>12, <2>2 DEF NewFile, NewInfo
      <3>2. Owed(i, j.num) = 0
        BY <1>6, <1>8
      <3>3. AnswersTo(j.num) = {}
        BY <1>7 DEF AnswersTo
      <3>4. Cardinality(AnswersTo(j.num)) = 0
        BY <3>3, FS_EmptySet
      <3>5. Cardinality(AnswersTo(j.num)') = 0
        BY <1>9, <3>2, <3>4
      <3>6. AnswersTo(y.msg)' = AnswersTo(j.num)'
        BY <3>1 DEF AnswersTo
      <3>7. QED
        BY <3>1, <3>2, <3>5, <3>6
    <2>3. QED
      BY <1>3, <2>1, <2>2
  <1>11. QED
    BY <1>4, <1>10 DEF Counts, AnswersTo, Owed, Answering

(* The text of a reply changes no count.                                      *)
LEMMA WriteCounts ==
    ASSUME NEW k \in Children, Base, Data, Opening(job[k]), Counts(job[k]), Write(k)
    PROVE  Counts(job[k])'
  <1>0. PICK j : j = job[k]
    OBVIOUS
  <1>1. /\ TypeInv /\ TypeOK /\ j \in JobStates /\ GoodJob(j) /\ j.pc = "write"
        /\ answers' = answers /\ stops' = stops
    BY <1>0 DEF Base, IdInv, TypeInv, TypeOK, Write, counters
  <1>2. PICK w, z : Swapped(j.folder, w, z) /\ z.info = w.info
    BY <1>0, <1>1, WriteSwaps
  <1>3. PICK i : i = [j EXCEPT !.pc = IF j.req.command = "enviar"
                                      THEN "reply" ELSE "rename"]
    OBVIOUS
  <1>4. job'[k] = i
    BY <1>0, <1>1, <1>3, OneJob DEF Write
  <1>5. \A m : Owed(i, m) = Owed(j, m)
    <2>1. /\ i.pc = IF j.req.command = "enviar" THEN "reply" ELSE "rename"
          /\ i.req = j.req /\ i.sel = j.sel
      BY <1>1, <1>3 DEF JobStates
    <2>2. j.req.command \in {"enviar", "responder"}
      BY <1>1 DEF GoodJob
    <2>3. QED
      BY <1>1, <2>1, <2>2 DEF Owed, Answering
  <1>6. ASSUME NEW f \in Folders, NEW y \in dir'[f]
        PROVE  \E x \in dir[f] : x.msg = y.msg /\ x.info.nReplys = y.info.nReplys
    <2>1. /\ \A g \in Folders :
               dir'[g] = IF g = j.folder THEN (dir[g] \ {w}) \cup {z} ELSE dir[g]
      BY <1>1, <1>2, SwappedAt
    <2>2. j.folder \in Folders /\ w \in dir[j.folder] /\ z.msg = w.msg
      BY <1>2 DEF Swapped
    <2>3. QED
      BY <1>2, <2>1, <2>2
  <1>7. ASSUME stops = 0, NEW f \in Folders, NEW y \in dir'[f]
        PROVE  y.info.nReplys + Owed(i, y.msg) = Cardinality(AnswersTo(y.msg))
    <2>1. PICK x \in dir[f] : x.msg = y.msg /\ x.info.nReplys = y.info.nReplys
      BY <1>6
    <2>2. x.info.nReplys + Owed(j, x.msg) = Cardinality(AnswersTo(x.msg))
      BY <1>0, <1>7 DEF Counts
    <2>3. QED
      BY <1>5, <2>1, <2>2
  <1>8. QED
    BY <1>1, <1>4, <1>7 DEF Counts, AnswersTo, Owed, Answering

(* responder's rename settles what is owed; ler's leaves the counts alone.    *)
LEMMA RenameCounts ==
    ASSUME NEW k, Children = {k}, Base, Data, Found(job[k]), Counts(job[k]),
           Rename(k)
    PROVE  Counts(job[k])'
  <1>0. PICK j : j = job[k]
    OBVIOUS
  <1>1. /\ TypeInv /\ TypeOK /\ j \in JobStates /\ GoodJob(j) /\ j.pc = "rename"
        /\ OneFileEach /\ OneFolder /\ stops' = stops /\ k \in Children /\ Holding(j)
    BY <1>0
    DEF Base, IdInv, CountInv, StoreInv, TypeInv, TypeOK, Rename, Data, counters,
        Holding
  <1>2. answers' = answers /\ ~ Answering(job'[k])
    BY <1>1, OwesNothing
  <1>3. CASE j.req.command = "ler" /\ UNCHANGED dir
    <2>1. ~ Answering(job[k])
      BY <1>0, <1>3 DEF Answering
    <2>2. QED
      BY <1>1, <1>2, <1>3, <2>1, QuietCounts
  <1>4. ASSUME NEW w, NEW z, Selected(j) = {w}, w.msg = j.sel.msg,
               Swapped(j.folder, w, z), z.info = Renamed(j)
        PROVE  Counts(job[k])'
    <2>1. /\ \A f \in Folders :
               dir'[f] = IF f = j.folder THEN (dir[f] \ {w}) \cup {z} ELSE dir[f]
      BY <1>1, <1>4, SwappedAt
    <2>2. /\ j.folder \in Folders /\ w \in dir[j.folder] /\ w \in File
          /\ w.info = j.sel.info /\ z.msg = w.msg
      BY <1>1, <1>4, SelectedType DEF Swapped
    <2>3. j.req.command \in {"ler", "responder"} /\ w.info \in FileInfo
      BY <1>1, <2>2 DEF GoodJob, File
    <2>4. CASE j.req.command = "ler"
      <3>1. ~ Answering(job[k])
        BY <1>0, <2>4 DEF Answering
      <3>2. z.info.nReplys = w.info.nReplys
        BY <1>4, <2>2, <2>3, <2>4 DEF Renamed, FileInfo
      <3>3. ASSUME NEW f \in Folders, NEW y \in dir'[f]
            PROVE  \E x \in dir[f] : x.msg = y.msg /\ x.info.nReplys = y.info.nReplys
        BY <2>1, <2>2, <3>2
      <3>4. QED
        BY <1>1, <1>2, <3>1, <3>3, QuietCounts
    <2>5. CASE j.req.command = "responder"
      <3>1. z.info.nReplys = w.info.nReplys + 1
        BY <1>4, <2>2, <2>3, <2>5 DEF Renamed, FileInfo
      <3>2. Answering(j)
        BY <1>1, <2>5 DEF Answering
      <3>3. \A m : Owed(job'[k], m) = 0
        BY <1>2 DEF Owed
      <3>4. ASSUME stops' = 0, NEW f \in Folders, NEW y \in dir'[f]
            PROVE  y.info.nReplys = Cardinality(AnswersTo(y.msg))
        <4>1. CASE y \in dir[f] /\ ~ (f = j.folder /\ y = w)
          <5>1. y.msg # w.msg
            BY <1>1, <2>2, <4>1 DEF OneFolder, OneFileEach, OneFile
          <5>2. Owed(j, y.msg) = 0
            BY <1>4, <5>1 DEF Owed
          <5>3. y.info.nReplys + 0 = Cardinality(AnswersTo(y.msg))
            BY <1>0, <1>1, <3>4, <4>1, <5>2 DEF Counts
          <5>4. y.info.nReplys \in Nat
            BY <1>1, <4>1 DEF TypeOK, File, FileInfo
          <5>5. QED
            BY <5>3, <5>4
        <4>2. CASE f = j.folder /\ y = z
          <5>1. Owed(j, w.msg) = 1
            BY <1>4, <3>2 DEF Owed
          <5>2. w.info.nReplys + 1 = Cardinality(AnswersTo(w.msg))
            BY <1>0, <1>1, <2>2, <3>4, <5>1 DEF Counts
          <5>3. QED
            BY <2>2, <3>1, <4>2, <5>2
        <4>3. QED
          BY <2>1, <4>1, <4>2
      <3>5. ASSUME stops' = 0, NEW f \in Folders, NEW y \in dir'[f]
            PROVE  y.info.nReplys + Owed(job'[k], y.msg)
                     = Cardinality({a \in answers' : a.msg = y.msg})
        <4>1. y.info.nReplys \in Nat
          <5>1. Next
            BY <1>1 DEF Next, Handle
          <5>2. TypeOK'
            BY <1>1, <5>1, TypeInvNext DEF TypeInv
          <5>3. QED
            BY <3>5, <5>2 DEF TypeOK, File, FileInfo
        <4>2. QED
          BY <1>2, <3>3, <3>4, <3>5, <4>1 DEF AnswersTo
      <3>6. QED
        BY <3>5 DEF Counts, AnswersTo, Owed, Answering
    <2>6. QED
      BY <2>3, <2>4, <2>5
  <1>5. QED
    BY <1>0, <1>1, <1>3, <1>4, RenameSwaps

------------------------------------------------------------------------------
(* Every step keeps the invariant.                                            *)

(* The lemmas about its first part were about more children.                  *)
LEMMA BaseNext ==
    ASSUME NEW k, OneChild(k), Base, [Next]_vars
    PROVE  Base'
  BY IdInvNext, NamedInvNext, CountInvNext DEF OneChild, Base

(* Nothing is there at first.                                                 *)
LEMMA OneInvInit ==
    ASSUME NEW k, OneChild(k), Init
    PROVE  OneInv(k)
  <1>1. TypeInv /\ StoreInv
    BY TypeInvInit, StoreInvInit
  <1>2. /\ k \in Children /\ job = [c \in Children |-> IdleJob] /\ job[k] = IdleJob
        /\ dir = [f \in Folders |-> {}] /\ Stored = {}
        /\ sent = {} /\ removed = {} /\ answers = {}
    BY DEF Init, OneChild, Stored, Files
  <1>3. IdInv
    BY <1>1, <1>2 DEF IdInv, UniqueIds, FreshId, IdleJob
  <1>4. NamedInv
    BY <1>1, <1>2 DEF NamedInv, NamedByFolder, GoodPlace, IdleJob
  <1>5. CountInv
    BY <1>1, <1>2, FS_EmptySet DEF CountInv, Answered, Answering, CountsFit, IdleJob
  <1>6. EverSent
    <2>1. Numbers = {}
      BY <1>2 DEF Numbers
    <2>2. QED
      BY <1>2, <2>1, BoundsAssumption
      DEF Init, EverSent, BoundsAssumption, Unwritten, IdleJob
  <1>7. OneFolder /\ Bits /\ Told /\ Kept /\ Resolved
    BY <1>2 DEF OneFolder, Bits, Told, Kept, Resolved
  <1>8. Counts(job[k])
    BY <1>2 DEF Counts
  <1>9. JobInv(job[k])
    BY <1>2, IdleKnows
  <1>10. QED
    BY <1>3, <1>4, <1>5, <1>6, <1>7, <1>8, <1>9 DEF OneInv, Base, Data

(* What a rename does to the bit of a direct message.                         *)
LEMMA RenamedBit ==
    ASSUME NEW k \in Children, Base, Data, JobInv(job[k]), Users \cap Groups = {},
           Rename(k), NEW w, Selected(job[k]) = {w}, w.info.name \in Users
    PROVE  Renamed(job[k]).read \in {0, 1}
  <1> DEFINE j == job[k]
  <1>1. /\ TypeOK /\ GoodJob(j) /\ j \in JobStates /\ j.pc = "rename"
        /\ GoodSelection(j) /\ Found(j) /\ Flags(j) /\ Holding(j)
    BY DEF Base, IdInv, CountInv, StoreInv, Selections, TypeInv, TypeOK, Rename,
           JobInv, Holding
  <1>2. /\ j.folder \in Folders /\ w \in dir[j.folder] /\ w.info = j.sel.info
        /\ w.info \in FileInfo
    BY <1>1, SelectedType DEF File
  <1>3. w.info.name = j.req.user
    BY <1>1, <1>2 DEF Found
  <1>4. w.info.read \in {0, 1}
    BY <1>2 DEF Data, Bits
  <1>5. CASE j.req.command = "ler"
    <2>1. j.flag = 1 /\ Renamed(j) = [w.info EXCEPT !.read = j.flag]
      BY <1>1, <1>2, <1>3, <1>5 DEF Flags, Renamed
    <2>2. QED
      BY <1>2, <2>1 DEF FileInfo
  <1>6. CASE j.req.command = "responder"
    <2>1. /\ j.sel.read = w.info.read
          /\ Renamed(j) = [w.info EXCEPT !.read = j.sel.read, !.nReplys = @ + 1]
      BY <1>1, <1>2, <1>3, <1>6 DEF GoodSelection, Renamed
    <2>2. QED
      BY <1>2, <1>4, <2>1 DEF FileInfo
  <1>7. QED
    BY <1>1, <1>5, <1>6 DEF GoodJob

(* A step that changes no file and no history.                                *)
LEMMA StillStep ==
    ASSUME NEW k, OneChild(k), OneInv(k), Base',
           JobInv(job[k])', Moves(job[k], job'[k]), job'[k].pc # "write",
           UNCHANGED <<dir, served, history>>, stops' = 0 => stops = 0,
           ~ Answering(job[k]), ~ Answering(job'[k])
    PROVE  OneInv(k)'
  <1>1. DataButNumbers'
    BY StillData DEF OneInv
  <1>2. Stored' = Stored /\ removed' \subseteq sent
    BY DEF Stored, Files, history, OneInv, Data, EverSent
  <1>3. EverSent'
    BY <1>2, QuietNumbers DEF OneInv, OneChild, Data, history
  <1>4. Counts(job[k])'
    BY QuietCounts DEF OneInv, history
  <1>5. QED
    BY <1>1, <1>3, <1>4 DEF OneInv, Data, DataButNumbers

(* All parts of the invariant together, one action at a time.                 *)
LEMMA OneInvNext ==
    ASSUME NEW k, OneChild(k), OneInv(k), [Next]_vars
    PROVE  OneInv(k)'
  <1>1. /\ Base /\ Base' /\ Data /\ JobInv(job[k]) /\ Counts(job[k])
        /\ Children = {k} /\ k \in Children /\ Users \cap Groups = {}
    BY BaseNext DEF OneInv, OneChild
  <1>2. /\ TypeInv /\ TypeOK /\ Found(job[k]) /\ EverSent
        /\ OneFileEach /\ OneFolder
    BY <1>1 DEF Base, IdInv, CountInv, StoreInv, TypeInv, JobInv, Data
  <1>3. ASSUME NEW r \in ClientRequests, Begin(k, r)
        PROVE  OneInv(k)'
    <2>1. JobInv(job[k])' /\ job'[k].num = served + 1
      BY <1>1, <1>2, <1>3, BeginKnows
    <2>2. UNCHANGED <<dir, history, stops>> /\ job[k].pc = "idle"
      BY <1>3 DEF Begin
    <2>3. answers' = answers /\ ~ Answering(job'[k]) /\ ~ Answering(job[k])
      BY <1>1, <1>2, <1>3, <2>2, OwesNothing DEF Answering
    <2>4. DataButNumbers'
      BY <1>1, <2>2, StillData
    <2>5. EverSent'
      BY <1>1, <1>2, <1>3, <2>1, BeginNumbers
    <2>6. Counts(job[k])'
      BY <1>1, <2>2, <2>3, QuietCounts
    <2>7. QED
      BY <1>1, <2>1, <2>4, <2>5, <2>6 DEF OneInv, Data, DataButNumbers
  <1>4. CASE \/ Resolve(k) \/ Scan(k) \/ Count(k) \/ ReadDir(k) \/ CheckRead(k)
             \/ Sort(k) \/ Read(k)
    <2>1. JobInv(job[k])' /\ Moves(job[k], job'[k])
      BY <1>1, <1>2, <1>4, LookKnows, ListKnows, SortKnows, ReadKnows
    <2>2. /\ UNCHANGED <<dir, served, stops, history>>
          /\ job[k].pc \notin {"create", "write", "rename"}
      <3>1. CASE Sort(k)
        <4>1. PICK i : i = [job[k] EXCEPT !.list = {}]
          OBVIOUS
        <4>2. job[k] \in JobStates
          BY <1>1, <1>2 DEF TypeOK
        <4>3. QED
          BY <1>1, <3>1, <4>1, <4>2, SortShape DEF counters
      <3>2. CASE ReadDir(k) \/ CheckRead(k)
        BY <3>2 DEF ReadDir, CheckRead, counters
      <3>3. CASE Resolve(k) \/ Scan(k) \/ Count(k) \/ Read(k)
        BY <3>3 DEF Resolve, Scan, Count, Read, counters
      <3>4. QED
        BY <1>4, <3>1, <3>2, <3>3
    <2>3. ~ Answering(job'[k]) /\ ~ Answering(job[k])
      BY <1>1, <1>2, <1>4, <2>2, OwesNothing DEF Answering
    <2>4. job'[k].pc # "write"
      BY <2>1, <2>2 DEF Moves, IdleJob
    <2>5. QED
      BY <1>1, <2>1, <2>2, <2>3, <2>4, StillStep
  <1>5. CASE Create(k)
    <2>1. JobInv(job[k])' /\ Moves(job[k], job'[k])
      BY <1>1, <1>5, CreateKnows
    <2>2. CASE job[k].folder \in exists
      <3>1. DataButNumbers' /\ EverSent' /\ Counts(job[k])'
        BY <1>1, <1>2, <1>5, <2>2, MadeData, CreateNumbers, CreateCounts
      <3>2. QED
        BY <1>1, <2>1, <3>1 DEF OneInv, Data, DataButNumbers
    <2>3. CASE job[k].folder \notin exists
      <3>1. /\ UNCHANGED <<dir, served, stops, history>>
            /\ job[k].pc = "create" /\ job'[k] = IdleJob
        BY <1>1, <1>2, <1>5, <2>3, OneJob DEF Create, Exit, history, counters
      <3>2. /\ ~ Answering(job'[k]) /\ ~ Answering(job[k])
            /\ job'[k].pc # "write"
        BY <3>1 DEF Answering, IdleJob
      <3>3. QED
        BY <1>1, <2>1, <3>1, <3>2, StillStep
    <2>4. QED
      BY <2>2, <2>3
  <1>13. CASE Write(k)
    <2>1. JobInv(job[k])' /\ Moves(job[k], job'[k])
      BY <1>1, <1>13, WriteKnows
    <2>2. Opening(job[k])
      BY <1>1 DEF JobInv
    <2>3. EverSent' /\ Counts(job[k])'
      BY <1>1, <1>13, <2>2, WriteNumbers, WriteCounts
    <2>4. PICK w, z : Swapped(job[k].folder, w, z) /\ NewText(w, z)
                      /\ z.info = w.info /\ w.info = NewInfo(job[k])
      BY <1>1, <1>13, <2>2, WriteSwaps
    <2>5. z.info.read = 0
      BY <2>4 DEF NewInfo
    <2>6. DataButNumbers'
      BY <1>1, <2>4, <2>5, SwappedData
    <2>7. QED
      BY <1>1, <2>1, <2>3, <2>6 DEF OneInv, Data, DataButNumbers
  <1>6. CASE Mark(k)
    <2>1. JobInv(job[k])' /\ Moves(job[k], job'[k])
      BY <1>1, <1>6, MarkKnows
    <2>2. /\ UNCHANGED <<served, stops>> /\ job[k].pc = "mark"
          /\ job'[k].pc # "write"
      BY <1>6, <2>1 DEF Mark, counters, Moves, IdleJob
    <2>3. ~ Answering(job'[k]) /\ ~ Answering(job[k])
      BY <1>1, <1>2, <1>6, <2>2, OwesNothing DEF Answering
    <2>4. UNCHANGED history /\ removed \subseteq sent
      BY <1>1, <1>2, <1>6, MarkSwaps DEF EverSent
    <2>5. CASE UNCHANGED dir
      BY <1>1, <2>1, <2>2, <2>3, <2>4, <2>5, StillStep
    <2>6. ASSUME NEW w, NEW z, Swapped(job[k].folder, w, z), z.info = w.info,
                 SameText(w, z)
          PROVE  OneInv(k)'
      <3>1. PICK g : g = job[k].folder
        OBVIOUS
      <3>2. g \in Folders /\ w \in dir[g] /\ z.msg = w.msg
        BY <2>6, <3>1 DEF Swapped
      <3>3. w.info.name \in Users => z.info.read \in {0, 1}
        BY <1>1, <2>6, <3>2 DEF Data, Bits
      <3>4. DataButNumbers'
        BY <1>1, <2>6, <3>3, SwappedData
      <3>5. /\ \A f \in Folders :
                 dir'[f] = IF f = g THEN (dir[f] \ {w}) \cup {z} ELSE dir[f]
            /\ Stored' = Stored
        BY <1>2, <2>6, <3>1, SwappedAt
      <3>6. EverSent'
        BY <1>1, <1>2, <2>1, <2>2, <2>4, <3>5, QuietNumbers DEF history
      <3>7. ASSUME NEW f \in Folders, NEW y \in dir'[f]
            PROVE  \E x \in dir[f] : x.msg = y.msg /\ x.info.nReplys = y.info.nReplys
        BY <2>6, <3>2, <3>5
      <3>8. Counts(job[k])'
        BY <1>1, <2>2, <2>3, <2>4, <3>7, QuietCounts DEF history
      <3>9. QED
        BY <1>1, <2>1, <3>4, <3>6, <3>8 DEF OneInv, Data, DataButNumbers
    <2>7. QED
      BY <1>1, <1>2, <1>6, <2>5, <2>6, MarkSwaps
  <1>7. CASE Rename(k)
    <2>1. JobInv(job[k])' /\ Moves(job[k], job'[k])
      BY <1>1, <1>7, RenameKnows
    <2>2. /\ served' = served /\ UNCHANGED history /\ removed \subseteq sent
          /\ job'[k].pc # "write"
      BY <1>2, <1>7, <2>1 DEF Rename, counters, EverSent, Moves, IdleJob
    <2>3. Counts(job[k])'
      BY <1>1, <1>2, <1>7, RenameCounts
    <2>4. CASE UNCHANGED dir
      <3>1. DataButNumbers'
        BY <1>1, <2>2, <2>4, StillData
      <3>2. Stored' = Stored
        BY <2>4 DEF Stored, Files
      <3>3. EverSent'
        BY <1>1, <1>2, <2>1, <2>2, <3>2, QuietNumbers DEF history
      <3>4. QED
        BY <1>1, <2>1, <2>3, <3>1, <3>3 DEF OneInv, Data, DataButNumbers
    <2>5. ASSUME NEW w, NEW z, Selected(job[k]) = {w},
                 Swapped(job[k].folder, w, z), z.info = Renamed(job[k]),
                 SameText(w, z)
          PROVE  OneInv(k)'
      <3>1. w.info.name \in Users => z.info.read \in {0, 1}
        BY <1>1, <1>7, <2>5, RenamedBit
      <3>2. DataButNumbers'
        BY <1>1, <2>5, <3>1, SwappedData
      <3>3. Stored' = Stored
        BY <1>2, <2>5, SwappedAt
      <3>4. EverSent'
        BY <1>1, <1>2, <2>1, <2>2, <3>3, QuietNumbers DEF history
      <3>5. QED
        BY <1>1, <2>1, <2>3, <3>2, <3>4 DEF OneInv, Data, DataButNumbers
    <2>6. QED
      BY <1>1, <1>2, <1>7, <2>4, <2>5, RenameSwaps
  <1>8. CASE Unlink(k)
    <2>1. JobInv(job[k])' /\ Moves(job[k], job'[k])
      BY <1>1, <1>8, UnlinkKnows
    <2>2. PICK g : g = job[k].folder
      OBVIOUS
    <2>3. PICK w : Deleted(g, w)
      BY <1>1, <1>2, <1>8, <2>2, UnlinkDeletes
    <2>4. DataButNumbers'
      BY <1>1, <2>3, DeletedData
    <2>5. /\ \A f \in Folders : dir'[f] = IF f = g THEN dir[f] \ {w} ELSE dir[f]
          /\ Stored' = Stored \ {w.msg}
      BY <1>2, <2>3, DeletedAt
    <2>6. /\ UNCHANGED <<served, stops, sent, answers>> /\ job[k].pc = "unlink"
          /\ job'[k].pc # "write"
      BY <1>8, <2>1 DEF Unlink, counters, Moves, IdleJob
    <2>12. removed' \subseteq sent
      <3>1. w.text = IF w.msg \in sent THEN w.msg ELSE 0
        BY <1>1, <2>3 DEF Data, Told, Deleted
      <3>2. QED
        BY <1>2, <2>3, <3>1 DEF Deleted, EverSent
    <2>7. ~ Answering(job'[k]) /\ ~ Answering(job[k])
      BY <1>1, <1>2, <1>8, <2>6, OwesNothing DEF Answering
    <2>8. EverSent'
      BY <1>1, <1>2, <2>1, <2>5, <2>6, <2>12, QuietNumbers
    <2>9. \A f \in Folders : dir'[f] \subseteq dir[f]
      BY <2>5
    <2>10. Counts(job[k])'
      BY <1>1, <2>6, <2>7, <2>9, QuietCounts
    <2>11. QED
      BY <1>1, <2>1, <2>4, <2>8, <2>10 DEF OneInv, Data, DataButNumbers
  <1>9. CASE Reply(k)
    <2>1. /\ job'[k] = IdleJob /\ UNCHANGED <<dir, served, stops, history>>
          /\ job[k].pc = "reply"
      BY <1>1, <1>2, <1>9, OneJob DEF Reply, Exit, counters
    <2>2. JobInv(job[k])' /\ Moves(job[k], job'[k])
      BY <2>1, IdleKnows DEF Moves
    <2>3. /\ ~ Answering(job'[k]) /\ ~ Answering(job[k])
          /\ job'[k].pc # "write"
      BY <2>1 DEF Answering, IdleJob
    <2>4. QED
      BY <1>1, <2>1, <2>2, <2>3, StillStep
  <1>10. CASE Stop
    <2>1. /\ job'[k] = IdleJob /\ UNCHANGED <<dir, served, history>>
          /\ stops' # 0 /\ job'[k].pc # "write" /\ removed \subseteq sent
      BY <1>1, <1>2, <1>10 DEF Stop, TypeOK, IdleJob, EverSent
    <2>2. JobInv(job[k])' /\ Moves(job[k], job'[k])
      BY <2>1, IdleKnows DEF Moves
    <2>3. DataButNumbers' /\ Stored' = Stored
      BY <1>1, <2>1, StillData DEF Stored, Files
    <2>4. EverSent'
      BY <1>1, <1>2, <2>1, <2>2, <2>3, QuietNumbers DEF history
    <2>5. Counts(job[k])'
      BY <2>1 DEF Counts
    <2>6. QED
      BY <1>1, <2>2, <2>3, <2>4, <2>5 DEF OneInv, Data, DataButNumbers
  <1>11. CASE Tick \/ UNCHANGED vars
    <2>1. UNCHANGED <<exists, dir, served, stops, job, sent, removed, answers>>
      BY <1>11 DEF Tick, vars, store, history
    <2>2. DataButNumbers' /\ Stored' = Stored
      BY <1>1, <2>1, StillData DEF Stored, Files, history
    <2>3. EverSent'
      BY <1>2, <2>1, <2>2 DEF EverSent, Numbers
    <2>4. Counts(job[k])'
      BY <1>1, <2>1 DEF Counts, AnswersTo, Owed, Answering
    <2>5. JobInv(job[k])'
      BY <1>1, <2>1, <2>2
      DEF JobInv, Found, Selected, Named, Holding, Looks, Listed, Opening, Flags,
          Marked, Dropped
    <2>6. QED
      BY <1>1, <2>2, <2>3, <2>4, <2>5 DEF OneInv, Data, DataButNumbers
  <1>12. QED
    BY <1>1, <1>3, <1>4, <1>5, <1>6, <1>7, <1>8, <1>9, <1>10, <1>11, <1>13
    DEF Next, Handle, Wait

------------------------------------------------------------------------------
(* The theorems, for one child at a time.                                     *)

(* A message that enviar or responder has written stays until remover deletes *)
(* it: getHighestID + 1 is an identifier no file has, so that O_TRUNC hits    *)
(* nothing, and rename goes to a name with the identifier of the file itself. *)
THEOREM NothingLost ==
    ASSUME NEW k, OneChild(k)
    PROVE  Spec => []NoLoss
  <1>1. Init => OneInv(k)
    BY OneInvInit
  <1>2. OneInv(k) /\ [Next]_vars => OneInv(k)'
    BY OneInvNext
  <1>3. OneInv(k) => NoLoss
    <2> SUFFICES ASSUME OneInv(k), NEW n \in sent, n \notin removed PROVE n \in Texts
      BY DEF NoLoss
    <2>1. n \in Stored /\ Told
      BY DEF OneInv, Data, Kept
    <2>2. PICK f \in Folders : \E x \in dir[f] : x.msg = n
      BY <2>1 DEF Stored, Files
    <2>3. PICK x \in dir[f] : x.msg = n
      BY <2>2
    <2>4. x.text = n
      BY <2>1, <2>3 DEF Told
    <2>5. QED
      BY <2>3, <2>4 DEF Texts, Files
  <1>4. QED
    BY <1>1, <1>2, <1>3, PTL DEF Spec

(* The isReply of a reply leads to the message that was answered or, once     *)
(* that is removed, to none: its identifier is not given again.               *)
THEOREM RepliesResolve ==
    ASSUME NEW k, OneChild(k)
    PROVE  Spec => []ReplyResolves
  <1>1. Init => OneInv(k)
    BY OneInvInit
  <1>2. OneInv(k) /\ [Next]_vars => OneInv(k)'
    BY OneInvNext
  <1>3. OneInv(k) => ReplyResolves
    BY DEF OneInv, Data, Resolved, ReplyResolves
  <1>4. QED
    BY <1>1, <1>2, <1>3, PTL DEF Spec

(* nReplys is the number of replies that were written, as long as nobody      *)
(* kills the child between writing a reply and renaming what it answers.      *)
THEOREM CountsExact ==
    ASSUME NEW k, OneChild(k)
    PROVE  Spec => []ReplyCountExact
  <1>1. Init => OneInv(k)
    BY OneInvInit
  <1>2. OneInv(k) /\ [Next]_vars => OneInv(k)'
    BY OneInvNext
  <1>3. OneInv(k) => ReplyCountExact
    <2> SUFFICES ASSUME OneInv(k), stops = 0,
                        job[k].pc \notin {"write", "rename"},
                        NEW f \in Folders, NEW x \in dir[f]
                 PROVE  x.info.nReplys = Cardinality({a \in answers : a.msg = x.msg})
      BY DEF ReplyCountExact, OneChild
    <2>1. x.info.nReplys + Owed(job[k], x.msg) = Cardinality(AnswersTo(x.msg))
      BY DEF OneInv, Counts
    <2>2. Owed(job[k], x.msg) = 0
      BY DEF Owed, Answering
    <2>3. x.info.nReplys \in Nat
      BY DEF OneInv, Base, IdInv, TypeInv, TypeOK, File, FileInfo
    <2>4. QED
      BY <2>1, <2>2, <2>3 DEF AnswersTo
  <1>4. QED
    BY <1>1, <1>2, <1>3, PTL DEF Spec

(* When ler hands over a direct message, its file says that it is read.       *)
THEOREM ReadIsMarked ==
    ASSUME NEW k, OneChild(k)
    PROVE  Spec => []LerMarksRead
  <1>1. Init => OneInv(k)
    BY OneInvInit
  <1>2. OneInv(k) /\ [Next]_vars => OneInv(k)'
    BY OneInvNext
  <1>3. OneInv(k) => LerMarksRead
    BY DEF OneInv, OneChild, JobInv, Marked, LerMarksRead
  <1>4. QED
    BY <1>1, <1>2, <1>3, PTL DEF Spec

(* When remover confirms the removal of a message of the list, the text is in *)
(* no folder any more.                                                        *)
THEOREM RemovalIsReal ==
    ASSUME NEW k, OneChild(k)
    PROVE  Spec => []RemovedIsRemoved
  <1>1. Init => OneInv(k)
    BY OneInvInit
  <1>2. OneInv(k) /\ [Next]_vars => OneInv(k)'
    BY OneInvNext
  <1>3. OneInv(k) => RemovedIsRemoved
    BY DEF OneInv, OneChild, JobInv, Dropped, RemovedIsRemoved
  <1>4. QED
    BY <1>1, <1>2, <1>3, PTL DEF Spec

------------------------------------------------------------------------------
(* The files are the store that MailStore describes.                          *)

Mail == [f \in Folders |-> Delivered(dir[f])]

(* The promised store is named by what it holds.                              *)
LEMMA MailIs ==
    /\ Promise!vars = <<Mail, sent>>
    /\ Mail' = [f \in Folders |-> Delivered(dir'[f])]
  BY DEF Promise!vars, Mail, Delivered, Promised

(* The same files and numbers are the same store.                             *)
LEMMA MailSame ==
    ASSUME Mail' = Mail, sent' = sent
    PROVE  UNCHANGED Promise!vars
  BY DEF Promise!vars, Mail

(* What a message promises says which message it is.                          *)
LEMMA PromisedMsg ==
    ASSUME NEW x
    PROVE  /\ Promised(x).msg = x.text
           /\ Promised(x).read = (x.info.name \in Users /\ x.info.read = 1)
           /\ Promised(x).replies = x.info.nReplys
  BY DEF Promised

(* No two files of a folder hold the text of the same request.                *)
OneText(D) == \A x, y \in D : x.text = y.text /\ x.text # 0 => x = y

LEMMA TextsDiffer ==
    ASSUME OneFileEach, Told, NEW f \in Folders
    PROVE  OneText(dir[f])
  <1>1. \A x \in dir[f] : x.text # 0 => x.text = x.msg
    BY DEF Told
  <1>2. QED
    BY <1>1 DEF OneText, OneFileEach, OneFile

(* A file without text promises nothing, whether it comes, changes or goes.   *)
LEMMA PromisedNothing ==
    ASSUME NEW D, NEW w, w.text = 0
    PROVE  /\ Delivered(D \cup {w}) = Delivered(D)
           /\ Delivered(D \ {w}) = Delivered(D)
  BY DEF Delivered

LEMMA PromisedFirst ==
    ASSUME NEW D, NEW z
    PROVE  Delivered(D \cup {z}) =
             IF z.text = 0 THEN Delivered(D) ELSE Delivered(D) \cup {Promised(z)}
  BY DEF Delivered

(* One with a text stands for a promise of its own.                           *)
LEMMA PromisedOther ==
    ASSUME NEW D, OneText(D), NEW w \in D, w.text # 0, NEW z, z.text # 0
    PROVE  /\ Promised(w) \in Delivered(D)
           /\ Delivered((D \ {w}) \cup {z}) =
                (Delivered(D) \ {Promised(w)}) \cup {Promised(z)}
           /\ Delivered(D \ {w}) = Delivered(D) \ {Promised(w)}
  <1>1. \A x \in D : Promised(x) = Promised(w) => x = w
    <2> SUFFICES ASSUME NEW x \in D, Promised(x) = Promised(w) PROVE x = w
      OBVIOUS
    <2>1. x.text = w.text
      BY PromisedMsg
    <2>2. QED
      BY <2>1 DEF OneText
  <1>2. QED
    BY <1>1 DEF Delivered

(* What is promised of a new message, of one that was read, and of one that   *)
(* was answered.                                                              *)
LEMMA PromisedNew ==
    ASSUME NEW j, NEW z, z.text = j.num, z.info = NewInfo(j)
    PROVE  Promised(z) = [msg |-> j.num, read |-> FALSE, replies |-> 0]
  <1>1. z.info.read = 0 /\ z.info.nReplys = 0
    BY DEF NewInfo
  <1>2. (z.info.name \in Users /\ z.info.read = 1) = FALSE
    BY <1>1
  <1>3. QED
    BY <1>1, <1>2, Zenon DEF Promised

LEMMA PromisedSame ==
    ASSUME NEW w, NEW z, z.text = w.text, z.info.name = w.info.name,
           z.info.nReplys = w.info.nReplys,
           w.info.name \in Users => z.info.read = w.info.read
    PROVE  Promised(z) = Promised(w)
  <1>1. (z.info.name \in Users /\ z.info.read = 1)
          = (w.info.name \in Users /\ w.info.read = 1)
    OBVIOUS
  <1>2. QED
    BY <1>1 DEF Promised

LEMMA PromisedRead ==
    ASSUME NEW w, NEW z, z.text = w.text, z.info.name = w.info.name,
           z.info.nReplys = w.info.nReplys, w.info.name \in Users,
           w.info.read = 0, z.info.read = 1
    PROVE  /\ Promised(z) = [Promised(w) EXCEPT !.read = TRUE]
           /\ ~ Promised(w).read
  <1>1. /\ (w.info.name \in Users /\ w.info.read = 1) = FALSE
        /\ (z.info.name \in Users /\ z.info.read = 1) = TRUE
    OBVIOUS
  <1>2. PICK t : t = TRUE
    OBVIOUS
  <1>3. PICK f : f = FALSE
    OBVIOUS
  <1>4. Promised(w) = [msg |-> w.text, read |-> f, replies |-> w.info.nReplys]
    BY <1>1, <1>3, Zenon DEF Promised
  <1>5. Promised(z) = [msg |-> w.text, read |-> t, replies |-> w.info.nReplys]
    BY <1>1, <1>2, Zenon DEF Promised
  <1>6. Promised(z) = [Promised(w) EXCEPT !.read = t]
    BY <1>4, <1>5
  <1>7. ~ Promised(w).read
    BY <1>1, Zenon DEF Promised
  <1>8. QED
    BY <1>2, <1>6, <1>7

LEMMA PromisedReply ==
    ASSUME NEW w, NEW z, z.text = w.text, z.info.name = w.info.name,
           z.info.nReplys = w.info.nReplys + 1,
           w.info.name \in Users => z.info.read = w.info.read
    PROVE  Promised(z) = [Promised(w) EXCEPT !.replies = @ + 1]
  <1>1. (z.info.name \in Users /\ z.info.read = 1)
          = (w.info.name \in Users /\ w.info.read = 1)
    OBVIOUS
  <1>2. PICK b : b = (w.info.name \in Users /\ w.info.read = 1)
    OBVIOUS
  <1>3. Promised(w) = [msg |-> w.text, read |-> b, replies |-> w.info.nReplys]
    BY <1>2 DEF Promised
  <1>4. Promised(z) = [msg |-> w.text, read |-> b, replies |-> w.info.nReplys + 1]
    BY <1>1, <1>2 DEF Promised
  <1>5. QED
    BY <1>3, <1>4

(* What a file that takes the place of another makes of the store.            *)
LEMMA SwappedMail ==
    ASSUME TypeOK, OneFileEach, Told, NEW g, NEW w, NEW z, Swapped(g, w, z)
    PROVE  /\ g \in Folders
           /\ w.text = 0 /\ z.text = 0 => Mail' = Mail
           /\ w.text = 0 /\ z.text # 0 =>
                Mail' = [Mail EXCEPT ![g] = @ \cup {Promised(z)}]
           /\ w.text # 0 /\ z.text # 0 =>
                /\ Promised(w) \in Mail[g]
                /\ Mail' = [Mail EXCEPT ![g] = (@ \ {Promised(w)}) \cup {Promised(z)}]
  <1>1. g \in Folders /\ w \in dir[g]
    BY DEF Swapped
  <1>2. \A f \in Folders :
          dir'[f] = IF f = g THEN (dir[f] \ {w}) \cup {z} ELSE dir[f]
    BY SwappedAt
  <1>3. PICK D : D = dir[g]
    OBVIOUS
  <1>4. dir'[g] = (D \ {w}) \cup {z} /\ w \in D /\ OneText(D)
    BY <1>1, <1>2, <1>3, TextsDiffer
  <1>5. Mail' = [Mail EXCEPT ![g] = Delivered((D \ {w}) \cup {z})]
    <2>1. Mail' = [f \in Folders |-> Delivered(dir'[f])]
      BY MailIs
    <2>2. \A f \in Folders : dir'[f] = IF f = g THEN (D \ {w}) \cup {z} ELSE dir[f]
      BY <1>2, <1>4
    <2>3. QED
      BY <1>1, <2>1, <2>2 DEF Mail
  <1>6. Mail[g] = Delivered(D)
    BY <1>1, <1>3 DEF Mail
  <1>7. CASE w.text = 0
    <2>1. /\ z.text = 0 => Delivered((D \ {w}) \cup {z}) = Mail[g]
          /\ z.text # 0 =>
               Delivered((D \ {w}) \cup {z}) = Mail[g] \cup {Promised(z)}
      <3>1. /\ z.text = 0 => Delivered((D \ {w}) \cup {z}) = Delivered(D)
            /\ z.text # 0 =>
                 Delivered((D \ {w}) \cup {z}) = Delivered(D) \cup {Promised(z)}
        <4>1. Delivered(D \ {w}) = Delivered(D)
          BY <1>7, PromisedNothing
        <4>2. Delivered((D \ {w}) \cup {z}) =
                IF z.text = 0 THEN Delivered(D \ {w})
                ELSE Delivered(D \ {w}) \cup {Promised(z)}
          BY PromisedFirst
        <4>3. QED
          BY <4>1, <4>2
      <3>2. QED
        BY <1>6, <3>1
    <2>2. [Mail EXCEPT ![g] = Mail[g]] = Mail
      BY <1>1 DEF Mail
    <2>3. QED
      BY <1>1, <1>5, <1>7, <2>1, <2>2
  <1>8. CASE w.text # 0
    <2>1. z.text # 0 =>
            /\ Promised(w) \in Mail[g]
            /\ Delivered((D \ {w}) \cup {z}) =
                 (Mail[g] \ {Promised(w)}) \cup {Promised(z)}
      <3>1. z.text # 0 =>
              /\ Promised(w) \in Delivered(D)
              /\ Delivered((D \ {w}) \cup {z}) =
                   (Delivered(D) \ {Promised(w)}) \cup {Promised(z)}
        BY <1>4, <1>8, PromisedOther
      <3>2. QED
        BY <1>6, <3>1
    <2>2. QED
      BY <1>1, <1>5, <1>8, <2>1
  <1>9. QED
    BY <1>7, <1>8

(* The same text and the same promise: the store is the same.                 *)
LEMMA SameMail ==
    ASSUME TypeOK, OneFileEach, Told, NEW g, NEW w, NEW z, Swapped(g, w, z),
           SameText(w, z), w.text # 0 => Promised(z) = Promised(w)
    PROVE  UNCHANGED Promise!vars
  <1>1. z.text = w.text /\ sent' = sent
    BY DEF SameText
  <1>2. CASE w.text = 0
    BY <1>1, <1>2, SwappedMail, MailSame
  <1>3. CASE w.text # 0
    <2>1. /\ g \in Folders /\ Promised(w) \in Mail[g]
          /\ Mail' = [Mail EXCEPT ![g] = (@ \ {Promised(w)}) \cup {Promised(z)}]
      BY <1>1, <1>3, SwappedMail
    <2>2. (Mail[g] \ {Promised(w)}) \cup {Promised(z)} = Mail[g]
      BY <1>3, <2>1
    <2>3. Mail' = Mail
      BY <2>1, <2>2 DEF Mail
    <2>4. QED
      BY <1>1, <2>3, MailSame
  <1>4. QED
    BY <1>2, <1>3

(* enviar and responder deliver when they write the text.                     *)
LEMMA WriteDelivers ==
    ASSUME NEW k, OneChild(k), OneInv(k), Write(k)
    PROVE  Promise!Next
  <1>0. PICK j : j = job[k]
    OBVIOUS
  <1>1. /\ Base /\ Data /\ k \in Children /\ TypeOK /\ Opening(j) /\ OneFileEach
        /\ Told /\ NumbersOnce /\ EverSent /\ j \in JobStates /\ j.pc = "write"
    BY <1>0
    DEF OneInv, OneChild, Base, CountInv, StoreInv, TypeInv, TypeOK, Data, JobInv, Write
  <1>2. PICK w, z : /\ Swapped(j.folder, w, z) /\ w.msg = j.num
                    /\ NewText(w, z) /\ z.info = NewInfo(j)
    BY <1>0, <1>1, WriteSwaps
  <1>3. PICK g, m : g = j.folder /\ m = j.num
    OBVIOUS
  <1>4. /\ g \in Folders /\ w \in dir[g]
        /\ sent' = sent \cup {m} /\ z.text = m
    BY <1>2, <1>3 DEF Swapped, NewText
  <1>5. m \notin sent /\ m \in 1..MaxRequests
    <2>1. m \in Nat /\ served \in Nat /\ MaxRequests \in Nat
      BY <1>1, <1>3, BoundsAssumption DEF JobStates, TypeOK, BoundsAssumption
    <2>2. m \notin sent /\ 1 <= m /\ m <= served /\ served <= MaxRequests
      BY <1>0, <1>1, <1>3 DEF EverSent, NumbersOnce
    <2>3. QED
      BY <2>1, <2>2
  <1>6. w.text = 0 /\ z.text # 0
    BY <1>1, <1>2, <1>3, <1>4, <1>5 DEF Told
  <1>7. Promised(z) = [msg |-> m, read |-> FALSE, replies |-> 0]
    BY <1>2, <1>3, <1>4, PromisedNew
  <1>8. Mail' = [Mail EXCEPT ![g] =
                   @ \cup {[msg |-> m, read |-> FALSE, replies |-> 0]}]
    <2>1. Mail' = [Mail EXCEPT ![g] = @ \cup {Promised(z)}]
      BY <1>1, <1>2, <1>3, <1>6, SwappedMail
    <2>2. QED
      BY <1>7, <2>1
  <1>9. Promise!Deliver(g, m)
    BY <1>4, <1>5, <1>8 DEF Promise!Deliver, Mail
  <1>10. QED
    BY <1>4, <1>5, <1>9 DEF Promise!Next

(* ler marks a direct message as read; responder counts a reply; to the       *)
(* readers of a group's message nothing is promised.                          *)
LEMMA RenameTells ==
    ASSUME NEW k, OneChild(k), OneInv(k), Rename(k)
    PROVE  Promise!Next \/ UNCHANGED Promise!vars
  <1>0. PICK j : j = job[k]
    OBVIOUS
  <1>1. /\ Base /\ Data /\ k \in Children /\ TypeOK /\ Found(j) /\ OneFileEach
        /\ j \in JobStates /\ GoodJob(j) /\ GoodSelection(j) /\ j.pc = "rename"
        /\ Flags(j) /\ Holding(j) /\ Users \cap Groups = {} /\ Told
    BY <1>0
    DEF OneInv, OneChild, Base, CountInv, StoreInv, TypeInv, TypeOK, Data, JobInv,
        Rename, Selections, Holding
  <1>2. CASE UNCHANGED dir
    <2>1. Mail' = Mail
      BY <1>2 DEF Mail
    <2>2. sent' = sent
      BY DEF Rename, history
    <2>3. QED
      BY <2>1, <2>2, MailSame
  <1>3. ASSUME NEW w, NEW z, Selected(j) = {w}, Swapped(j.folder, w, z),
               z.info = Renamed(j), SameText(w, z), w.text # 0,
               j.req.command = "ler" => j.sel.read = 0
        PROVE  Promise!Next \/ UNCHANGED Promise!vars
    <2>1. PICK g : g = j.folder
      OBVIOUS
    <2>2. /\ g \in Folders /\ Promised(w) \in Mail[g] /\ sent' = sent
          /\ Mail' = [Mail EXCEPT ![g] = (@ \ {Promised(w)}) \cup {Promised(z)}]
      BY <1>1, <1>3, <2>1, SwappedMail DEF SameText
    <2>3. /\ w.info = j.sel.info /\ w.info \in FileInfo /\ z.text = w.text
          /\ w \in dir[g]
      BY <1>1, <1>3, <2>1, SelectedType DEF File, Swapped, SameText
    <2>4. w.info.name \in Users =>
            /\ w.info.name = j.req.user
            /\ j.sel.read = w.info.read
      BY <1>1, <1>3, <2>3 DEF Found, GoodSelection, GoodJob
    <2>5. CASE j.req.command = "ler" /\ w.info.name \notin Users
      <3>1. z.info = [w.info EXCEPT !.read = j.flag]
        BY <1>3, <2>3, <2>5 DEF Renamed
      <3>2. Promised(z) = Promised(w)
        BY <2>3, <2>5, <3>1, PromisedSame DEF FileInfo
      <3>3. QED
        BY <1>1, <1>3, <3>2, SameMail
    <2>6. CASE j.req.command = "ler" /\ w.info.name \in Users
      <3>1. z.info = [w.info EXCEPT !.read = j.flag] /\ j.flag = 1 /\ w.info.read = 0
        BY <1>1, <1>3, <2>3, <2>4, <2>6 DEF Renamed, Flags
      <3>2. /\ Promised(z) = [Promised(w) EXCEPT !.read = TRUE]
            /\ ~ Promised(w).read
        BY <2>3, <2>6, <3>1, PromisedRead DEF FileInfo
      <3>3. Promise!MarkRead(g, Promised(w))
        BY <2>2, <3>2 DEF Promise!MarkRead, Promise!Replace, Mail
      <3>4. QED
        BY <2>2, <3>3 DEF Promise!Next, Mail
    <2>7. CASE j.req.command = "responder"
      <3>1. z.info = [w.info EXCEPT !.read = j.sel.read, !.nReplys = @ + 1]
        BY <1>3, <2>3, <2>7 DEF Renamed
      <3>2. Promised(z) = [Promised(w) EXCEPT !.replies = @ + 1]
        BY <2>3, <2>4, <3>1, PromisedReply DEF FileInfo
      <3>3. Promise!CountReply(g, Promised(w))
        BY <2>2, <3>2 DEF Promise!CountReply, Promise!Replace, Mail
      <3>4. QED
        BY <2>2, <3>3 DEF Promise!Next, Mail
    <2>8. QED
      BY <1>1, <2>5, <2>6, <2>7 DEF GoodJob
  <1>4. ASSUME NEW w, NEW z, Swapped(j.folder, w, z), SameText(w, z), w.text = 0
        PROVE  UNCHANGED Promise!vars
    BY <1>1, <1>4, SameMail
  <1>5. QED
    BY <1>0, <1>1, <1>2, <1>3, <1>4, RenameSwaps

(* remover removes.                                                           *)
LEMMA UnlinkRemoves ==
    ASSUME NEW k, OneChild(k), OneInv(k), Unlink(k)
    PROVE  Promise!Next \/ UNCHANGED Promise!vars
  <1>1. /\ Base /\ Data /\ k \in Children /\ TypeOK /\ Found(job[k])
        /\ OneFileEach /\ OneFolder /\ Told
    BY DEF OneInv, OneChild, Base, CountInv, StoreInv, TypeInv, Data, JobInv
  <1>2. PICK g : g = job[k].folder
    OBVIOUS
  <1>3. PICK w : Deleted(g, w)
    BY <1>1, <1>2, UnlinkDeletes
  <1>4. PICK D : D = dir[g]
    OBVIOUS
  <1>5. /\ g \in Folders /\ w \in D /\ OneText(D) /\ sent' = sent
    BY <1>1, <1>3, <1>4, TextsDiffer DEF Deleted
  <1>6. Mail' = [Mail EXCEPT ![g] = Delivered(D \ {w})] /\ Mail[g] = Delivered(D)
    <2>1. \A f \in Folders : dir'[f] = IF f = g THEN dir[f] \ {w} ELSE dir[f]
      BY <1>1, <1>3, DeletedAt
    <2>2. \A f \in Folders : dir'[f] = IF f = g THEN D \ {w} ELSE dir[f]
      BY <1>4, <2>1
    <2>3. QED
      BY <1>4, <1>5, <2>2, MailIs DEF Mail
  <1>7. CASE w.text = 0
    <2>1. Delivered(D \ {w}) = Mail[g]
      BY <1>6, <1>7, PromisedNothing
    <2>2. [Mail EXCEPT ![g] = Mail[g]] = Mail
      BY <1>5 DEF Mail
    <2>3. QED
      BY <1>5, <1>6, <2>1, <2>2, MailSame
  <1>8. CASE w.text # 0
    <2>0. Promised(w) \in Delivered(D) /\ Delivered(D \ {w}) = Delivered(D) \ {Promised(w)}
      BY <1>5, <1>8, PromisedOther
    <2>1. Promised(w) \in Mail[g] /\ Mail' = [Mail EXCEPT ![g] = @ \ {Promised(w)}]
      BY <1>5, <1>6, <2>0
    <2>2. Promise!Remove(g, Promised(w))
      BY <1>5, <2>1 DEF Promise!Remove, Mail
    <2>3. QED
      BY <1>5, <2>1, <2>2 DEF Promise!Next, Mail
  <1>9. QED
    BY <1>7, <1>8

(* Every step is one of the store that is promised, or leaves it alone.       *)
LEMMA MailStep ==
    ASSUME NEW k, OneChild(k), OneInv(k), [Next]_vars
    PROVE  [Promise!Next]_(Promise!vars)
  <1>1. /\ Base /\ Children = {k} /\ k \in Children /\ TypeInv /\ TypeOK
        /\ OneFileEach /\ Told /\ Found(job[k]) /\ job[k] \in JobStates
    BY DEF OneInv, OneChild, Base, CountInv, StoreInv, TypeInv, TypeOK, JobInv, Data
  <1>2. ASSUME UNCHANGED <<dir, sent>> PROVE UNCHANGED Promise!vars
    <2>1. Mail' = Mail
      BY <1>2 DEF Mail
    <2>2. QED
      BY <1>2, <2>1, MailSame
  <1>3. CASE Create(k)
    <2>1. CASE job[k].folder \in exists
      <3>1. PICK n : n = NewFile(job[k], job[k].num)
        OBVIOUS
      <3>2. Made(job[k]) /\ sent' = sent /\ n.text = 0
        BY <1>1, <1>3, <2>1, <3>1, CreateMakes DEF Made, NewFile
      <3>3. PICK g : g = job[k].folder
        OBVIOUS
      <3>4. \A f \in Folders : dir'[f] = IF f = g THEN dir[f] \cup {n} ELSE dir[f]
        BY <1>1, <3>1, <3>2, <3>3, MadeAt
      <3>5. \A f \in Folders : Delivered(dir'[f]) = Delivered(dir[f])
        <4>1. \A D : Delivered(D \cup {n}) = Delivered(D)
          BY <3>2, PromisedNothing
        <4>2. QED
          BY <3>4, <4>1
      <3>6. Mail' = Mail
        BY <3>5, MailIs DEF Mail
      <3>7. QED
        BY <3>2, <3>6, MailSame
    <2>2. CASE job[k].folder \notin exists
      BY <1>2, <1>3, <2>2 DEF Create
    <2>3. QED
      BY <2>1, <2>2
  <1>4. CASE Mark(k)
    <2>1. CASE UNCHANGED dir
      BY <1>2, <1>4, <2>1 DEF Mark, history
    <2>2. ASSUME NEW w, NEW z, Swapped(job[k].folder, w, z), z.info = w.info,
                 SameText(w, z)
          PROVE  UNCHANGED Promise!vars
      <3>1. Promised(z) = Promised(w)
        BY <2>2, PromisedSame DEF SameText
      <3>2. QED
        BY <1>1, <2>2, <3>1, SameMail
    <2>3. QED
      BY <1>1, <1>4, <2>1, <2>2, MarkSwaps
  <1>5. CASE Rename(k)
    BY <1>5, RenameTells
  <1>6. CASE Unlink(k)
    BY <1>6, UnlinkRemoves
  <1>7. CASE Write(k)
    BY <1>7, WriteDelivers
  <1>8. CASE Sort(k)
    <2>1. PICK i : i = [job[k] EXCEPT !.list = {}]
      OBVIOUS
    <2>2. UNCHANGED <<dir, sent>>
      BY <1>1, <1>8, <2>1, SortShape DEF history
    <2>3. QED
      BY <1>2, <2>2
  <1>9. CASE ReadDir(k) \/ CheckRead(k)
    BY <1>2, <1>9 DEF ReadDir, CheckRead, history
  <1>10. ASSUME \/ Resolve(k) \/ Scan(k) \/ Count(k) \/ Read(k) \/ Reply(k)
                \/ \E r \in ClientRequests : Begin(k, r)
         PROVE  UNCHANGED <<dir, sent>>
    BY <1>10 DEF Resolve, Scan, Count, Read, Reply, Begin, history
  <1>11. CASE Tick \/ Stop \/ Wait \/ UNCHANGED vars
    BY <1>2, <1>11 DEF Tick, Stop, Wait, vars, history
  <1>12. QED
    BY <1>1, <1>2, <1>3, <1>4, <1>5, <1>6, <1>7, <1>8, <1>9, <1>10, <1>11
    DEF Next, Handle

(* With one child at a time the directory of files is the store that is       *)
(* promised: a message is delivered once, into one folder, is marked, counted *)
(* and removed by itself, and no step of a handler touches another one, kills *)
(* of the daemon included.                                                    *)
THEOREM InboxImplementsMailStore ==
    ASSUME NEW k, OneChild(k)
    PROVE  Spec => ImplementsMailStore
  <1>1. Init => OneInv(k)
    BY OneInvInit
  <1>2. OneInv(k) /\ [Next]_vars => OneInv(k)'
    BY OneInvNext
  <1>3. Init => Promise!Init
    BY DEF Init, Promise!Init, Delivered
  <1>4. OneInv(k) /\ [Next]_vars => [Promise!Next]_(Promise!vars)
    BY MailStep
  <1>5. QED
    BY <1>1, <1>2, <1>3, <1>4, PTL DEF Spec, ImplementsMailStore, Promise!Spec

------------------------------------------------------------------------------
(* Where the entries of a trailer end.  EntriesEnd is recursive: induction is *)
(* a fact about sets of numbers here, from the least-number principle.        *)

(* Every non-empty set of naturals has a smallest element.                    *)
LEMMA Smallest ==
    ASSUME NEW T \in SUBSET Nat, T # {}
    PROVE  \E n \in T : \A m \in T : n <= m
  <1>1. PICK R : R = OpToRel(<, Nat)
    OBVIOUS
  <1>2. IsWellFoundedOn(R, Nat)
    BY <1>1, NatLessThanWellFounded, Zenon
  <1>3. PICK n \in T : \A m \in T : ~ (<<m, n>> \in R)
    BY <1>2, WFMin, Zenon
  <1>4. \A m \in Nat : m < n => <<m, n>> \in R
    BY <1>1 DEF OpToRel
  <1>5. \A m \in T : n <= m
    <2> SUFFICES ASSUME NEW m \in T PROVE n <= m
      OBVIOUS
    <2>1. m \in Nat /\ n \in Nat
      OBVIOUS
    <2>2. ~ (m < n)
      BY <1>3, <1>4, <2>1
    <2>3. QED
      BY <2>1, <2>2
  <1>6. QED
    BY <1>5

(* Induction over the natural numbers, as a fact about sets of them.          *)
LEMMA Inductive ==
    ASSUME NEW S \in SUBSET Nat, 0 \in S, \A n \in S : n + 1 \in S
    PROVE  S = Nat
  <1> SUFFICES ASSUME Nat \ S # {} PROVE FALSE
    OBVIOUS
  <1>1. PICK n \in Nat \ S : \A m \in Nat \ S : n <= m
    BY Smallest
  <1>2. n - 1 \in S
    BY <1>1
  <1>3. QED
    BY <1>1, <1>2

(* e gives the ends of the first n entries of trailer t.                      *)
EndsAt(t, e, n) ==
    /\ e \in [0..n -> Nat]
    /\ \A k \in 0..n : e[k] = IF k = 0 THEN 0 ELSE e[k - 1] + NameLen[t[k]] + 1

(* The recursion of EntriesEnd has a solution ...                             *)
LEMMA EndsExist ==
    ASSUME NEW t \in Seq(Users)
    PROVE  \E e : EndsAt(t, e, Len(t))
  <1> DEFINE S == {n \in Nat : n <= Len(t) => \E e : EndsAt(t, e, n)}
  <1>1. 0 \in S
    <2>1. EndsAt(t, [k \in 0..0 |-> 0], 0)
      BY DEF EndsAt
    <2>2. QED
      BY <2>1
  <1>2. ASSUME NEW n \in S, n + 1 <= Len(t)
        PROVE  \E e : EndsAt(t, e, n + 1)
    <2>1. n \in Nat /\ Len(t) \in Nat
      OBVIOUS
    <2>2. PICK e : EndsAt(t, e, n)
      BY <1>2, <2>1
    <2>3. PICK d : d = [k \in 0..(n + 1) |->
                          IF k = n + 1 THEN e[n] + NameLen[t[n + 1]] + 1 ELSE e[k]]
      OBVIOUS
    <2>4. NameLen[t[n + 1]] \in Nat
      BY <1>2, <2>1, NamesAssumption DEF NamesAssumption
    <2>5. e[n] \in Nat /\ \A k \in 0..n : e[k] \in Nat
      BY <2>1, <2>2 DEF EndsAt
    <2>6. /\ d \in [0..(n + 1) -> Nat]
          /\ d[n + 1] = e[n] + NameLen[t[n + 1]] + 1
          /\ \A k \in 0..n : d[k] = e[k]
      BY <2>1, <2>3, <2>4, <2>5
    <2>7. \A k \in 0..(n + 1) :
            d[k] = IF k = 0 THEN 0 ELSE d[k - 1] + NameLen[t[k]] + 1
      <3> SUFFICES ASSUME NEW k \in 0..(n + 1)
                   PROVE  d[k] = IF k = 0 THEN 0 ELSE d[k - 1] + NameLen[t[k]] + 1
        OBVIOUS
      <3>1. CASE k = n + 1
        BY <2>1, <2>6, <3>1
      <3>2. CASE k # n + 1
        <4>1. k \in 0..n
          BY <2>1, <3>2
        <4>2. k # 0 => k - 1 \in 0..n
          BY <2>1, <4>1
        <4>3. e[k] = IF k = 0 THEN 0 ELSE e[k - 1] + NameLen[t[k]] + 1
          BY <2>2, <4>1 DEF EndsAt
        <4>4. QED
          BY <2>6, <4>1, <4>2, <4>3
      <3>3. QED
        BY <3>1, <3>2
    <2>8. QED
      BY <2>6, <2>7 DEF EndsAt
  <1>3. S = Nat
    <2>1. S \in SUBSET Nat
      OBVIOUS
    <2>2. \A n \in S : n + 1 \in S
      BY <1>2
    <2> HIDE DEF S
    <2>3. QED
      BY <1>1, <2>1, <2>2, Inductive
  <1>4. Len(t) \in Nat /\ Len(t) <= Len(t)
    OBVIOUS
  <1>5. QED
    BY <1>3, <1>4

(* ... so EntriesEnd is one.                                                  *)
LEMMA EndsAre ==
    ASSUME NEW t \in Seq(Users)
    PROVE  EndsAt(t, EntriesEnd(t), Len(t))
  <1>1. PICK e : EndsAt(t, e, Len(t))
    BY EndsExist
  <1>2. e = [k \in 0..Len(t) |-> IF k = 0 THEN 0 ELSE e[k - 1] + NameLen[t[k]] + 1]
    BY <1>1 DEF EndsAt
  <1>3. PICK d : d = EntriesEnd(t)
    OBVIOUS
  <1>4. d = CHOOSE End : End = [k \in 0..Len(t) |->
              IF k = 0 THEN 0 ELSE End[k - 1] + NameLen[t[k]] + 1]
    BY <1>3 DEF EntriesEnd
  <1>5. d = [k \in 0..Len(t) |-> IF k = 0 THEN 0 ELSE d[k - 1] + NameLen[t[k]] + 1]
    BY <1>2, <1>4
  <1>6. \A k \in 0..Len(t) :
          d[k] = IF k = 0 THEN 0 ELSE d[k - 1] + NameLen[t[k]] + 1
    BY <1>5
  <1>7. Len(t) \in Nat /\ \A k \in 1..Len(t) : NameLen[t[k]] \in Nat
    BY NamesAssumption DEF NamesAssumption
  <1> DEFINE S == {n \in Nat : n <= Len(t) => d[n] \in Nat}
  <1>8. 0 \in S
    BY <1>6, <1>7
  <1>9. \A n \in S : n + 1 \in S
    <2> SUFFICES ASSUME NEW n \in S, n + 1 <= Len(t)
                 PROVE  d[n + 1] \in Nat
      OBVIOUS
    <2>0. n \in Nat /\ d[n] \in Nat
      BY <1>7
    <2>1. n + 1 \in 1..Len(t) /\ (n + 1) - 1 = n
      BY <1>7, <2>0
    <2>2. d[n + 1] = d[n] + NameLen[t[n + 1]] + 1
      BY <1>6, <1>7, <2>0, <2>1
    <2>3. QED
      BY <1>7, <2>0, <2>1, <2>2
  <1>10. S = Nat
    <2>1. S \in SUBSET Nat
      OBVIOUS
    <2> HIDE DEF S
    <2>2. QED
      BY <1>8, <1>9, <2>1, Inductive
  <1>11. \A k \in 0..Len(t) : d[k] \in Nat
    BY <1>7, <1>10
  <1>12. d \in [0..Len(t) -> Nat]
    BY <1>5, <1>11
  <1>13. QED
    BY <1>3, <1>6, <1>12 DEF EndsAt

(* Every name of a trailer ends by the end of the last one.                   *)
LEMMA EndCovers ==
    ASSUME NEW t \in Seq(Users)
    PROVE  /\ EntriesEnd(t)[Len(t)] \in Nat
           /\ \A k \in 1..Len(t) :
                /\ EntriesEnd(t)[k] \in Nat \ {0}
                /\ NameLen[t[k]] + 1 <= EntriesEnd(t)[Len(t)]
  <1>1. PICK d : d = EntriesEnd(t)
    OBVIOUS
  <1>2. /\ \A k \in 0..Len(t) : d[k] \in Nat
        /\ \A k \in 0..Len(t) :
             d[k] = IF k = 0 THEN 0 ELSE d[k - 1] + NameLen[t[k]] + 1
    BY <1>1, EndsAre DEF EndsAt
  <1>3. Len(t) \in Nat /\ \A k \in 1..Len(t) : NameLen[t[k]] \in Nat
    BY NamesAssumption DEF NamesAssumption
  <1>4. \A k \in 1..Len(t) :
          k - 1 \in 0..Len(t) /\ d[k - 1] \in Nat /\ d[k] = d[k - 1] + NameLen[t[k]] + 1
    BY <1>2, <1>3
  <1> DEFINE S == {n \in Nat : n <= Len(t) =>
                     \A k \in 1..n : NameLen[t[k]] + 1 <= d[n]}
  <1>5. 0 \in S
    OBVIOUS
  <1>6. \A n \in S : n + 1 \in S
    <2> SUFFICES ASSUME NEW n \in S, n + 1 <= Len(t), NEW k \in 1..(n + 1)
                 PROVE  NameLen[t[k]] + 1 <= d[n + 1]
      OBVIOUS
    <2>1. /\ n \in Nat /\ n + 1 \in 1..Len(t) /\ (n + 1) - 1 = n /\ k \in 1..Len(t)
          /\ \A i \in 1..n : NameLen[t[i]] + 1 <= d[n]
      BY <1>3
    <2>2. d[n] \in Nat /\ d[n + 1] = d[n] + NameLen[t[n + 1]] + 1
      BY <1>4, <2>1
    <2>3. NameLen[t[k]] \in Nat /\ NameLen[t[n + 1]] \in Nat
      BY <1>3, <2>1
    <2>4. k = n + 1 \/ NameLen[t[k]] + 1 <= d[n]
      BY <2>1
    <2>5. QED
      BY <2>2, <2>3, <2>4
  <1>7. S = Nat
    <2>1. S \in SUBSET Nat
      OBVIOUS
    <2> HIDE DEF S
    <2>2. QED
      BY <1>5, <1>6, <2>1, Inductive
  <1>8. \A k \in 1..Len(t) : NameLen[t[k]] + 1 <= d[Len(t)]
    BY <1>3, <1>7
  <1>9. ASSUME NEW k \in 1..Len(t) PROVE d[k] \in Nat \ {0}
    <2>1. /\ d[k - 1] \in Nat /\ NameLen[t[k]] \in Nat
          /\ d[k] = d[k - 1] + NameLen[t[k]] + 1
      BY <1>3, <1>4
    <2>2. QED
      BY <2>1
  <1>10. d[Len(t)] \in Nat
    BY <1>2, <1>3
  <1>11. QED
    BY <1>1, <1>8, <1>9, <1>10

------------------------------------------------------------------------------
(* What the name of a group's message counts is in its file.                  *)

(* In a file that has its text, the entries begin where the text ends; the    *)
(* read field of a group's message counts the entry of one of its readers at  *)
(* most, and that entry is in the file.                                       *)
Covers(x) ==
    x.text # 0 =>
      /\ x.base = x.info.tam
      /\ \/ x.info.read <= 0
         \/ \E n \in 1..Len(x.trailer) : x.info.read <= NameLen[x.trailer[n]] + 1

AllCovered == \A g \in Groups : \A x \in dir[g] : Covers(x)

(* The read field in memory is no more than the one in the name ...           *)
Seen(j) ==
    /\ (Holding(j) /\ j.sel.info.name \in Groups) => j.sel.read <= j.sel.info.read
    /\ j.pc \in {"count", "sort"} =>
         \A p \in j.names \cup j.list : p[2].read <= p[2].info.read

(* ... and what ler is to put there counts the entry that it wrote.           *)
Entered(j) ==
    (/\ j.pc = "rename" /\ j.req.command = "ler"
     /\ j.sel.info.name \in Groups /\ j.sel.read = 0 /\ j.flag # 0)
    => /\ j.flag = NameLen[j.req.user] + 1
       /\ \A x \in Selected(j) :
            \E n \in 1..Len(x.trailer) : x.trailer[n] = j.req.user

ReadInv(k) == OneInv(k) /\ AllCovered /\ Seen(job[k]) /\ Entered(job[k])

(* Only a file that is new or changed has to be looked at.                    *)
LEMMA CoveredStep ==
    ASSUME AllCovered,
           \A f \in Groups : \A y \in dir'[f] : y \in dir[f] \/ Covers(y)
    PROVE  AllCovered'
  BY DEF AllCovered, Covers

(* A selection that stays was seen.                                           *)
LEMMA SeenKept ==
    ASSUME NEW j, NEW i, Seen(j), i.sel = j.sel, Holding(i) => Holding(j),
           i.pc \notin {"count", "sort"}
    PROVE  Seen(i)
  BY DEF Seen

(* Steps that change neither a file nor the selection.                        *)
LEMMA QuietRead ==
    ASSUME NEW k, NEW i, ReadInv(k), job'[k] = i, UNCHANGED dir, Seen(i),
           ~ (/\ i.pc = "rename" /\ i.req.command = "ler"
              /\ i.sel.info.name \in Groups /\ i.flag # 0)
    PROVE  AllCovered' /\ Seen(job[k])' /\ Entered(job[k])'
  <1>1. AllCovered'
    BY DEF ReadInv, AllCovered, Covers
  <1>2. Seen(job[k])'
    BY DEF Seen, Holding
  <1>3. Entered(job[k])'
    BY DEF Entered
  <1>4. QED
    BY <1>1, <1>2, <1>3

(* What checkIfRead gives is no more than the read field it was called with:  *)
(* the name it finds ends beyond the text.                                    *)
LEMMA AnswerLess ==
    ASSUME TypeOK, NEW f \in Folders, NEW info \in FileInfo, NEW user \in Users
    PROVE  CheckIfRead(f, info, user) <= info.read
  <1>1. info.read \in Nat \cup {-1}
    BY DEF FileInfo, ReadField
  <1>2. CASE Named(f, info) = {} \/ info.read < 0
    <2>1. CheckIfRead(f, info, user) = -1
      BY <1>2 DEF CheckIfRead
    <2>2. QED
      BY <1>1, <2>1
  <1>3. CASE /\ ~ (Named(f, info) = {} \/ info.read < 0)
             /\ ~ \E x \in Named(f, info) : NamedWithin(user, x, info.read)
    <2>1. CheckIfRead(f, info, user) = 0
      BY <1>3 DEF CheckIfRead
    <2>2. QED
      BY <1>1, <1>3, <2>1
  <1>4. ASSUME ~ (Named(f, info) = {} \/ info.read < 0),
               NEW x \in Named(f, info), NamedWithin(user, x, info.read)
        PROVE  CheckIfRead(f, info, user) <= info.read
    <2>1. CheckIfRead(f, info, user) = 1
      BY <1>4 DEF CheckIfRead
    <2>2. /\ x \in File /\ x.info = info /\ x.base \in Nat /\ info.tam \in Nat
          /\ x.trailer \in Seq(Users)
      BY DEF Named, TypeOK, File, FileInfo
    <2>3. PICK n \in 1..Len(x.trailer) :
            /\ x.base + EntriesEnd(x.trailer)[n - 1] + 1 >= info.tam
            /\ x.base + EntriesEnd(x.trailer)[n] <= info.tam + info.read
      BY <1>4, <2>2 DEF NamedWithin
    <2>4. PICK d : d = EntriesEnd(x.trailer)
      OBVIOUS
    <2>5. /\ Len(x.trailer) \in Nat /\ n \in 0..Len(x.trailer)
          /\ n - 1 \in 0..Len(x.trailer) /\ x.trailer[n] \in Users /\ n # 0
      BY <2>2
    <2>6. EndsAt(x.trailer, d, Len(x.trailer))
      BY <2>2, <2>4, EndsAre
    <2>7. d[n - 1] \in Nat /\ d[n] = d[n - 1] + NameLen[x.trailer[n]] + 1
      BY <2>5, <2>6 DEF EndsAt
    <2>8. NameLen[x.trailer[n]] \in Nat \ {0}
      BY <2>5, NamesAssumption DEF NamesAssumption
    <2>9. 1 <= info.read
      BY <1>1, <2>2, <2>3, <2>4, <2>7, <2>8
    <2>10. QED
      BY <2>1, <2>9
  <1>5. QED
    BY <1>2, <1>3, <1>4

(* The list is made of what was read and of what checkIfRead gave.            *)
LEMMA ListReads ==
    ASSUME NEW k, OneChild(k), ReadInv(k), ReadDir(k) \/ CheckRead(k)
    PROVE  AllCovered' /\ Seen(job[k])' /\ Entered(job[k])'
  <1>0. PICK j : j = job[k]
    OBVIOUS
  <1>1. /\ TypeInv /\ TypeOK /\ j \in JobStates /\ GoodJob(j) /\ k \in Children
        /\ UNCHANGED dir /\ j.pc = "sort" /\ Seen(j)
    BY <1>0
    DEF ReadInv, OneInv, OneChild, Base, IdInv, TypeInv, TypeOK, ReadDir, CheckRead
  <1>2. ASSUME NEW i, Become(k, i) PROVE job'[k] = i
    BY <1>1, <1>2, OneJob
  <1>3. \A p \in j.names \cup j.list : p[2].read <= p[2].info.read
    BY <1>1 DEF Seen
  <1>4. ASSUME NEW i, job'[k] = i, i.pc = "sort",
               \A p \in i.names \cup i.list : p[2].read <= p[2].info.read
        PROVE  AllCovered' /\ Seen(job[k])' /\ Entered(job[k])'
    BY <1>1, <1>4, QuietRead DEF Seen, Holding
  <1>5. CASE ReadDir(k)
    <2>1. PICK f \in j.left :
            Become(k, [j EXCEPT
              !.left = @ \ {f},
              !.names = {p \in Entries(f) : p[2].info.name # j.req.user},
              !.list = @ \cup {p \in Entries(f) : p[2].info.name = j.req.user}])
      BY <1>0, <1>5 DEF ReadDir
    <2>2. PICK i : i = [j EXCEPT
              !.left = @ \ {f},
              !.names = {p \in Entries(f) : p[2].info.name # j.req.user},
              !.list = @ \cup {p \in Entries(f) : p[2].info.name = j.req.user}]
      OBVIOUS
    <2>3. /\ job'[k] = i /\ i.pc = "sort"
          /\ i.names \subseteq Entries(f) /\ i.list \subseteq j.list \cup Entries(f)
      BY <1>1, <1>2, <2>1, <2>2 DEF JobStates
    <2>4. ASSUME NEW p \in Entries(f) PROVE p[2].read <= p[2].info.read
      <3>1. PICK q \in Listing({f}) : p = <<q[1], Entry(q[2])>>
        BY DEF Entries
      <3>2. PICK x \in dir[f] : q = <<f, x>>
        BY DEF Listing
      <3>3. p[2].read = x.info.read /\ p[2].info = x.info
        BY <3>1, <3>2 DEF Entry
      <3>4. x.info.read \in Nat \cup {-1}
        <4>1. f \in Folders
          BY <1>1 DEF JobStates
        <4>2. x \in File
          BY <1>1, <4>1 DEF TypeOK
        <4>3. QED
          BY <4>2 DEF File, FileInfo, ReadField
      <3>5. QED
        BY <3>3, <3>4
    <2>5. \A p \in i.names \cup i.list : p[2].read <= p[2].info.read
      BY <1>3, <2>3, <2>4
    <2>6. QED
      BY <1>4, <2>3, <2>5
  <1>6. CASE CheckRead(k)
    <2>1. PICK q \in j.names :
            Become(k, [j EXCEPT
              !.names = @ \ {q},
              !.list = @ \cup {<<q[1], [q[2] EXCEPT
                          !.read = CheckIfRead(q[1], q[2].info, j.req.user)]>>}])
      BY <1>0, <1>6, Zenon DEF CheckRead
    <2>2. PICK e : e = [q[2] EXCEPT
                          !.read = CheckIfRead(q[1], q[2].info, j.req.user)]
      OBVIOUS
    <2>3. PICK i : i = [j EXCEPT !.names = @ \ {q},
                                 !.list = @ \cup {<<q[1], e>>}]
      OBVIOUS
    <2>4. job'[k] = i
      BY <1>2, <2>1, <2>2, <2>3
    <2>5. /\ i.pc = "sort" /\ i.names \subseteq j.names
          /\ i.list \subseteq j.list \cup {<<q[1], e>>}
      BY <1>1, <2>3 DEF JobStates
    <2>6. q[1] \in Folders /\ q[2] \in Selection /\ q[2].info \in FileInfo
      BY <1>1 DEF JobStates, Selection
    <2>7. j.req.user \in Users
      BY <1>1 DEF GoodJob, ConcordiaRequest
    <2>8. e.info = q[2].info /\ e.read = CheckIfRead(q[1], q[2].info, j.req.user)
      BY <2>2, <2>6 DEF Selection
    <2>9. e.read <= e.info.read
      BY <1>1, <2>6, <2>7, <2>8, AnswerLess
    <2>10. \A p \in i.names \cup i.list : p[2].read <= p[2].info.read
      BY <1>3, <2>5, <2>9
    <2>11. QED
      BY <1>4, <2>4, <2>5, <2>10
  <1>7. QED
    BY <1>5, <1>6

(* What is selected is an entry of the list.                                  *)
LEMMA SortReads ==
    ASSUME NEW k, OneChild(k), ReadInv(k), Sort(k)
    PROVE  AllCovered' /\ Seen(job[k])' /\ Entered(job[k])'
  <1>0. PICK l, j : l = job[k] /\ j = [job[k] EXCEPT !.list = {}]
    OBVIOUS
  <1>1. /\ TypeInv /\ TypeOK /\ l \in JobStates /\ GoodJob(l) /\ k \in Children
        /\ Seen(l)
    BY <1>0 DEF ReadInv, OneInv, OneChild, Base, IdInv, TypeInv, TypeOK
  <1>2. /\ j \in JobStates /\ j.req = l.req /\ l.pc = "sort" /\ UNCHANGED dir
    BY <1>0, <1>1, SortShape
  <1>3. \/ Exit(k)
        \/ Become(k, [j EXCEPT !.pc = "reply"])
        \/ /\ j.req.command # "listar"
           /\ \E p \in l.list :
                Become(k, [j EXCEPT !.pc = AfterSort(j.req.command), !.sel = p[2],
                                    !.folder = FolderOf(p[2].info, j.req.user)])
    BY <1>0, <1>1, SortShape
  <1>4. ASSUME NEW i, Become(k, i) PROVE job'[k] = i
    BY <1>1, <1>4, OneJob
  <1>5. CASE Exit(k)
    <2>1. job'[k] = IdleJob
      BY <1>4, <1>5 DEF Exit
    <2>2. QED
      BY <1>2, <2>1, QuietRead DEF Seen, Holding, IdleJob
  <1>6. ASSUME Become(k, [j EXCEPT !.pc = "reply"])
        PROVE  AllCovered' /\ Seen(job[k])' /\ Entered(job[k])'
    <2>1. PICK i : i = [j EXCEPT !.pc = "reply"]
      OBVIOUS
    <2>2. job'[k] = i /\ i.pc = "reply"
      BY <1>2, <1>4, <1>6, <2>1 DEF JobStates
    <2>3. QED
      BY <1>2, <2>2, QuietRead DEF Seen, Holding
  <1>7. ASSUME j.req.command # "listar", NEW p \in l.list,
               Become(k, [j EXCEPT !.pc = AfterSort(j.req.command), !.sel = p[2],
                                   !.folder = FolderOf(p[2].info, j.req.user)])
        PROVE  AllCovered' /\ Seen(job[k])' /\ Entered(job[k])'
    <2>1. PICK i : i = [j EXCEPT !.pc = AfterSort(j.req.command), !.sel = p[2],
                                 !.folder = FolderOf(p[2].info, j.req.user)]
      OBVIOUS
    <2>2. job'[k] = i
      BY <1>4, <1>7, <2>1
    <2>3. j.req.command \in {"ler", "responder", "remover"}
      BY <1>1, <1>2, <1>7 DEF GoodJob, ConcordiaRequest, Commands
    <2>4. i.pc = AfterSort(j.req.command) /\ i.sel = p[2]
      BY <1>2, <2>1 DEF JobStates
    <2>5. i.pc \in {"read", "scan", "unlink"}
      BY <2>3, <2>4 DEF AfterSort
    <2>6. Seen(i)
      BY <1>1, <1>2, <2>4, <2>5 DEF Seen
    <2>7. QED
      BY <1>2, <2>2, <2>5, <2>6, QuietRead
  <1>8. QED
    BY <1>3, <1>5, <1>6, <1>7

(* ler writes its entry, or has nothing to count.                             *)
LEMMA MarkReads ==
    ASSUME NEW k, OneChild(k), ReadInv(k), Mark(k)
    PROVE  AllCovered' /\ Seen(job[k])' /\ Entered(job[k])'
  <1>0. PICK j : j = job[k]
    OBVIOUS
  <1>1. /\ TypeInv /\ TypeOK /\ j \in JobStates /\ k \in Children
        /\ j.pc = "mark" /\ AllCovered /\ Seen(j) /\ UNCHANGED exists /\ GoodJob(j)
    BY <1>0
    DEF ReadInv, OneInv, OneChild, Base, IdInv, TypeInv, TypeOK, Mark, store
  <1>2. ASSUME NEW i, Become(k, i) PROVE job'[k] = i
    BY <1>1, <1>2, OneJob
  <1>3. j.req.user \in Users
    BY <1>1 DEF GoodJob, ConcordiaRequest
  <1>4. ASSUME NEW w \in Selected(j),
               dir' = [dir EXCEPT ![j.folder] =
                        Put(@, [w EXCEPT !.trailer = Append(@, j.req.user)])],
               Become(k, [j EXCEPT !.pc = "rename",
                            !.flag = NameLen[j.req.user] + 1 + j.sel.read])
        PROVE  AllCovered' /\ Seen(job[k])' /\ Entered(job[k])'
    <2>1. /\ j.folder \in Folders /\ w \in dir[j.folder] /\ w \in File
          /\ w.info = j.sel.info /\ w.trailer \in Seq(Users)
      BY <1>1, SelectedType DEF File
    <2>2. PICK z : z = [w EXCEPT !.trailer = Append(@, j.req.user)]
      OBVIOUS
    <2>3. /\ z.info = w.info /\ z.trailer = Append(w.trailer, j.req.user)
          /\ z.text = w.text /\ z.base = w.base
          /\ Len(z.trailer) = Len(w.trailer) + 1 /\ Len(w.trailer) \in Nat
          /\ z.trailer[Len(w.trailer) + 1] = j.req.user
          /\ \A n \in 1..Len(w.trailer) : z.trailer[n] = w.trailer[n]
      BY <1>3, <2>1, <2>2 DEF File
    <2>4. \A f \in Folders :
            dir'[f] = IF f = j.folder THEN Put(dir[f], z) ELSE dir[f]
      BY <1>1, <1>4, <2>2 DEF TypeOK
    <2>5. AllCovered'
      <3>1. j.folder \in Groups => Covers(z)
        BY <1>1, <2>1, <2>3 DEF AllCovered, Covers
      <3>2. \A f \in Groups : \A y \in dir'[f] : y \in dir[f] \/ Covers(y)
        BY <2>4, <3>1 DEF Put, Folders
      <3>3. QED
        BY <1>1, <3>2, CoveredStep
    <2>6. PICK i : i = [j EXCEPT !.pc = "rename",
                           !.flag = NameLen[j.req.user] + 1 + j.sel.read]
      OBVIOUS
    <2>7. job'[k] = i
      BY <1>2, <1>4, <2>6
    <2>8. /\ i.pc = "rename" /\ i.sel = j.sel /\ i.req = j.req
          /\ i.folder = j.folder /\ i.flag = NameLen[j.req.user] + 1 + j.sel.read
      BY <1>1, <2>6 DEF JobStates
    <2>9. Seen(i)
      BY <1>1, <2>8, SeenKept DEF Holding
    <2>10. \A x \in Selected(i)' : x = z
      <3>1. Selected(i)' \subseteq {x \in dir'[j.folder] : x.info = j.sel.info}
        BY <2>8 DEF Selected, Named
      <3>2. \A x \in dir'[j.folder] : x.info = j.sel.info => x = z
        <4>1. dir'[j.folder] = Put(dir[j.folder], z)
          BY <2>1, <2>4
        <4>2. z.info = j.sel.info
          BY <2>1, <2>3
        <4>3. QED
          BY <4>1, <4>2 DEF Put
      <3>3. QED
        BY <3>1, <3>2
    <2>11. \E n \in 1..Len(z.trailer) : z.trailer[n] = j.req.user
      BY <2>3
    <2>12. j.sel.read = 0 => i.flag = NameLen[j.req.user] + 1
      BY <1>3, <2>8, NamesAssumption DEF NamesAssumption
    <2>13. Entered(i)'
      BY <2>8, <2>10, <2>11, <2>12 DEF Entered
    <2>14. QED
      BY <2>5, <2>7, <2>9, <2>13 DEF Seen, Holding, Entered, Selected, Named
  <1>5. ASSUME UNCHANGED dir, Become(k, [j EXCEPT !.pc = "rename", !.flag = 0])
        PROVE  AllCovered' /\ Seen(job[k])' /\ Entered(job[k])'
    <2>1. PICK i : i = [j EXCEPT !.pc = "rename", !.flag = 0]
      OBVIOUS
    <2>2. job'[k] = i /\ i.sel = j.sel /\ i.flag = 0 /\ i.pc = "rename"
      BY <1>1, <1>2, <1>5, <2>1 DEF JobStates
    <2>3. Seen(i)
      BY <1>1, <2>2, SeenKept DEF Holding
    <2>4. QED
      BY <1>5, <2>2, <2>3, QuietRead
  <1>6. ASSUME UNCHANGED dir, Exit(k)
        PROVE  AllCovered' /\ Seen(job[k])' /\ Entered(job[k])'
    <2>1. job'[k] = IdleJob
      BY <1>2, <1>6 DEF Exit
    <2>2. QED
      BY <1>6, <2>1, QuietRead DEF Seen, Holding, IdleJob
  <1>7. QED
    BY <1>0, <1>4, <1>5, <1>6 DEF Mark

(* ler renames to what counts its entry; responder to a 1 that stands for an  *)
(* entry it has found, or a 0.                                                *)
LEMMA RenameReads ==
    ASSUME NEW k, OneChild(k), ReadInv(k), Rename(k)
    PROVE  AllCovered' /\ Seen(job[k])' /\ Entered(job[k])'
  <1>0. PICK j : j = job[k]
    OBVIOUS
  <1>1. /\ TypeInv /\ TypeOK /\ j \in JobStates /\ k \in Children /\ Holding(j)
        /\ j.pc = "rename" /\ AllCovered /\ Seen(j) /\ Entered(j) /\ GoodJob(j)
        /\ Base /\ Found(j)
    BY <1>0
    DEF ReadInv, OneInv, OneChild, Base, IdInv, TypeInv, TypeOK, Rename, Holding,
        JobInv
  <1>2. PICK w : /\ Selected(j) = {w} /\ w \in dir[j.folder] /\ w \in File
                 /\ w.info = j.sel.info /\ j.folder \in Folders
                 /\ j.sel \in Selection /\ j.folder = w.info.name
    BY <1>0, <1>1, SelectedOne
  <1>3. AllCovered'
    <2>1. CASE UNCHANGED dir
      BY <1>1, <2>1 DEF AllCovered, Covers
    <2>2. ASSUME j.req.command = "ler" => j.sel.read = 0,
                 dir' = [dir EXCEPT ![j.folder] =
                          Put(@ \ {w}, [w EXCEPT !.info = Renamed(j)])]
          PROVE  AllCovered'
      <3>1. PICK z : z = [w EXCEPT !.info = Renamed(j)]
        OBVIOUS
      <3>2. /\ z.info = Renamed(j) /\ z.trailer = w.trailer
            /\ z.text = w.text /\ z.base = w.base
        BY <1>2, <3>1 DEF File
      <3>3. \A f \in Folders :
              dir'[f] = IF f = j.folder THEN Put(dir[f] \ {w}, z) ELSE dir[f]
        BY <1>1, <2>2, <3>1 DEF TypeOK
      <3>4. ASSUME j.folder \in Groups, z.text # 0 PROVE Covers(z)
        <4>1. Covers(w)
          BY <1>1, <1>2, <3>4 DEF AllCovered
        <4>2. j.sel.info \in FileInfo
          BY <1>2 DEF Selection
        <4>6. z.base = z.info.tam
          <5>1. z.info.tam = w.info.tam
            BY <1>2, <3>2, <4>2 DEF Renamed, FileInfo
          <5>2. QED
            BY <3>2, <3>4, <4>1, <5>1 DEF Covers
        <4>3. CASE j.req.command = "ler"
          <5>1. z.info.read = j.flag
            BY <3>2, <4>2, <4>3 DEF Renamed, FileInfo
          <5>2. j.flag = 0 \/ j.flag = NameLen[j.req.user] + 1
            BY <1>1, <1>2, <2>2, <3>4, <4>3 DEF Entered
          <5>3. CASE j.flag = 0
            BY <4>6, <5>1, <5>3 DEF Covers
          <5>4. CASE j.flag # 0
            <6>1. PICK n \in 1..Len(w.trailer) : w.trailer[n] = j.req.user
              BY <1>1, <1>2, <2>2, <3>4, <4>3, <5>4 DEF Entered
            <6>2. j.flag <= NameLen[w.trailer[n]] + 1
              <7>1. j.flag \in Nat
                BY <1>1 DEF JobStates
              <7>2. QED
                BY <5>2, <5>4, <6>1, <7>1
            <6>3. QED
              BY <3>2, <4>6, <5>1, <6>1, <6>2 DEF Covers
          <5>5. QED
            BY <5>3, <5>4
        <4>4. CASE j.req.command = "responder"
          <5>1. z.info.read = j.sel.read
            BY <3>2, <4>2, <4>4 DEF Renamed, FileInfo
          <5>2. /\ j.sel.read <= w.info.read
                /\ j.sel.read \in Int /\ w.info.read \in Int
            BY <1>1, <1>2, <3>4, <4>2 DEF Seen, Selection, FileInfo, ReadField
          <5>3. CASE w.info.read <= 0
            BY <4>6, <5>1, <5>2, <5>3 DEF Covers
          <5>4. ASSUME NEW n \in 1..Len(w.trailer),
                       w.info.read <= NameLen[w.trailer[n]] + 1
                PROVE  Covers(z)
            <6>1. NameLen[w.trailer[n]] \in Nat
              BY <1>2, NamesAssumption DEF NamesAssumption, File
            <6>2. j.sel.read <= NameLen[w.trailer[n]] + 1
              BY <5>2, <5>4, <6>1
            <6>3. QED
              BY <3>2, <4>6, <5>1, <6>2 DEF Covers
          <5>5. QED
            BY <3>2, <3>4, <4>1, <5>3, <5>4 DEF Covers
        <4>5. QED
          BY <1>1, <4>3, <4>4 DEF GoodJob
      <3>5. \A f \in Groups : \A y \in dir'[f] : y \in dir[f] \/ Covers(y)
        <4>1. j.folder \in Groups => Covers(z)
          BY <3>4 DEF Covers
        <4>2. QED
          BY <3>3, <4>1 DEF Put, Folders
      <3>6. QED
        BY <1>1, <3>5, CoveredStep
    <2>3. QED
      BY <1>0, <1>2, <2>1, <2>2 DEF Rename
  <1>4. PICK i : i = [j EXCEPT !.pc = "reply"]
    OBVIOUS
  <1>5. job'[k] = i /\ i.pc = "reply"
    BY <1>0, <1>1, <1>4, OneJob DEF Rename, JobStates
  <1>6. Seen(job[k])' /\ Entered(job[k])'
    BY <1>5 DEF Seen, Holding, Entered
  <1>7. QED
    BY <1>3, <1>6

(* A file that is made has no text yet ...                                    *)
LEMMA CreateReads ==
    ASSUME NEW k, OneChild(k), ReadInv(k), Create(k)
    PROVE  AllCovered' /\ Seen(job[k])' /\ Entered(job[k])'
  <1>0. PICK j : j = job[k]
    OBVIOUS
  <1>1. /\ TypeInv /\ TypeOK /\ j \in JobStates /\ k \in Children
        /\ j.pc = "create" /\ AllCovered /\ Seen(j) /\ GoodJob(j) /\ Base
    BY <1>0
    DEF ReadInv, OneInv, OneChild, Base, IdInv, TypeInv, TypeOK, Create
  <1>2. ASSUME NEW i, Become(k, i) PROVE job'[k] = i
    BY <1>1, <1>2, OneJob
  <1>3. CASE j.folder \notin exists
    <2>1. job'[k] = IdleJob /\ UNCHANGED dir
      BY <1>0, <1>2, <1>3 DEF Create, Exit
    <2>2. QED
      BY <2>1, QuietRead DEF Seen, Holding, IdleJob
  <1>4. CASE j.folder \in exists
    <2>1. Made(j) /\ Become(k, [j EXCEPT !.pc = "write", !.fd = j.num])
      BY <1>0, <1>1, <1>4, CreateMakes
    <2>2. PICK n : n = NewFile(j, j.num)
      OBVIOUS
    <2>3. Covers(n)
      BY <2>2 DEF Covers, NewFile
    <2>4. \A f \in Folders :
            dir'[f] = IF f = j.folder THEN dir[f] \cup {n} ELSE dir[f]
      BY <1>1, <2>1, <2>2, MadeAt
    <2>5. AllCovered'
      BY <1>1, <2>3, <2>4, CoveredStep DEF Folders
    <2>6. PICK i : i = [j EXCEPT !.pc = "write", !.fd = j.num]
      OBVIOUS
    <2>7. job'[k] = i /\ i.pc = "write" /\ i.req = j.req /\ i.sel = j.sel
      BY <1>1, <1>2, <2>1, <2>6 DEF JobStates
    <2>8. Seen(i)
      BY <1>1, <2>7, SeenKept DEF Holding
    <2>9. QED
      BY <2>5, <2>7, <2>8 DEF Seen, Holding, Entered
  <1>5. QED
    BY <1>3, <1>4

(* ... and when it has, it counts no reader.                                  *)
LEMMA WriteReads ==
    ASSUME NEW k, OneChild(k), ReadInv(k), Write(k)
    PROVE  AllCovered' /\ Seen(job[k])' /\ Entered(job[k])'
  <1>0. PICK j : j = job[k]
    OBVIOUS
  <1>1. /\ TypeInv /\ TypeOK /\ j \in JobStates /\ k \in Children
        /\ j.pc = "write" /\ AllCovered /\ Seen(j) /\ GoodJob(j) /\ Base /\ Opening(j)
    BY <1>0
    DEF ReadInv, OneInv, OneChild, Base, IdInv, TypeInv, TypeOK, Write, JobInv
  <1>2. PICK w, z : /\ Swapped(j.folder, w, z) /\ w \in File
                    /\ w.base = 0 /\ w.trailer = <<>> /\ z = Filled(w, j.num)
                    /\ z.info = w.info /\ w.info = NewInfo(j)
    BY <1>0, <1>1, WriteSwaps
  <1>3. z.base = z.info.tam /\ z.info.read = 0
    <2>1. /\ EntriesEnd(w.trailer)[Len(w.trailer)] = 0
          /\ w.info.tam \in Nat
      <3>1. w.trailer \in Seq(Users) /\ Len(w.trailer) = 0
        BY <1>2
      <3>2. EndsAt(w.trailer, EntriesEnd(w.trailer), Len(w.trailer))
        BY <3>1, EndsAre
      <3>3. w.info.tam \in Nat
        BY <1>2 DEF File, FileInfo
      <3>4. QED
        BY <3>1, <3>2, <3>3 DEF EndsAt
    <2>2. z = [w EXCEPT !.text = j.num, !.base = w.info.tam, !.trailer = <<>>]
      BY <1>2, <2>1 DEF Filled
    <2>3. w \in File
      BY <1>2
    <2>4. z.base = w.info.tam
      BY <2>2, <2>3 DEF File
    <2>5. z.info = w.info /\ w.info = NewInfo(j)
      BY <1>2
    <2>6. NewInfo(j).read = 0
      BY DEF NewInfo
    <2>7. QED
      BY <2>4, <2>5, <2>6
  <1>4. AllCovered'
    <2>1. Covers(z)
      BY <1>3 DEF Covers
    <2>2. \A f \in Folders :
            dir'[f] = IF f = j.folder THEN (dir[f] \ {w}) \cup {z} ELSE dir[f]
      <3>1. TypeOK /\ Swapped(j.folder, w, z)
        BY <1>1, <1>2
      <3>2. QED
        BY <3>1, SwappedAt
    <2>3. QED
      BY <1>1, <2>1, <2>2, CoveredStep DEF Folders
  <1>5. PICK i : i = [j EXCEPT !.pc = IF j.req.command = "enviar"
                                      THEN "reply" ELSE "rename"]
    OBVIOUS
  <1>6. job'[k] = i
    BY <1>0, <1>1, <1>5, OneJob DEF Write
  <1>7. /\ i.pc = IF j.req.command = "enviar" THEN "reply" ELSE "rename"
        /\ i.req = j.req /\ i.sel = j.sel
    BY <1>1, <1>5 DEF JobStates
  <1>8. j.req.command # "ler"
    BY <1>1 DEF GoodJob
  <1>9. Seen(i)
    BY <1>1, <1>7, SeenKept DEF Holding
  <1>10. QED
    BY <1>4, <1>6, <1>7, <1>8, <1>9 DEF Seen, Holding, Entered

(* The other steps of a child select no message and write no read field.      *)
LEMMA LookReads ==
    ASSUME NEW k, OneChild(k), ReadInv(k),
           \/ \E r \in ClientRequests : Begin(k, r)
           \/ Resolve(k) \/ Scan(k) \/ Count(k) \/ Read(k) \/ Reply(k)
    PROVE  AllCovered' /\ Seen(job[k])' /\ Entered(job[k])'
  <1>0. PICK j : j = job[k]
    OBVIOUS
  <1>1. /\ TypeInv /\ TypeOK /\ j \in JobStates /\ k \in Children
        /\ Seen(j) /\ GoodJob(j) /\ UNCHANGED dir /\ Users \cap Groups = {}
    BY <1>0
    DEF ReadInv, OneInv, OneChild, Base, IdInv, TypeInv, TypeOK, Begin, Resolve,
        Scan, Count, Read, Reply
  <1>2. ASSUME NEW i, Become(k, i) PROVE job'[k] = i
    BY <1>1, <1>2, OneJob
  <1>3. CASE Exit(k)
    <2>1. job'[k] = IdleJob
      BY <1>2, <1>3 DEF Exit
    <2>2. QED
      BY <1>1, <2>1, QuietRead DEF Seen, Holding, IdleJob
  <1>4. ASSUME NEW r \in ClientRequests, Begin(k, r)
        PROVE  AllCovered' /\ Seen(job[k])' /\ Entered(job[k])'
    <2>1. PICK i : i = [IdleJob EXCEPT
                          !.pc = IF r.command = "enviar" THEN "resolve" ELSE "count",
                          !.req = r,
                          !.num = served + 1,
                          !.folders = UserFolders(r.user)]
      OBVIOUS
    <2>2. /\ job'[k] = i /\ i.pc \in {"resolve", "count"}
          /\ i.names = {} /\ i.list = {}
      BY <1>2, <1>4, <2>1 DEF Begin, IdleJob
    <2>3. QED
      BY <1>1, <2>2, QuietRead DEF Seen, Holding
  <1>5. CASE Resolve(k)
    <2>1. ASSUME NEW f, Become(k, [j EXCEPT !.pc = "scan", !.folder = f])
          PROVE  AllCovered' /\ Seen(job[k])' /\ Entered(job[k])'
      <3>1. PICK i : i = [j EXCEPT !.pc = "scan", !.folder = f]
        OBVIOUS
      <3>2. job'[k] = i /\ i.pc = "scan" /\ i.req = j.req
        BY <1>1, <1>2, <2>1, <3>1 DEF JobStates
      <3>3. j.req.command = "enviar"
        BY <1>0, <1>1, <1>5 DEF Resolve, GoodJob
      <3>4. QED
        BY <1>1, <3>2, <3>3, QuietRead DEF Seen, Holding
    <2>2. QED
      BY <1>0, <1>3, <1>5, <2>1 DEF Resolve
  <1>6. CASE Scan(k)
    <2>1. PICK h : Become(k, [j EXCEPT !.pc = "create", !.id = h + 1, !.time = now])
      BY <1>0, <1>6 DEF Scan
    <2>2. PICK i : i = [j EXCEPT !.pc = "create", !.id = h + 1, !.time = now]
      OBVIOUS
    <2>3. /\ job'[k] = i /\ i.pc = "create" /\ i.req = j.req /\ i.sel = j.sel
          /\ j.pc = "scan"
      BY <1>0, <1>1, <1>2, <1>6, <2>1, <2>2 DEF JobStates, Scan
    <2>4. Seen(i)
      BY <1>1, <2>3, SeenKept DEF Holding
    <2>5. QED
      BY <1>1, <2>3, <2>4, QuietRead
  <1>7. CASE Count(k)
    <2>1. PICK n : Become(k, [j EXCEPT !.pc = "sort", !.cnt = n, !.left = j.folders])
      BY <1>0, <1>7 DEF Count
    <2>2. PICK i : i = [j EXCEPT !.pc = "sort", !.cnt = n, !.left = j.folders]
      OBVIOUS
    <2>3. /\ job'[k] = i /\ i.pc = "sort" /\ j.pc = "count"
          /\ i.names = j.names /\ i.list = j.list
      BY <1>0, <1>1, <1>2, <1>7, <2>1, <2>2 DEF JobStates, Count
    <2>4. QED
      BY <1>1, <2>3, QuietRead DEF Seen, Holding
  <1>8. CASE Read(k)
    <2>1. ASSUME j.sel.info.name = j.req.user,
                 Become(k, [j EXCEPT !.pc = "rename", !.flag = 1])
          PROVE  AllCovered' /\ Seen(job[k])' /\ Entered(job[k])'
      <3>1. PICK i : i = [j EXCEPT !.pc = "rename", !.flag = 1]
        OBVIOUS
      <3>2. job'[k] = i /\ i.req = j.req /\ i.sel = j.sel /\ i.pc = "rename"
        BY <1>1, <1>2, <2>1, <3>1 DEF JobStates
      <3>3. j.req.user \in Users
        BY <1>0, <1>1, <1>8 DEF Read, GoodJob, ConcordiaRequest
      <3>4. i.sel.info.name \notin Groups
        BY <1>1, <2>1, <3>2, <3>3
      <3>5. QED
        BY <1>1, <3>2, <3>4, QuietRead DEF Seen
    <2>2. ASSUME Become(k, [j EXCEPT !.pc = "mark"])
          PROVE  AllCovered' /\ Seen(job[k])' /\ Entered(job[k])'
      <3>1. PICK i : i = [j EXCEPT !.pc = "mark"]
        OBVIOUS
      <3>2. job'[k] = i /\ i.pc = "mark" /\ i.sel = j.sel
        BY <1>1, <1>2, <2>2, <3>1 DEF JobStates
      <3>3. Seen(i)
        BY <1>0, <1>1, <1>8, <3>2, SeenKept DEF Holding, Read
      <3>4. QED
        BY <1>1, <3>2, <3>3, QuietRead
    <2>3. QED
      BY <1>0, <1>3, <1>8, <2>1, <2>2 DEF Read
  <1>9. QED
    BY <1>3, <1>4, <1>5, <1>6, <1>7, <1>8 DEF Reply

(* Every step keeps the invariant.                                            *)
LEMMA ReadInvNext ==
    ASSUME NEW k, OneChild(k), ReadInv(k), [Next]_vars
    PROVE  ReadInv(k)'
  <1>1. OneInv(k)' /\ Children = {k} /\ TypeInv
    BY OneInvNext
    DEF ReadInv, OneInv, OneChild, Base, IdInv
  <1>2. CASE Unlink(k)
    <2>1. PICK j : j = job[k]
      OBVIOUS
    <2>2. \A f \in Folders : dir'[f] \subseteq dir[f]
      <3>1. TypeOK
        BY <1>1 DEF TypeInv
      <3>2. CASE UNCHANGED dir
        BY <3>2
      <3>3. CASE dir' = [dir EXCEPT ![j.folder] = @ \ Selected(j)]
        BY <3>1, <3>3 DEF TypeOK
      <3>4. QED
        BY <1>2, <2>1, <3>2, <3>3 DEF Unlink
    <2>3. AllCovered'
      BY <2>2, CoveredStep DEF ReadInv, Folders
    <2>4. job'[k].pc = "reply"
      BY <1>1, <1>2, OneJob DEF Unlink, TypeInv, TypeOK, JobStates
    <2>5. Seen(job[k])' /\ Entered(job[k])'
      BY <2>4 DEF Seen, Holding, Entered
    <2>6. QED
      BY <1>1, <2>3, <2>5 DEF ReadInv
  <1>3. CASE Stop
    <2>1. job'[k] = IdleJob /\ UNCHANGED dir
      BY <1>1, <1>3 DEF Stop
    <2>2. AllCovered' /\ Seen(job[k])' /\ Entered(job[k])'
      BY <2>1, QuietRead DEF Seen, Holding, IdleJob
    <2>3. QED
      BY <1>1, <2>2 DEF ReadInv
  <1>4. CASE Tick \/ UNCHANGED vars
    <2>1. UNCHANGED <<exists, dir, job>>
      BY <1>4 DEF Tick, vars, store
    <2>2. AllCovered' /\ Seen(job[k])' /\ Entered(job[k])'
      BY <2>1
      DEF ReadInv, AllCovered, Covers, Seen, Holding, Entered, Selected, Named
    <2>3. QED
      BY <1>1, <2>2 DEF ReadInv
  <1>5. CASE \/ ReadDir(k) \/ CheckRead(k) \/ Sort(k) \/ Mark(k) \/ Rename(k)
             \/ Create(k) \/ Write(k)
    BY <1>1, <1>5, ListReads, SortReads, MarkReads, RenameReads, CreateReads,
       WriteReads
    DEF ReadInv
  <1>6. CASE \/ \E r \in ClientRequests : Begin(k, r)
             \/ Resolve(k) \/ Scan(k) \/ Count(k) \/ Read(k) \/ Reply(k)
    BY <1>1, <1>6, LookReads DEF ReadInv
  <1>7. QED
    BY <1>1, <1>2, <1>3, <1>4, <1>5, <1>6 DEF Next, Handle, Wait

(* Once a message has its text, the bytes that the name of a group's message  *)
(* counts are in its file: ler writes its entry before it counts it, wherever *)
(* it is killed and whatever checkIfRead makes of its garbage, and            *)
(* responder's rename counts one byte at most, of an entry that is there.     *)
THEOREM ReadCountsEntries ==
    ASSUME NEW k, OneChild(k)
    PROVE  Spec => []ReadCountBounded
  <1>1. Init => ReadInv(k)
    <2> SUFFICES ASSUME Init PROVE ReadInv(k)
      OBVIOUS
    <2>1. OneInv(k)
      BY OneInvInit
    <2>2. job[k] = IdleJob /\ AllCovered
      BY DEF Init, OneChild, AllCovered, Folders
    <2>3. QED
      BY <2>1, <2>2 DEF ReadInv, Seen, Holding, Entered, IdleJob
  <1>2. ReadInv(k) /\ [Next]_vars => ReadInv(k)'
    BY ReadInvNext
  <1>3. ReadInv(k) => ReadCountBounded
    <2> SUFFICES ASSUME ReadInv(k), NEW g \in Groups, NEW x \in dir[g], x.text # 0
                 PROVE  x.info.tam + x.info.read <=
                          x.base + EntriesEnd(x.trailer)[Len(x.trailer)]
      BY DEF ReadCountBounded
    <2>1. x \in File /\ Covers(x)
      BY DEF ReadInv, OneInv, Base, IdInv, TypeInv, TypeOK, AllCovered, Folders
    <2>2. x.info.read \in Int /\ x.info.tam \in Nat /\ x.trailer \in Seq(Users)
      BY <2>1 DEF File, FileInfo, ReadField
    <2>3. /\ EntriesEnd(x.trailer)[Len(x.trailer)] \in Nat
          /\ \A n \in 1..Len(x.trailer) :
               NameLen[x.trailer[n]] + 1 <= EntriesEnd(x.trailer)[Len(x.trailer)]
      BY <2>2, EndCovers
    <2>4. \A n \in 1..Len(x.trailer) : NameLen[x.trailer[n]] \in Nat
      BY <2>2, NamesAssumption DEF NamesAssumption
    <2>5. QED
      BY <2>1, <2>2, <2>3, <2>4 DEF Covers
  <1>4. QED
    BY <1>1, <1>2, <1>3, PTL DEF Spec

==============================================================================
