----------------------------- MODULE InboxProofs -----------------------------
(* Theorems about Inbox for any number of users, groups, requests and         *)
(* children at a time, and wherever the daemon is killed: its types, what the *)
(* headers of messages keep, which replies they count, and that a text is     *)
(* lost only to one with the very same file name.                             *)
EXTENDS Inbox, FiniteSetTheorems, TLAPS

------------------------------------------------------------------------------
(* The type invariant.  What a child may do depends on what its request and   *)
(* its selection are at each point of its handler, so the inductive invariant *)
(* says that too.                                                             *)

GoodJob(j) ==
    /\ j \in JobStates
    /\ j.pc # "idle" => j.req \in ConcordiaRequest
    /\ j.pc \in {"resolve", "scan", "create"} /\ j.req.command = "enviar" =>
          j.req.dest \in Folders
    /\ j.pc = "resolve" => j.req.command = "enviar"
    /\ j.pc = "write" => j.folder \in Folders
    /\ j.pc \in {"scan", "create", "write"} =>
          \/ j.req.command = "enviar"
          \/ j.req.command = "responder" /\ j.sel \in Selection
    /\ j.pc \in {"count", "sort"} => j.req.command # "enviar"
    /\ j.pc \in {"read", "mark"} => j.req.command = "ler"
    /\ j.pc = "rename" => j.req.command \in {"ler", "responder"}
    /\ j.pc = "unlink" => j.req.command = "remover"
    /\ j.pc \in {"read", "mark", "rename", "unlink"} => j.sel \in Selection

TypeInv == TypeOK /\ \A c \in Children : GoodJob(job[c])

(* The requests of the client have the type of the struct they travel in.     *)
LEMMA RequestType ==
    ASSUME NEW r \in ClientRequests
    PROVE  /\ r \in ConcordiaRequest
           /\ r.command = "enviar" => r.dest \in Folders
  <1>0. \A n : n \in Lengths \cup Mids => n \in Nat
    BY BoundsAssumption DEF BoundsAssumption
  <1>1. CASE r \in [command : {"enviar"}, user : Users, dest : Folders,
                    len : Lengths, mid : {0}]
    BY <1>1, <1>0 DEF ConcordiaRequest, Commands
  <1>2. CASE r \in [command : {"listar"}, user : Users, dest : {None},
                    len : {0}, mid : {0}]
    BY <1>2 DEF ConcordiaRequest, Commands
  <1>3. CASE r \in [command : {"ler", "remover"}, user : Users, dest : {None},
                    len : {0}, mid : Mids]
    BY <1>3, <1>0 DEF ConcordiaRequest, Commands
  <1>4. CASE r \in [command : {"responder"}, user : Users, dest : {None},
                    len : Lengths, mid : Mids]
    BY <1>4, <1>0 DEF ConcordiaRequest, Commands
  <1>5. QED
    BY <1>1, <1>2, <1>3, <1>4 DEF ClientRequests

(* A child without a request has nothing to be wrong about.                   *)
LEMMA IdleJobGood == GoodJob(IdleJob)
  BY DEF GoodJob, IdleJob, JobStates

(* A step of one child leaves the local state of the others alone.            *)
LEMMA BecomeGood ==
    ASSUME NEW c \in Children, NEW j, TypeInv, GoodJob(j), Become(c, j)
    PROVE  /\ job' \in [Children -> JobStates]
           /\ \A d \in Children : GoodJob(job'[d])
  <1>1. job' \in [Children -> JobStates]
    BY DEF TypeInv, TypeOK, GoodJob, Become
  <1>2. \A d \in Children : job'[d] = IF d = c THEN j ELSE job[d]
    BY DEF TypeInv, TypeOK, Become
  <1>3. QED
    BY <1>1, <1>2 DEF TypeInv

(* The listing is finite, so that its number of entries is a number.          *)
LEMMA PairsFinite ==
    ASSUME NEW S, IsFiniteSet(S), NEW f
    PROVE  IsFiniteSet({<<f, x>> : x \in S})
  <1> DEFINE T == {<<f, x>> : x \in S}
  <1> DEFINE pair == [x \in S |-> <<f, x>>]
  <1>1. pair \in Surjection(S, T)
    BY DEF Surjection
  <1>2. QED
    BY <1>1, FS_Surjection

(* So is what a child finds in all the folders it may read.                   *)
LEMMA ListingFinite ==
    ASSUME TypeOK, NEW folders \in SUBSET Folders
    PROVE  IsFiniteSet(Listing(folders))
  <1> DEFINE There == folders \cap exists
  <1> DEFINE Parts == {{<<f, x>> : x \in dir[f]} : f \in There}
  <1> DEFINE part == [f \in There |-> {<<f, x>> : x \in dir[f]}]
  <1>1. IsFiniteSet(There)
    BY FS_Subset, NamesAssumption DEF NamesAssumption, TypeOK
  <1>2. part \in Surjection(There, Parts)
    BY DEF Surjection
  <1>3. IsFiniteSet(Parts)
    BY <1>1, <1>2, FS_Surjection
  <1>4. ASSUME NEW f \in There PROVE IsFiniteSet({<<f, x>> : x \in dir[f]})
    <2>1. IsFiniteSet(dir[f])
      BY DEF TypeOK
    <2>2. QED
      BY <2>1, PairsFinite
  <1>5. \A P \in Parts : IsFiniteSet(P)
    BY <1>4
  <1>6. IsFiniteSet(UNION Parts)
    BY <1>3, <1>5, FS_UNION
  <1>7. QED
    BY <1>6 DEF Listing

(* Writing or renaming one file keeps a directory a finite set of files.      *)
LEMMA PutType ==
    ASSUME NEW S \in SUBSET File, IsFiniteSet(S), NEW x \in File
    PROVE  Put(S, x) \in SUBSET File /\ IsFiniteSet(Put(S, x))
  <1>1. IsFiniteSet({y \in S : y.info # x.info})
    BY FS_Subset
  <1>2. QED
    BY <1>1, FS_AddElement DEF Put

(* So does every step that changes the directory of one folder.               *)
LEMMA DirType ==
    ASSUME TypeOK, NEW f \in Folders,
           NEW S \in SUBSET File, IsFiniteSet(S), dir' = [dir EXCEPT ![f] = S]
    PROVE  /\ dir' \in [Folders -> SUBSET File]
           /\ \A g \in Folders : IsFiniteSet(dir'[g])
  BY DEF TypeOK

(* The entries of a folder are typed, and each is made from a file in it.     *)
LEMMA EntriesType ==
    ASSUME TypeOK, NEW f \in Folders
    PROVE  /\ Entries(f) \in SUBSET (Folders \X Selection)
           /\ \A p \in Entries(f) : \E x \in dir[f] :
                 p = <<f, Entry(x)>> /\ x \in File /\ f \in exists
  <1>1. ASSUME NEW p \in Entries(f)
        PROVE  \E x \in dir[f] : p = <<f, Entry(x)>> /\ x \in File /\ f \in exists
    <2>1. PICK q \in Listing({f}) : p = <<q[1], Entry(q[2])>>
      BY <1>1 DEF Entries
    <2>2. PICK x \in dir[f] : q = <<f, x>> /\ f \in exists
      BY <2>1 DEF Listing
    <2>3. q[1] = f /\ q[2] = x
      BY <2>2
    <2>4. x \in File
      BY DEF TypeOK
    <2>5. QED
      BY <2>1, <2>2, <2>3, <2>4
  <1>2. \A x \in File : Entry(x) \in Selection
    BY DEF Entry, Selection, File, FileInfo
  <1>3. QED
    BY <1>1, <1>2

(* checkIfRead answers something that fits the read field.                    *)
LEMMA CheckType ==
    ASSUME NEW f, NEW info, NEW user
    PROVE  CheckIfRead(f, info, user) \in {-1, 0, 1}
  BY DEF CheckIfRead

(* The file enviar or responder opens is typed.                               *)
LEMMA NewFileType ==
    ASSUME TypeOK, NEW c \in Children, GoodJob(job[c]), job[c].pc = "create",
           job[c].folder \in exists, NEW m \in Opened(job[c])
    PROVE  m \in Nat /\ NewFile(job[c], m) \in File
  <1>1. NewInfo(job[c]) \in FileInfo
    BY DEF GoodJob, JobStates, NewInfo, FileInfo, ConcordiaRequest, Selection,
           ReadField
  <1>2. m \in Nat
    BY DEF Opened, GoodJob, JobStates, TypeOK, File
  <1>3. <<>> \in Seq(Users)
    OBVIOUS
  <1>4. QED
    BY <1>1, <1>2, <1>3 DEF NewFile, File

(* A file stays typed when its text is written.                               *)
LEMMA FilledType ==
    ASSUME NEW x \in File, NEW n \in Nat
    PROVE  Filled(x, n) \in File
  <1>1. x.info \in FileInfo /\ x.info.tam \in Nat /\ <<>> \in Seq(Users)
    BY DEF File, FileInfo
  <1>2. [x EXCEPT !.text = n] \in File
    BY DEF File
  <1>3. [x EXCEPT !.text = n, !.base = x.info.tam, !.trailer = <<>>] \in File
    BY <1>1 DEF File
  <1>4. QED
    BY <1>2, <1>3 DEF Filled

(* Writing the text changes neither the name nor the file.                    *)
LEMMA FilledKeeps ==
    ASSUME NEW x \in File, NEW n
    PROVE  /\ Filled(x, n).info = x.info
           /\ Filled(x, n).msg = x.msg
           /\ Filled(x, n).text = n
  BY DEF Filled, File

(* At the start there are no messages and no child is at work.                *)
THEOREM TypeInvInit == Init => TypeInv
  BY IdleJobGood, FS_EmptySet DEF Init, TypeInv, TypeOK, GoodJob

(* What is left of TypeInv when a step changes the local state of one child   *)
(* and nothing else.                                                          *)
LEMMA LocalStep ==
    ASSUME NEW c \in Children, NEW j, TypeInv, GoodJob(j), Become(c, j),
           UNCHANGED <<store, dir, counters, history>>
    PROVE  TypeInv'
  BY BecomeGood DEF TypeInv, TypeOK, store, counters, history

(* And when it changes the files of one folder too.                           *)
LEMMA FolderStep ==
    ASSUME NEW c \in Children, NEW j, TypeInv, GoodJob(j), Become(c, j),
           NEW f \in Folders, NEW S \in SUBSET File, IsFiniteSet(S),
           dir' = [dir EXCEPT ![f] = S],
           sent' \in SUBSET Nat, removed' \in SUBSET Nat,
           answers' \in SUBSET [reply : Nat, folder : Folders,
                                id : Nat, msg : Nat],
           UNCHANGED <<store, counters>>
    PROVE  TypeInv'
  <1>1. TypeOK
    BY DEF TypeInv
  <1>2. dir' \in [Folders -> SUBSET File] /\ \A g \in Folders : IsFiniteSet(dir'[g])
    BY <1>1, DirType
  <1>3. job' \in [Children -> JobStates] /\ \A d \in Children : GoodJob(job'[d])
    BY BecomeGood
  <1>4. QED
    BY <1>1, <1>2, <1>3 DEF TypeInv, TypeOK, store, counters

(* Selected files are files of an existing folder.                            *)
LEMMA SelectedType ==
    ASSUME TypeOK, NEW j \in JobStates, NEW x \in Selected(j)
    PROVE  /\ j.folder \in Folders
           /\ x \in dir[j.folder]
           /\ x \in File
           /\ x.info = j.sel.info
           /\ dir[j.folder] \in SUBSET File
           /\ IsFiniteSet(dir[j.folder])
  BY DEF Selected, Named, TypeOK

(* What sorting the list does to the child: it ends, has nothing to select,   *)
(* or takes one of the entries.                                               *)
LEMMA SortShape ==
    ASSUME NEW c \in Children, job[c] \in JobStates, Sort(c),
           NEW j, j = [job[c] EXCEPT !.list = {}]
    PROVE  /\ job[c].pc = "sort"
           /\ j \in JobStates
           /\ j.pc = "sort" /\ j.num = job[c].num /\ j.req = job[c].req
           /\ j.list = {} /\ j.names = {} /\ j.left = {} /\ job[c].names = {}
           /\ \/ Exit(c)
              \/ j.req.command # "ler" /\ Become(c, [j EXCEPT !.pc = "reply"])
              \/ /\ j.req.command # "listar"
                 /\ \E p \in job[c].list :
                       Become(c, [j EXCEPT
                                    !.pc = AfterSort(j.req.command),
                                    !.sel = p[2],
                                    !.folder = FolderOf(p[2].info, j.req.user)])
           /\ UNCHANGED <<store, dir, counters, history>>
  <1>1. j.pc = "sort" /\ j.left = {} /\ j.names = {}
    BY Zenon DEF Sort
  <1>2. /\ j \in JobStates /\ j.num = job[c].num /\ j.req = job[c].req
        /\ j.list = {} /\ j.pc = job[c].pc /\ j.names = job[c].names
    BY DEF JobStates
  <1>3. \/ Exit(c)
        \/ j.req.command # "ler" /\ Become(c, [j EXCEPT !.pc = "reply"])
        \/ /\ j.req.command # "listar"
           /\ \E p \in job[c].list :
                 Become(c, [j EXCEPT
                              !.pc = AfterSort(j.req.command),
                              !.sel = p[2],
                              !.folder = FolderOf(p[2].info, j.req.user)])
    <2>1. j.req.command = "listar" => j.req.command # "ler"
      OBVIOUS
    <2>2. QED
      BY <2>1, Zenon DEF Sort
  <1>4. UNCHANGED <<store, dir, counters, history>>
    BY Zenon DEF Sort
  <1>5. QED
    BY <1>1, <1>2, <1>3, <1>4

(* Every step keeps the types: one case for each system call of a child, and  *)
(* the clock, the kill and the arrival of a request.                          *)
LEMMA TypeInvNext == TypeInv /\ [Next]_vars => TypeInv'
  <1> SUFFICES ASSUME TypeInv, [Next]_vars PROVE TypeInv'
    OBVIOUS
  <1> USE DEF TypeInv
  <1>1. ASSUME NEW c \in Children, NEW r \in ClientRequests, Begin(c, r)
        PROVE  TypeInv'
    <2> DEFINE j == [IdleJob EXCEPT
                       !.pc = IF r.command = "enviar" THEN "resolve" ELSE "count",
                       !.req = r,
                       !.num = served + 1,
                       !.folders = UserFolders(r.user)]
    <2>1. r \in ConcordiaRequest /\ (r.command = "enviar" => r.dest \in Folders)
      BY RequestType
    <2>2. UserFolders(r.user) \in SUBSET Folders
      BY <2>1 DEF UserFolders, Folders, ConcordiaRequest
    <2>3. GoodJob(j)
      <3> DEFINE n == served + 1
      <3>1. n \in Nat
        BY DEF TypeOK
      <3>2. j = [IdleJob EXCEPT !.pc = j.pc, !.req = r, !.num = n,
                                !.folders = UserFolders(r.user)]
        BY DEF IdleJob
      <3>3. j.pc = IF r.command = "enviar" THEN "resolve" ELSE "count"
        BY DEF IdleJob
      <3>4. j.req = r
        BY DEF IdleJob
      <3> HIDE DEF n, j
      <3>5. j.pc \in {"resolve", "count"}
        BY <3>3
      <3>6. j \in JobStates
        <4>1. IdleJob \in JobStates
          BY IdleJobGood DEF GoodJob
        <4>2. QED
          BY <2>1, <2>2, <3>1, <3>2, <3>5, <4>1 DEF JobStates
      <3>7. QED
        BY <2>1, <3>3, <3>4, <3>6 DEF GoodJob
    <2>4. Become(c, j)
      BY <1>1 DEF Begin
    <2>5. job' \in [Children -> JobStates] /\ \A d \in Children : GoodJob(job'[d])
      BY <2>3, <2>4, BecomeGood
    <2>6. QED
      BY <1>1, <2>5 DEF Begin, TypeOK, store, history
  <1>2. ASSUME NEW c \in Children, Resolve(c)
        PROVE  TypeInv'
    <2>1. ASSUME NEW f \in Folders,
                 Become(c, [job[c] EXCEPT !.pc = "scan", !.folder = f])
          PROVE  TypeInv'
      <3>1. PICK j : j = job[c]
        OBVIOUS
      <3>2. j \in JobStates /\ GoodJob(j) /\ j.pc = "resolve"
        BY <1>2, <3>1 DEF Resolve, GoodJob
      <3>3. [j EXCEPT !.pc = "scan", !.folder = f] \in JobStates
        BY <3>2 DEF JobStates
      <3>4. GoodJob([j EXCEPT !.pc = "scan", !.folder = f])
        BY <3>2, <3>3 DEF GoodJob, JobStates
      <3>5. QED
        BY <1>2, <2>1, <3>1, <3>4, LocalStep DEF Resolve
    <2>2. CASE Exit(c)
      BY <1>2, <2>2, IdleJobGood, LocalStep DEF Resolve, Exit
    <2>3. exists \in SUBSET Folders
      BY DEF TypeOK
    <2>4. QED
      BY <1>2, <2>1, <2>2, <2>3 DEF Resolve
  <1>3. ASSUME NEW c \in Children, Scan(c)
        PROVE  TypeInv'
    <2>1. PICK h \in {-1} \cup Nat :
            Become(c, [job[c] EXCEPT !.pc = "create", !.id = h + 1, !.time = now])
      <3>1. \A f \in exists : Ids(f) \subseteq Nat
        BY DEF Ids, TypeOK, File, FileInfo
      <3>2. QED
        BY <1>3, <3>1 DEF Scan
    <2>2. h + 1 \in Nat
      OBVIOUS
    <2>3. GoodJob([job[c] EXCEPT !.pc = "create", !.id = h + 1, !.time = now])
      <3>1. now \in Nat /\ GoodJob(job[c]) /\ job[c].pc = "scan"
        BY <1>3 DEF Scan, TypeOK
      <3> DEFINE i == h + 1
      <3>2. i \in Nat
        BY <2>2
      <3> HIDE DEF i
      <3>3. GoodJob([job[c] EXCEPT !.pc = "create", !.id = i, !.time = now])
        BY <3>1, <3>2 DEF GoodJob, JobStates
      <3>4. QED
        BY <3>3 DEF i
    <2>4. QED
      BY <1>3, <2>1, <2>3, LocalStep DEF Scan
  <1>4. ASSUME NEW c \in Children, Create(c)
        PROVE  TypeInv'
    <2> DEFINE j == job[c]
    <2>1. GoodJob(j) /\ j.pc = "create"
      BY <1>4 DEF Create
    <2>2. CASE j.folder \in exists
      <3>1. j.folder \in Folders /\ dir[j.folder] \in SUBSET File
                                /\ IsFiniteSet(dir[j.folder])
        BY <2>2 DEF TypeOK
      <3>2. PICK m \in Opened(j) :
              /\ dir' = [dir EXCEPT ![j.folder] = Put(@, NewFile(j, m))]
              /\ Become(c, [j EXCEPT !.pc = "write", !.fd = m])
        BY <1>4, <2>2 DEF Create
      <3>3. m \in Nat /\ NewFile(j, m) \in File
        BY <2>1, <2>2, NewFileType
      <3>4. /\ Put(dir[j.folder], NewFile(j, m)) \in SUBSET File
            /\ IsFiniteSet(Put(dir[j.folder], NewFile(j, m)))
        BY <3>1, <3>3, PutType
      <3>5. sent' \in SUBSET Nat /\ removed' \in SUBSET Nat
        BY <1>4 DEF Create, TypeOK
      <3>6. answers' \in SUBSET [reply : Nat, folder : Folders, id : Nat, msg : Nat]
        <4> DEFINE own == [reply |-> j.num, folder |-> j.folder,
                           id |-> j.sel.info.id, msg |-> j.sel.msg]
        <4>1. j.req.command # "enviar" =>
                own \in [reply : Nat, folder : Folders, id : Nat, msg : Nat]
          BY <2>1, <3>1 DEF GoodJob, JobStates, Selection, FileInfo
        <4>2. answers' = IF j.req.command = "enviar" THEN answers
                         ELSE answers \cup {own}
          BY <1>4, <2>2 DEF Create
        <4> HIDE DEF own
        <4>3. QED
          BY <4>1, <4>2 DEF TypeOK
      <3>7. GoodJob([j EXCEPT !.pc = "write", !.fd = m])
        BY <2>1, <3>1, <3>3 DEF GoodJob, JobStates
      <3>8. UNCHANGED <<store, counters>>
        BY <1>4 DEF Create
      <3>9. QED
        BY <3>1, <3>2, <3>4, <3>5, <3>6, <3>7, <3>8, FolderStep
    <2>3. CASE j.folder \notin exists
      BY <1>4, <2>3, IdleJobGood, LocalStep DEF Create, Exit, history
    <2>4. QED
      BY <2>2, <2>3
  <1>4w. ASSUME NEW c \in Children, Write(c)
        PROVE  TypeInv'
    <2> DEFINE j == job[c]
               next == [j EXCEPT !.pc = IF j.req.command = "enviar"
                                        THEN "reply" ELSE "rename"]
    <2>1. /\ GoodJob(j) /\ j.pc = "write" /\ j.folder \in Folders
          /\ j.num \in Nat
      BY <1>4w DEF Write, GoodJob, JobStates
    <2>2. dir[j.folder] \in SUBSET File /\ IsFiniteSet(dir[j.folder])
      BY <2>1 DEF TypeOK
    <2>3. GoodJob(next)
      BY <2>1 DEF GoodJob, JobStates
    <2>4. /\ sent' \in SUBSET Nat /\ removed' \in SUBSET Nat
          /\ answers' \in SUBSET [reply : Nat, folder : Folders, id : Nat, msg : Nat]
          /\ UNCHANGED <<store, counters>> /\ Become(c, next)
      BY <1>4w, <2>1 DEF Write, TypeOK
    <2>5. \E S \in SUBSET File : /\ IsFiniteSet(S)
                                 /\ dir' = [dir EXCEPT ![j.folder] = S]
      <3>1. CASE UNCHANGED dir
        BY <2>1, <2>2, <3>1 DEF TypeOK
      <3>2. ASSUME NEW x \in dir[j.folder],
                   dir' = [dir EXCEPT ![j.folder] = Put(@, Filled(x, j.num))]
            PROVE  \E S \in SUBSET File :
                     IsFiniteSet(S) /\ dir' = [dir EXCEPT ![j.folder] = S]
        <4>1. Filled(x, j.num) \in File
          BY <2>1, <2>2, FilledType
        <4>2. /\ Put(dir[j.folder], Filled(x, j.num)) \in SUBSET File
              /\ IsFiniteSet(Put(dir[j.folder], Filled(x, j.num)))
          BY <2>2, <4>1, PutType
        <4>3. QED
          BY <3>2, <4>2
      <3>3. QED
        BY <1>4w, <3>1, <3>2 DEF Write
    <2>6. QED
      BY <2>1, <2>3, <2>4, <2>5, FolderStep
  <1>5. ASSUME NEW c \in Children, Count(c)
        PROVE  TypeInv'
    <2> DEFINE n == Cardinality(Listing(job[c].folders))
    <2>1. job[c].folders \in SUBSET Folders
      BY DEF GoodJob, JobStates
    <2>2. n \in Nat
      BY <2>1, ListingFinite, FS_CardinalityType
    <2>3. GoodJob([job[c] EXCEPT !.pc = "sort", !.cnt = n, !.left = job[c].folders])
      <3>1. PICK i : i = job[c]
        OBVIOUS
      <3> HIDE DEF n
      <3>2. GoodJob(i) /\ i.pc = "count"
        BY <1>5, <3>1 DEF Count
      <3>3. [i EXCEPT !.pc = "sort", !.cnt = n, !.left = i.folders] \in JobStates
        BY <2>2, <3>2 DEF GoodJob, JobStates
      <3>4. GoodJob([i EXCEPT !.pc = "sort", !.cnt = n, !.left = i.folders])
        BY <3>2, <3>3 DEF GoodJob, JobStates
      <3>5. QED
        BY <3>1, <3>4
    <2>4. QED
      BY <1>5, <2>3, LocalStep DEF Count
  <1>6d. ASSUME NEW c \in Children, ReadDir(c)
        PROVE  TypeInv'
    <2>1. PICK j : j = job[c]
      OBVIOUS
    <2>2. GoodJob(j) /\ j \in JobStates /\ j.pc = "sort"
      BY <1>6d, <2>1 DEF ReadDir, GoodJob
    <2>3. PICK f \in j.left :
            Become(c, [j EXCEPT
              !.left = @ \ {f},
              !.names = {p \in Entries(f) : p[2].info.name # j.req.user},
              !.list = @ \cup {p \in Entries(f) : p[2].info.name = j.req.user}])
      BY <1>6d, <2>1 DEF ReadDir
    <2> DEFINE l == j.left \ {f}
               n == {p \in Entries(f) : p[2].info.name # j.req.user}
               k == j.list \cup {p \in Entries(f) : p[2].info.name = j.req.user}
               next == [j EXCEPT !.left = l, !.names = n, !.list = k]
    <2>4. f \in Folders
      BY <2>2 DEF JobStates
    <2>5. Entries(f) \in SUBSET (Folders \X Selection)
      BY <2>4, EntriesType
    <2>6. /\ l \in SUBSET Folders
          /\ n \in SUBSET (Folders \X Selection)
          /\ k \in SUBSET (Folders \X Selection)
      BY <2>2, <2>5 DEF JobStates
    <2>7. GoodJob(next)
      <3> HIDE DEF l, n, k
      <3>1. next \in JobStates
        BY <2>2, <2>6 DEF JobStates
      <3>2. QED
        BY <2>2, <3>1 DEF GoodJob, JobStates
    <2>8. Become(c, next)
      BY <2>3
    <2>9. QED
      BY <1>6d, <2>7, <2>8, LocalStep DEF ReadDir
  <1>6c. ASSUME NEW c \in Children, CheckRead(c)
        PROVE  TypeInv'
    <2>1. PICK j : j = job[c]
      OBVIOUS
    <2>2. GoodJob(j) /\ j \in JobStates /\ j.pc = "sort"
      BY <1>6c, <2>1 DEF CheckRead, GoodJob
    <2>3. PICK p \in j.names, a \in {-1, 0, 1} :
            Become(c, [j EXCEPT
              !.names = @ \ {p},
              !.list = @ \cup {<<p[1], [p[2] EXCEPT !.read = a]>>}])
      <3>1. PICK p \in j.names :
              Become(c, [j EXCEPT
                !.names = @ \ {p},
                !.list = @ \cup {<<p[1], [p[2] EXCEPT
                    !.read = CheckIfRead(p[1], p[2].info, j.req.user)]>>}])
        BY <1>6c, <2>1, Zenon DEF CheckRead
      <3>2. CheckIfRead(p[1], p[2].info, j.req.user) \in {-1, 0, 1}
        BY CheckType
      <3>3. QED
        BY <3>1, <3>2
    <2> DEFINE n == j.names \ {p}
               k == j.list \cup {<<p[1], [p[2] EXCEPT !.read = a]>>}
               next == [j EXCEPT !.names = n, !.list = k]
    <2>4. p[1] \in Folders /\ p[2] \in Selection
      BY <2>2 DEF JobStates
    <2>5. [p[2] EXCEPT !.read = a] \in Selection
      BY <2>3, <2>4 DEF Selection, ReadField
    <2>6. /\ n \in SUBSET (Folders \X Selection)
          /\ k \in SUBSET (Folders \X Selection)
      BY <2>2, <2>4, <2>5 DEF JobStates
    <2>7. GoodJob(next)
      <3> HIDE DEF n, k
      <3>1. next \in JobStates
        BY <2>2, <2>6 DEF JobStates
      <3>2. QED
        BY <2>2, <3>1 DEF GoodJob, JobStates
    <2>8. Become(c, next)
      BY <2>3
    <2>9. QED
      BY <1>6c, <2>7, <2>8, LocalStep DEF CheckRead
  <1>6. ASSUME NEW c \in Children, Sort(c)
        PROVE  TypeInv'
    <2>0. PICK j : j = [job[c] EXCEPT !.list = {}]
      OBVIOUS
    <2>1. GoodJob(j) /\ j.pc = "sort" /\ j.req \in ConcordiaRequest
      <3>1. GoodJob(job[c]) /\ job[c] \in JobStates
        BY DEF GoodJob
      <3>2. /\ j \in JobStates /\ j.req = job[c].req /\ j.pc = "sort"
            /\ job[c].pc = "sort"
        BY <1>6, <2>0, <3>1, SortShape
      <3>3. QED
        BY <3>1, <3>2 DEF GoodJob
    <2>2. CASE Exit(c)
      BY <1>6, <2>2, IdleJobGood, LocalStep DEF Sort, Exit
    <2>3. CASE Become(c, [j EXCEPT !.pc = "reply"])
      <3>1. GoodJob([j EXCEPT !.pc = "reply"])
        BY <2>1 DEF GoodJob, JobStates
      <3>2. QED
        BY <1>6, <2>3, <3>1, LocalStep DEF Sort
    <2>4. ASSUME j.req.command # "listar",
                 NEW p \in job[c].list,
                 Become(c, [j EXCEPT !.pc = AfterSort(j.req.command),
                                     !.sel = p[2],
                                     !.folder = FolderOf(p[2].info, j.req.user)])
          PROVE  TypeInv'
      <3>1. p[2] \in Selection
        BY DEF GoodJob, JobStates
      <3>2. FolderOf(p[2].info, j.req.user) \in Folders \cup {None}
        BY <3>1 DEF FolderOf, Selection, FileInfo
      <3>3. j.req.command \in {"ler", "responder", "remover"}
        BY <2>1, <2>4 DEF GoodJob, ConcordiaRequest, Commands
      <3>4. GoodJob([j EXCEPT !.pc = AfterSort(j.req.command),
                              !.sel = p[2],
                              !.folder = FolderOf(p[2].info, j.req.user)])
        <4> DEFINE s == p[2]
                   g == FolderOf(p[2].info, j.req.user)
        <4>1. s \in Selection /\ g \in Folders \cup {None}
          BY <3>1, <3>2
        <4> HIDE DEF s, g
        <4>2. GoodJob([j EXCEPT !.pc = AfterSort(j.req.command),
                                !.sel = s, !.folder = g])
          BY <2>1, <3>3, <4>1 DEF GoodJob, JobStates, AfterSort
        <4>3. QED
          BY <4>2 DEF s, g
      <3>5. QED
        BY <1>6, <2>4, <3>4, LocalStep DEF Sort
    <2>5. QED
      <3>1. job[c] \in JobStates
        BY DEF GoodJob
      <3>2. QED
        BY <1>6, <2>0, <2>2, <2>3, <2>4, <3>1, SortShape
  <1>7. ASSUME NEW c \in Children, Read(c)
        PROVE  TypeInv'
    <2> DEFINE j == job[c]
               next == IF j.sel.info.name = j.req.user
                       THEN [j EXCEPT !.pc = "rename", !.flag = 1]
                       ELSE [j EXCEPT !.pc = "mark"]
    <2>1. GoodJob(next)
      <3>1. PICK i : i = job[c]
        OBVIOUS
      <3>2. i \in JobStates /\ GoodJob(i) /\ i.pc = "read"
        BY <1>7, <3>1 DEF Read, GoodJob
      <3>3. [i EXCEPT !.pc = "rename", !.flag = 1] \in JobStates
        BY <3>2 DEF JobStates
      <3>4. [i EXCEPT !.pc = "mark"] \in JobStates
        BY <3>2 DEF JobStates
      <3>5. GoodJob([i EXCEPT !.pc = "rename", !.flag = 1])
        BY <3>2, <3>3 DEF GoodJob, JobStates
      <3>6. GoodJob([i EXCEPT !.pc = "mark"])
        BY <3>2, <3>4 DEF GoodJob, JobStates
      <3>7. QED
        BY <3>1, <3>5, <3>6
    <2>2. QED
      BY <1>7, <2>1, IdleJobGood, LocalStep DEF Read, Exit
  <1>8. ASSUME NEW c \in Children, Mark(c)
        PROVE  TypeInv'
    <2> DEFINE j == job[c]
               user == j.req.user
    <2>1. GoodJob(j) /\ j.pc = "mark" /\ user \in Users /\ j.sel \in Selection
      BY <1>8 DEF Mark, GoodJob, ConcordiaRequest
    <2>2. CASE Exit(c) /\ UNCHANGED dir
      BY <1>8, <2>2, IdleJobGood, LocalStep DEF Mark, Exit
    <2>3. CASE Become(c, [j EXCEPT !.pc = "rename", !.flag = 0]) /\ UNCHANGED dir
      <3>1. GoodJob([j EXCEPT !.pc = "rename", !.flag = 0])
        BY <2>1 DEF GoodJob, JobStates
      <3>2. QED
        BY <1>8, <2>3, <3>1, LocalStep DEF Mark
    <2>4. ASSUME NEW x \in Selected(j),
                 dir' = [dir EXCEPT ![j.folder] =
                           Put(@, [x EXCEPT !.trailer = Append(@, user)])],
                 Become(c, [j EXCEPT !.pc = "rename",
                                     !.flag = NameLen[user] + 1 + j.sel.read])
          PROVE  TypeInv'
      <3>1. /\ j.folder \in Folders
            /\ x \in File
            /\ dir[j.folder] \in SUBSET File
            /\ IsFiniteSet(dir[j.folder])
        BY <2>1, SelectedType DEF GoodJob
      <3>2. Append(x.trailer, user) \in Seq(Users)
        BY <2>1, <3>1 DEF File
      <3>3. [x EXCEPT !.trailer = Append(@, user)] \in File
        BY <3>1, <3>2 DEF File
      <3> DEFINE S == Put(dir[j.folder], [x EXCEPT !.trailer = Append(@, user)])
      <3>4. S \in SUBSET File /\ IsFiniteSet(S)
        BY <3>1, <3>3, PutType
      <3>5. NameLen[user] + 1 + j.sel.read \in Nat
        <4>1. NameLen[user] \in Nat \ {0} /\ j.sel.read \in Nat \cup {-1}
          BY <2>1, NamesAssumption DEF NamesAssumption, Selection, ReadField
        <4>2. QED
          BY <4>1
      <3>6. GoodJob([j EXCEPT !.pc = "rename",
                              !.flag = NameLen[user] + 1 + j.sel.read])
        BY <2>1, <3>5 DEF GoodJob, JobStates
      <3>7. /\ sent' \in SUBSET Nat /\ removed' \in SUBSET Nat
            /\ answers' \in SUBSET [reply : Nat, folder : Folders,
                                    id : Nat, msg : Nat]
            /\ UNCHANGED <<store, counters>>
        BY <1>8 DEF Mark, TypeOK, history
      <3>8. dir' = [dir EXCEPT ![j.folder] = S]
        BY <2>4
      <3>9. QED
        BY <2>4, <3>1, <3>4, <3>6, <3>7, <3>8, FolderStep
    <2>5. QED
      BY <1>8, <2>2, <2>3, <2>4 DEF Mark
  <1>9. ASSUME NEW c \in Children, Rename(c)
        PROVE  TypeInv'
    <2> DEFINE j == job[c]
    <2>1. GoodJob(j) /\ j.pc = "rename" /\ j.sel \in Selection
      BY <1>9 DEF Rename, GoodJob
    <2>2. GoodJob([j EXCEPT !.pc = "reply"]) /\ Become(c, [j EXCEPT !.pc = "reply"])
      BY <1>9, <2>1 DEF Rename, GoodJob, JobStates
    <2>3. CASE UNCHANGED dir
      BY <1>9, <2>2, <2>3, LocalStep DEF Rename
    <2>4. ASSUME NEW x \in Selected(j),
                 dir' = [dir EXCEPT ![j.folder] =
                           Put(@ \ {x}, [x EXCEPT !.info = Renamed(j)])]
          PROVE  TypeInv'
      <3>1. /\ j.folder \in Folders
            /\ x \in File
            /\ dir[j.folder] \in SUBSET File
            /\ IsFiniteSet(dir[j.folder])
        BY <2>1, SelectedType DEF GoodJob
      <3>2. Renamed(j) \in FileInfo
        <4>1. j.sel.info \in FileInfo /\ j.sel.read \in ReadField
              /\ j.flag \in ReadField
          BY <2>1 DEF GoodJob, JobStates, Selection, ReadField
        <4>2. [j.sel.info EXCEPT !.read = j.flag] \in FileInfo
          BY <4>1 DEF FileInfo
        <4> DEFINE n == j.sel.info.nReplys + 1
        <4>3. [j.sel.info EXCEPT !.read = j.sel.read, !.nReplys = n] \in FileInfo
          <5>1. n \in Nat
            BY <4>1 DEF FileInfo
          <5> HIDE DEF n
          <5>2. QED
            BY <4>1, <5>1 DEF FileInfo
        <4>4. QED
          BY <4>2, <4>3 DEF Renamed
      <3>3. [x EXCEPT !.info = Renamed(j)] \in File
        BY <3>1, <3>2 DEF File
      <3>4. dir[j.folder] \ {x} \in SUBSET File /\ IsFiniteSet(dir[j.folder] \ {x})
        BY <3>1, FS_RemoveElement
      <3> DEFINE S == Put(dir[j.folder] \ {x}, [x EXCEPT !.info = Renamed(j)])
      <3>5. S \in SUBSET File /\ IsFiniteSet(S)
        BY <3>3, <3>4, PutType
      <3>6. /\ sent' \in SUBSET Nat /\ removed' \in SUBSET Nat
            /\ answers' \in SUBSET [reply : Nat, folder : Folders,
                                    id : Nat, msg : Nat]
            /\ UNCHANGED <<store, counters>>
        BY <1>9 DEF Rename, TypeOK, history
      <3>7. dir' = [dir EXCEPT ![j.folder] = S]
        BY <2>4
      <3>8. QED
        BY <2>2, <3>1, <3>5, <3>6, <3>7, FolderStep
    <2>5. QED
      BY <1>9, <2>3, <2>4 DEF Rename
  <1>10. ASSUME NEW c \in Children, Unlink(c)
         PROVE  TypeInv'
    <2> DEFINE j == job[c]
    <2>1. GoodJob(j) /\ j.pc = "unlink"
      BY <1>10 DEF Unlink
    <2>2. GoodJob([j EXCEPT !.pc = "reply"]) /\ Become(c, [j EXCEPT !.pc = "reply"])
      BY <1>10, <2>1 DEF Unlink, GoodJob, JobStates
    <2>3. CASE Selected(j) = {}
      BY <1>10, <2>2, <2>3, LocalStep DEF Unlink, history
    <2>4. CASE Selected(j) # {}
      <3>1. PICK x \in Selected(j) : TRUE
        BY <2>4
      <3>2. /\ j.folder \in Folders
            /\ dir[j.folder] \in SUBSET File
            /\ IsFiniteSet(dir[j.folder])
        BY <2>1, <3>1, SelectedType DEF GoodJob
      <3> DEFINE S == dir[j.folder] \ Selected(j)
      <3>3. S \in SUBSET File /\ IsFiniteSet(S)
        BY <3>2, FS_Subset
      <3>4. \A y \in Selected(j) : y.text \in Nat
        BY <2>1, SelectedType DEF GoodJob, File
      <3>5. /\ sent' \in SUBSET Nat /\ removed' \in SUBSET Nat
            /\ answers' \in SUBSET [reply : Nat, folder : Folders,
                                    id : Nat, msg : Nat]
            /\ UNCHANGED <<store, counters>>
        BY <1>10, <2>4, <3>4 DEF Unlink, TypeOK
      <3>6. dir' = [dir EXCEPT ![j.folder] = S]
        BY <1>10, <2>4 DEF Unlink
      <3>7. QED
        BY <2>2, <3>2, <3>3, <3>5, <3>6, FolderStep
    <2>5. QED
      BY <2>3, <2>4
  <1>11. ASSUME NEW c \in Children, Reply(c)
         PROVE  TypeInv'
    BY <1>11, IdleJobGood, LocalStep DEF Reply, Exit
  <1>12. CASE Tick
    BY <1>12 DEF Tick, TypeOK, store, history
  <1>13. CASE Stop
    BY <1>13, IdleJobGood DEF Stop, TypeOK, store, history, GoodJob
  <1>14. CASE UNCHANGED vars
    BY <1>14 DEF vars, TypeOK, history
  <1>15. QED
    BY <1>1, <1>2, <1>3, <1>4, <1>4w, <1>5, <1>6d, <1>6c, <1>6, <1>7, <1>8,
       <1>9, <1>10, <1>11, <1>12, <1>13, <1>14
    DEF Next, Handle, Wait

(* The type invariant holds however many users, groups, children and requests *)
(* there are: no interleaving of the handlers leaves a file whose name cannot *)
(* be read back, and where checkIfRead could not open a file any more, -1 is  *)
(* all that reaches a read field, in memory or in a name.                     *)
THEOREM TypeCorrect == Spec => []TypeOK
  <1>1. TypeInv => TypeOK
    BY DEF TypeInv
  <1>2. QED
    BY <1>1, TypeInvInit, TypeInvNext, PTL DEF Spec

------------------------------------------------------------------------------
(* Messages are filed under their name when no folder's path contains the     *)
(* name of another one, in which case selectDestino answers the destination.  *)
(* What one child at a time does to its messages is shown for such folders.   *)

OwnPaths == \A d \in Folders : Occurs[d] = {d}

(* The folder a child is about to write to is the one its new file will name. *)
GoodPlace(j) ==
    j.pc \in {"scan", "create"} =>
        IF j.req.command = "enviar" THEN j.folder = j.req.dest
        ELSE j.folder \in {None, j.sel.info.name}

NamedInv == TypeInv /\ NamedByFolder /\ \A c \in Children : GoodPlace(job[c])

(* With such paths selectDestino answers with the destination itself.         *)
LEMMA DestinosOwn ==
    ASSUME OwnPaths, NEW folders, NEW user, NEW dest \in Folders,
           NEW f \in Destinos(folders, user, dest)
    PROVE  f = dest
  BY DEF OwnPaths, Destinos

(* The same for one folder whose files change.                                *)
LEMMA FolderNamed ==
    ASSUME TypeOK, NamedByFolder, NEW f \in Folders, NEW S,
           dir' = [dir EXCEPT ![f] = S], \A x \in S : x.info.name = f
    PROVE  NamedByFolder'
  BY DEF TypeOK, NamedByFolder

(* A step of one child leaves the others with the folder they chose.          *)
LEMMA PlaceStep ==
    ASSUME TypeInv, \A c \in Children : GoodPlace(job[c]),
           NEW c \in Children, NEW j, Become(c, j), GoodPlace(j)
    PROVE  \A d \in Children : GoodPlace(job'[d])
  <1>1. \A d \in Children : job'[d] = IF d = c THEN j ELSE job[d]
    BY DEF TypeInv, TypeOK, Become
  <1>2. QED
    BY <1>1

(* A file is written into the folder its name was made for, and a rename      *)
(* keeps the name field.                                                      *)
LEMMA NamedInvNext ==
    ASSUME OwnPaths, NamedInv, [Next]_vars
    PROVE  NamedInv'
  <1> USE DEF NamedInv
  <1> DEFINE Placed == \A d \in Children : GoodPlace(job'[d])
  <1>1. TypeInv' /\ TypeOK
    BY TypeInvNext DEF TypeInv
  <1>2. \A c \in Children : job[c] \in JobStates /\ GoodJob(job[c])
    BY DEF TypeInv, TypeOK
  <1>3. ASSUME UNCHANGED dir PROVE NamedByFolder'
    BY <1>3 DEF NamedByFolder
  <1>4. GoodPlace(IdleJob)
    BY DEF GoodPlace, IdleJob
  <1>5. ASSUME NEW c \in Children, Exit(c) PROVE Placed
    BY <1>4, <1>5, PlaceStep DEF Exit
  <1>6. ASSUME NEW c \in Children, NEW r \in ClientRequests, Begin(c, r)
        PROVE  NamedByFolder' /\ Placed
    <2> DEFINE j == [IdleJob EXCEPT
                       !.pc = IF r.command = "enviar" THEN "resolve" ELSE "count",
                       !.req = r,
                       !.num = served + 1,
                       !.folders = UserFolders(r.user)]
    <2>1. GoodPlace(j)
      BY DEF GoodPlace, IdleJob
    <2>2. Become(c, j)
      BY <1>6 DEF Begin
    <2>3. QED
      BY <1>3, <1>6, <2>1, <2>2, PlaceStep DEF Begin
  <1>7. ASSUME NEW c \in Children, Resolve(c)
        PROVE  NamedByFolder' /\ Placed
    <2> DEFINE j == job[c]
    <2>1. j.req.command = "enviar" /\ j.req.dest \in Folders
      BY <1>2, <1>7 DEF Resolve, GoodJob
    <2>2. ASSUME NEW f \in Destinos(j.folders, j.req.user, j.req.dest),
                 Become(c, [j EXCEPT !.pc = "scan", !.folder = f])
          PROVE  Placed
      <3>1. f = j.req.dest
        BY <2>1, DestinosOwn
      <3>2. GoodPlace([j EXCEPT !.pc = "scan", !.folder = f])
        BY <1>2, <2>1, <3>1 DEF GoodPlace, JobStates
      <3>3. QED
        BY <2>2, <3>2, PlaceStep
    <2>3. QED
      BY <1>3, <1>5, <1>7, <2>2 DEF Resolve
  <1>8. ASSUME NEW c \in Children, Scan(c)
        PROVE  NamedByFolder' /\ Placed
    <2>1. PICK h : Become(c, [job[c] EXCEPT !.pc = "create", !.id = h + 1,
                                            !.time = now])
      BY <1>8 DEF Scan
    <2>2. GoodPlace([job[c] EXCEPT !.pc = "create", !.id = h + 1, !.time = now])
      <3> DEFINE i == h + 1
      <3> HIDE DEF i
      <3>1. GoodPlace([job[c] EXCEPT !.pc = "create", !.id = i, !.time = now])
        BY <1>2, <1>8 DEF Scan, GoodPlace, JobStates
      <3>2. QED
        BY <3>1 DEF i
    <2>3. QED
      BY <1>3, <1>8, <2>1, <2>2, PlaceStep DEF Scan
  <1>9. ASSUME NEW c \in Children, Create(c)
        PROVE  NamedByFolder' /\ Placed
    <2> DEFINE j == job[c]
    <2>1. CASE j.folder \in exists
      <3>1. j.folder \in Folders /\ j.folder # None
        BY <1>1, <2>1, NamesAssumption DEF TypeOK, NamesAssumption
      <3>2. j.folder = IF j.req.command = "enviar" THEN j.req.dest
                       ELSE j.sel.info.name
        BY <1>9, <3>1 DEF Create, GoodPlace
      <3>3. PICK m \in Opened(j) :
              /\ dir' = [dir EXCEPT ![j.folder] = Put(@, NewFile(j, m))]
              /\ Become(c, [j EXCEPT !.pc = "write", !.fd = m])
        BY <1>9, <2>1 DEF Create
      <3>4. NewFile(j, m).info.name = j.folder
        BY <3>2 DEF NewFile, NewInfo
      <3>5. \A x \in Put(dir[j.folder], NewFile(j, m)) : x.info.name = j.folder
        BY <3>1, <3>4 DEF Put, NamedByFolder
      <3>6. NamedByFolder'
        BY <1>1, <3>1, <3>3, <3>5, FolderNamed
      <3>7. GoodPlace([j EXCEPT !.pc = "write", !.fd = m])
        BY <1>2 DEF GoodPlace, JobStates
      <3>8. QED
        BY <3>3, <3>6, <3>7, PlaceStep
    <2>2. CASE j.folder \notin exists
      BY <1>3, <1>5, <1>9, <2>2 DEF Create
    <2>3. QED
      BY <2>1, <2>2
  <1>10. ASSUME NEW c \in Children, NEW pc,
                Become(c, [job[c] EXCEPT !.pc = pc]), pc \notin {"scan", "create"}
         PROVE  Placed
    <2>1. GoodPlace([job[c] EXCEPT !.pc = pc])
      BY <1>2, <1>10 DEF GoodPlace, JobStates
    <2>2. QED
      BY <1>10, <2>1, PlaceStep
  <1>10w. ASSUME NEW c \in Children, Write(c)
          PROVE  NamedByFolder' /\ Placed
    <2> DEFINE j == job[c]
    <2>1. j.folder \in Folders /\ j.num \in Nat
      BY <1>2, <1>10w DEF Write, GoodJob, JobStates
    <2>2. ASSUME NEW x \in dir[j.folder],
                 dir' = [dir EXCEPT ![j.folder] = Put(@, Filled(x, j.num))]
          PROVE  NamedByFolder'
      <3>1. x \in File /\ x.info.name = j.folder
        BY <1>1, <2>1 DEF TypeOK, NamedByFolder
      <3>2. Filled(x, j.num).info.name = j.folder
        BY <3>1, FilledKeeps
      <3>3. \A z \in Put(dir[j.folder], Filled(x, j.num)) : z.info.name = j.folder
        BY <2>1, <3>2 DEF Put, NamedByFolder
      <3>4. QED
        BY <1>1, <2>1, <2>2, <3>3, FolderNamed
    <2>3. NamedByFolder'
      BY <1>3, <1>10w, <2>2 DEF Write
    <2>4. Placed
      <3>1. CASE j.req.command = "enviar"
        BY <1>10, <1>10w, <3>1 DEF Write
      <3>2. CASE j.req.command # "enviar"
        BY <1>10, <1>10w, <3>2 DEF Write
      <3>3. QED
        BY <3>1, <3>2
    <2>5. QED
      BY <2>3, <2>4
  <1>11. ASSUME NEW c \in Children, Count(c)
         PROVE  NamedByFolder' /\ Placed
    <2> DEFINE n == Cardinality(Listing(job[c].folders))
    <2>1. GoodPlace([job[c] EXCEPT !.pc = "sort", !.cnt = n,
                                   !.left = job[c].folders])
      BY <1>2 DEF GoodPlace, JobStates
    <2>2. QED
      BY <1>3, <1>11, <2>1, PlaceStep DEF Count
  <1>11d. ASSUME NEW c \in Children, ReadDir(c)
          PROVE  NamedByFolder' /\ Placed
    <2>1. PICK l, n, k : Become(c, [job[c] EXCEPT !.left = l, !.names = n,
                                                  !.list = k])
      BY <1>11d DEF ReadDir
    <2>2. GoodPlace([job[c] EXCEPT !.left = l, !.names = n, !.list = k])
      BY <1>2, <1>11d DEF ReadDir, GoodPlace, JobStates
    <2>3. QED
      BY <1>3, <1>11d, <2>1, <2>2, PlaceStep DEF ReadDir
  <1>11c. ASSUME NEW c \in Children, CheckRead(c)
          PROVE  NamedByFolder' /\ Placed
    <2>1. PICK n, k : Become(c, [job[c] EXCEPT !.names = n, !.list = k])
      BY <1>11c DEF CheckRead
    <2>2. GoodPlace([job[c] EXCEPT !.names = n, !.list = k])
      BY <1>2, <1>11c DEF CheckRead, GoodPlace, JobStates
    <2>3. QED
      BY <1>3, <1>11c, <2>1, <2>2, PlaceStep DEF CheckRead
  <1>12. ASSUME NEW c \in Children, Sort(c)
         PROVE  NamedByFolder' /\ Placed
    <2>a. PICK j : j = [job[c] EXCEPT !.list = {}]
      OBVIOUS
    <2> DEFINE taken(p) == [j EXCEPT !.pc = AfterSort(j.req.command),
                                     !.sel = p[2],
                                     !.folder = FolderOf(p[2].info, j.req.user)]
    <2>0. /\ j \in JobStates /\ j.req = job[c].req /\ j.pc = "sort"
          /\ job[c].pc = "sort"
      BY <1>2, <1>12, <2>a, SortShape
    <2>1. ASSUME NEW p, j.req.command # "listar", Become(c, taken(p))
          PROVE  Placed
      <3>1. j.req.command # "enviar"
        BY <1>2, <2>0 DEF GoodJob
      <3> DEFINE f == FolderOf(p[2].info, j.req.user)
                 e == p[2]
      <3>2. f \in {None, e.info.name}
        BY DEF FolderOf
      <3> HIDE DEF f, e
      <3>3. GoodPlace([j EXCEPT !.pc = AfterSort(j.req.command), !.sel = e,
                                !.folder = f])
        BY <2>0, <3>1, <3>2 DEF GoodPlace, JobStates
      <3>4. QED
        BY <2>1, <3>3, PlaceStep DEF f, e
    <2>2. \/ Exit(c)
          \/ Become(c, [j EXCEPT !.pc = "reply"])
          \/ j.req.command # "listar" /\ \E p : Become(c, taken(p))
      BY <1>2, <1>12, <2>a, SortShape
    <2> HIDE DEF taken
    <2>3. Placed
      <3>1. ASSUME Become(c, [j EXCEPT !.pc = "reply"]) PROVE Placed
        <4>1. GoodPlace([j EXCEPT !.pc = "reply"])
          BY <2>0 DEF GoodPlace, JobStates
        <4>2. QED
          BY <3>1, <4>1, PlaceStep
      <3>2. Exit(c) => Placed
        BY <1>5
      <3>3. (j.req.command # "listar" /\ \E p : Become(c, taken(p))) => Placed
        BY <2>1
      <3> HIDE DEF Placed
      <3>4. QED
        BY <2>2, <3>1, <3>2, <3>3
    <2>4. QED
      BY <1>3, <1>12, <2>3 DEF Sort
  <1>13. ASSUME NEW c \in Children, Read(c)
         PROVE  NamedByFolder' /\ Placed
    <2>1. GoodPlace([job[c] EXCEPT !.pc = "rename", !.flag = 1])
      BY <1>2 DEF GoodPlace, JobStates
    <2>2. GoodPlace([job[c] EXCEPT !.pc = "mark"])
      BY <1>2 DEF GoodPlace, JobStates
    <2>3. QED
      BY <1>3, <1>5, <1>13, <2>1, <2>2, PlaceStep DEF Read
  <1>14. ASSUME NEW c \in Children, Mark(c)
         PROVE  NamedByFolder' /\ Placed
    <2> DEFINE j == job[c]
    <2>1. ASSUME NEW n, Become(c, [j EXCEPT !.pc = "rename", !.flag = n])
          PROVE  Placed
      <3>1. GoodPlace([j EXCEPT !.pc = "rename", !.flag = n])
        BY <1>2 DEF GoodPlace, JobStates
      <3>2. QED
        BY <2>1, <3>1, PlaceStep
    <2>2. ASSUME NEW x \in Selected(j),
                 dir' = [dir EXCEPT ![j.folder] =
                           Put(@, [x EXCEPT !.trailer = Append(@, j.req.user)])]
          PROVE  NamedByFolder'
      <3>1. j.folder \in Folders /\ x \in dir[j.folder] /\ x \in File
        BY <1>1, <1>2, <2>2, SelectedType
      <3> DEFINE y == [x EXCEPT !.trailer = Append(@, j.req.user)]
      <3>2. y.info.name = j.folder
        BY <3>1 DEF File, NamedByFolder
      <3> HIDE DEF y
      <3>3. \A z \in Put(dir[j.folder], y) : z.info.name = j.folder
        BY <3>1, <3>2 DEF Put, NamedByFolder
      <3>4. dir' = [dir EXCEPT ![j.folder] = Put(dir[j.folder], y)]
        BY <2>2 DEF y
      <3>5. QED
        BY <1>1, <3>1, <3>3, <3>4, FolderNamed
    <2>3. NamedByFolder'
      BY <1>3, <1>14, <2>2 DEF Mark
    <2>4. QED
      BY <1>5, <1>14, <2>1, <2>3 DEF Mark
  <1>15. ASSUME NEW c \in Children, Rename(c)
         PROVE  NamedByFolder' /\ Placed
    <2> DEFINE j == job[c]
    <2>1. ASSUME NEW x \in Selected(j),
                 dir' = [dir EXCEPT ![j.folder] =
                           Put(@ \ {x}, [x EXCEPT !.info = Renamed(j)])]
          PROVE  NamedByFolder'
      <3>1. /\ j.folder \in Folders /\ x \in dir[j.folder] /\ x \in File
            /\ x.info = j.sel.info
        BY <1>1, <1>2, SelectedType
      <3> DEFINE y == [x EXCEPT !.info = Renamed(j)]
      <3>2. y.info.name = j.folder
        BY <3>1 DEF File, FileInfo, Renamed, NamedByFolder
      <3> HIDE DEF y
      <3>3. \A z \in Put(dir[j.folder] \ {x}, y) : z.info.name = j.folder
        BY <3>1, <3>2 DEF Put, NamedByFolder
      <3>4. dir' = [dir EXCEPT ![j.folder] = Put(dir[j.folder] \ {x}, y)]
        BY <2>1 DEF y
      <3>5. QED
        BY <1>1, <3>1, <3>3, <3>4, FolderNamed
    <2>2. NamedByFolder'
      BY <1>3, <1>15, <2>1 DEF Rename
    <2>3. QED
      BY <1>10, <1>15, <2>2 DEF Rename
  <1>16. ASSUME NEW c \in Children, Unlink(c)
         PROVE  NamedByFolder' /\ Placed
    <2>1. \A f \in Folders : dir'[f] \subseteq dir[f]
      <3>1. \/ UNCHANGED dir
            \/ dir' = [dir EXCEPT ![job[c].folder] = @ \ Selected(job[c])]
        BY <1>16 DEF Unlink
      <3>2. dir \in [Folders -> SUBSET File]
        BY <1>1 DEF TypeOK
      <3>3. QED
        BY <3>1, <3>2
    <2>2. NamedByFolder'
      BY <2>1 DEF NamedByFolder
    <2>3. QED
      BY <1>10, <1>16, <2>2 DEF Unlink
  <1>17. ASSUME NEW c \in Children, Reply(c)
         PROVE  NamedByFolder' /\ Placed
    BY <1>3, <1>5, <1>17 DEF Reply
  <1>18. CASE Tick \/ UNCHANGED vars
    BY <1>1, <1>3, <1>18 DEF Tick, vars
  <1>19. CASE Stop
    BY <1>1, <1>3, <1>4, <1>19 DEF Stop
  <1>20. QED
    BY <1>1, <1>6, <1>7, <1>8, <1>9, <1>10w, <1>11, <1>11d, <1>11c, <1>12, <1>13,
       <1>14, <1>15, <1>16, <1>17, <1>18, <1>19
    DEF Next, Handle, Wait

(* No message is there at the start.                                          *)
LEMMA NamedInvInit == Init => NamedInv
  BY TypeInvInit DEF Init, NamedInv, NamedByFolder, GoodPlace, IdleJob

------------------------------------------------------------------------------
(* What becomes of a message that is there.                                   *)

(* There was no text, it stays, remover deletes it, or another message takes  *)
(* its file name.                                                             *)
Survives(f, x) ==
    x.text # 0 =>
      \/ \E y \in dir'[f] : y.text = x.text
      \/ x.text \in removed'
      \/ \E y \in dir'[f] : SameHeader(x.info, y.info)

(* The file that is put takes the place of the one with its name.             *)
LEMMA PutSurvives ==
    ASSUME TypeOK, NEW g \in Folders, NEW z, NEW w,
           dir' = [dir EXCEPT ![g] = Put(@ \ {w}, z)],
           z.text = w.text \/ z.info = w.info,
           NEW f \in Folders, NEW x \in dir[f]
    PROVE  Survives(f, x)
  <1>1. CASE f # g
    <2>1. x \in dir'[f]
      BY <1>1 DEF TypeOK
    <2>2. QED
      BY <2>1 DEF Survives
  <1>2. CASE f = g
    <2>1. dir'[f] = {y \in dir[f] \ {w} : y.info # z.info} \cup {z}
      BY <1>2 DEF TypeOK, Put
    <2>2. CASE x = w /\ z.text = w.text
      BY <2>1, <2>2 DEF Survives
    <2>3. CASE x.info = z.info
      BY <2>1, <2>3 DEF Survives, SameHeader
    <2>4. CASE x # w /\ x.info # z.info
      BY <2>1, <2>4 DEF Survives
    <2>5. QED
      BY <2>2, <2>3, <2>4
  <1>3. QED
    BY <1>1, <1>2

(* One case for each step that changes a directory.                           *)
LEMMA LossStep ==
    ASSUME TypeInv, [Next]_vars, NEW f \in Folders, NEW x \in dir[f]
    PROVE  Survives(f, x)
  <1>1. TypeOK /\ \A c \in Children : job[c] \in JobStates /\ GoodJob(job[c])
    BY DEF TypeInv, TypeOK
  <1>2. ASSUME UNCHANGED dir PROVE Survives(f, x)
    BY <1>2 DEF Survives
  <1>3. ASSUME NEW c \in Children, Create(c) PROVE Survives(f, x)
    <2>1. ASSUME NEW m, f = job[c].folder,
                 dir' = [dir EXCEPT ![f] = Put(@, NewFile(job[c], m))]
          PROVE  Survives(f, x)
      <3> DEFINE z == NewFile(job[c], m)
      <3>1. dir'[f] = {y \in dir[f] : y.info # z.info} \cup {z}
        BY <1>1, <2>1 DEF TypeOK, Put
      <3>2. CASE x.info = z.info
        BY <3>1, <3>2 DEF Survives, SameHeader
      <3>3. CASE x.info # z.info
        BY <3>1, <3>3 DEF Survives
      <3>4. QED
        BY <3>2, <3>3
    <2>2. CASE f # job[c].folder
      <3>1. x \in dir'[f]
        BY <1>1, <1>3, <2>2 DEF Create, TypeOK
      <3>2. QED
        BY <3>1 DEF Survives
    <2>3. QED
      BY <1>2, <1>3, <2>1, <2>2 DEF Create
  <1>3w. ASSUME NEW c \in Children, Write(c) PROVE Survives(f, x)
    <2>1. ASSUME NEW w \in dir[job[c].folder],
                 dir' = [dir EXCEPT ![job[c].folder] =
                           Put(@, Filled(w, job[c].num))]
          PROVE  Survives(f, x)
      <3> DEFINE g == job[c].folder
                 z == Filled(w, job[c].num)
      <3>1. g \in Folders /\ w \in File
        BY <1>1, <1>3w DEF Write, GoodJob, TypeOK
      <3>2. z.info = w.info
        BY <3>1, FilledKeeps
      <3> HIDE DEF z
      <3>3. Put(dir[g], z) = Put(dir[g] \ {w}, z)
        BY <3>2 DEF Put
      <3>4. dir' = [dir EXCEPT ![g] = Put(@ \ {w}, z)]
        BY <1>1, <2>1, <3>1, <3>3 DEF TypeOK, z
      <3>5. QED
        BY <1>1, <3>1, <3>2, <3>4, PutSurvives
    <2>2. QED
      BY <1>2, <1>3w, <2>1 DEF Write
  <1>4. ASSUME NEW c \in Children, Mark(c) PROVE Survives(f, x)
    <2>1. ASSUME NEW w \in Selected(job[c]),
                 dir' = [dir EXCEPT ![job[c].folder] =
                   Put(@, [w EXCEPT !.trailer = Append(@, job[c].req.user)])]
          PROVE  Survives(f, x)
      <3> DEFINE g == job[c].folder
                 z == [w EXCEPT !.trailer = Append(@, job[c].req.user)]
      <3>1. g \in Folders /\ w \in dir[g] /\ z.info = w.info
        BY <1>1, SelectedType DEF File
      <3>2. Put(dir[g], z) = Put(dir[g] \ {w}, z)
        BY <3>1 DEF Put
      <3>3. dir' = [dir EXCEPT ![g] = Put(@ \ {w}, z)]
        BY <1>1, <2>1, <3>1, <3>2 DEF TypeOK
      <3>4. QED
        BY <1>1, <3>1, <3>3, PutSurvives
    <2>2. QED
      BY <1>2, <1>4, <2>1 DEF Mark
  <1>5. ASSUME NEW c \in Children, Rename(c) PROVE Survives(f, x)
    <2>1. ASSUME NEW w \in Selected(job[c]),
                 dir' = [dir EXCEPT ![job[c].folder] =
                           Put(@ \ {w}, [w EXCEPT !.info = Renamed(job[c])])]
          PROVE  Survives(f, x)
      <3> DEFINE z == [w EXCEPT !.info = Renamed(job[c])]
      <3>1. job[c].folder \in Folders /\ z.text = w.text
        BY <1>1, SelectedType DEF File
      <3>2. QED
        BY <1>1, <2>1, <3>1, PutSurvives
    <2>2. QED
      BY <1>2, <1>5, <2>1 DEF Rename
  <1>6. ASSUME NEW c \in Children, Unlink(c) PROVE Survives(f, x)
    <2>1. CASE Selected(job[c]) # {}
      <3>1. /\ dir' = [dir EXCEPT ![job[c].folder] = @ \ Selected(job[c])]
            /\ removed' = removed \cup ({y.text : y \in Selected(job[c])} \ {0})
        BY <1>6, <2>1 DEF Unlink
      <3>2. CASE x \in Selected(job[c])
        BY <3>1, <3>2 DEF Survives
      <3>3. CASE x \notin Selected(job[c])
        <4>1. x \in dir'[f]
          BY <1>1, <3>1, <3>3 DEF TypeOK
        <4>2. QED
          BY <4>1 DEF Survives
      <3>4. QED
        BY <3>2, <3>3
    <2>2. QED
      BY <1>2, <1>6, <2>1 DEF Unlink
  <1>7. ASSUME NEW c \in Children,
               \/ Resolve(c) \/ Scan(c) \/ Count(c) \/ ReadDir(c) \/ CheckRead(c)
               \/ Sort(c) \/ Read(c) \/ Reply(c)
               \/ \E r \in ClientRequests : Begin(c, r)
        PROVE  UNCHANGED dir
    BY <1>7 DEF Resolve, Scan, Count, ReadDir, CheckRead, Sort, Read, Reply, Begin
  <1>8. CASE Tick \/ Stop \/ Wait \/ UNCHANGED vars
    BY <1>2, <1>8 DEF Tick, Stop, Wait, vars
  <1>9. QED
    BY <1>2, <1>3, <1>3w, <1>4, <1>5, <1>6, <1>7, <1>8 DEF Next, Handle

(* However many children run and whenever they are killed, a text that was    *)
(* written disappears only when remover deletes it or when a message with the *)
(* same id, sender, second and length takes its file name, be it one whose    *)
(* own text is never written.                                                 *)
THEOREM LossOnlyToTwins == Spec => LossIsTwin
  <1>1. TypeInv /\ [Next]_vars =>
          [\A f \in Folders : \A x \in dir[f] : x.text # 0 =>
             \/ \E y \in dir'[f] : y.text = x.text
             \/ x.text \in removed'
             \/ \E y \in dir'[f] : SameHeader(x.info, y.info)]_vars
    BY LossStep DEF Survives
  <1>2. QED
    BY <1>1, TypeInvInit, TypeInvNext, PTL DEF Spec, LossIsTwin
------------------------------------------------------------------------------
(* The numbers of requests.  The daemon gives every request a number of its   *)
(* own; a child makes at most one file, and until it has opened it no file    *)
(* and no reply carries its number.                                           *)

Unwritten(j) == j.pc \notin {"idle", "write", "rename", "reply"}

Used == Stored \cup {a.reply : a \in answers}

NumbersOnce ==
    /\ \A c \in Children : job[c].num <= served
    /\ \A c, d \in Children :
          (job[c].pc # "idle" /\ job[d].pc # "idle" /\ job[c].num = job[d].num)
          => c = d
    /\ \A n \in Used : n <= served
    /\ \A c \in Children : Unwritten(job[c]) => job[c].num \notin Used

OneFile(S) == \A x, y \in S : x.msg = y.msg => x = y

OneFileEach == \A f \in Folders : OneFile(dir[f])

(* What a child remembers of the message it selected: where sort_Allfiles     *)
(* found it and, for a direct message, the bit of its file name.  The names   *)
(* that checkIfRead is still to be asked about are no direct messages.        *)
GoodSelection(j) ==
    /\ (/\ j.pc \in {"scan", "create", "write", "read", "mark", "rename", "unlink"}
        /\ j.req.command # "enviar")
       => /\ j.folder = FolderOf(j.sel.info, j.req.user)
          /\ j.sel.info.name = j.req.user => j.sel.read = j.sel.info.read
    /\ \A p \in j.list :
          p[2].info.name = j.req.user => p[2].read = p[2].info.read
    /\ \A p \in j.names : p[2].info.name # j.req.user

Selections == \A c \in Children : GoodSelection(job[c])

(* A step of one child changes its local state only.                          *)
LEMMA OneJob ==
    ASSUME TypeInv, NEW c \in Children, NEW j, Become(c, j)
    PROVE  \A d \in Children : job'[d] = IF d = c THEN j ELSE job[d]
  BY DEF TypeInv, TypeOK, Become

(* A file takes the place of one with its text, or is the first with it.      *)
LEMMA PutOneFile ==
    ASSUME NEW S, OneFile(S), NEW z
    PROVE  /\ \A w \in S : z.msg = w.msg => OneFile(Put(S \ {w}, z))
           /\ (\A y \in S : y.msg # z.msg) => OneFile(Put(S, z))
  BY DEF OneFile, Put

(* One folder changes.                                                        *)
LEMMA FolderOneFile ==
    ASSUME TypeOK, OneFileEach, NEW f \in Folders, NEW S, OneFile(S),
           dir' = [dir EXCEPT ![f] = S]
    PROVE  OneFileEach'
  BY DEF TypeOK, OneFileEach, OneFile

(* File w of folder g gives way to z, which holds the same text.              *)
Retold(g, w, z) ==
    /\ g \in Folders
    /\ w \in dir[g]
    /\ z.msg = w.msg
    /\ dir' = [dir EXCEPT ![g] = Put(@ \ {w}, z)]

(* ler's entry after the text leaves the name of the file as it was.          *)
LEMMA MarkShape ==
    ASSUME TypeInv, NEW c \in Children, Mark(c)
    PROVE  \/ UNCHANGED dir
           \/ \E w \in Selected(job[c]) : \E z :
                /\ Retold(job[c].folder, w, z)
                /\ z.info = w.info /\ z.text = w.text
  <1> DEFINE j == job[c]
  <1>1. TypeOK /\ j \in JobStates
    BY DEF TypeInv, TypeOK
  <1>2. ASSUME NEW w \in Selected(j),
               dir' = [dir EXCEPT ![j.folder] =
                         Put(@, [w EXCEPT !.trailer = Append(@, j.req.user)])]
        PROVE  \E z : Retold(j.folder, w, z) /\ z.info = w.info /\ z.text = w.text
    <2> DEFINE g == j.folder
               z == [w EXCEPT !.trailer = Append(@, j.req.user)]
    <2>1. /\ g \in Folders /\ w \in dir[g] /\ z.info = w.info /\ z.msg = w.msg
          /\ z.text = w.text
      BY <1>1, SelectedType DEF File
    <2>2. Put(dir[g], z) = Put(dir[g] \ {w}, z)
      BY <2>1 DEF Put
    <2>3. dir' = [dir EXCEPT ![g] = Put(@ \ {w}, z)]
      BY <1>1, <1>2, <2>1, <2>2 DEF TypeOK
    <2>4. Retold(g, w, z)
      BY <2>1, <2>3 DEF Retold
    <2>5. QED
      BY <2>1, <2>4
  <1>3. QED
    BY <1>2 DEF Mark

(* The new name of the selected file.                                         *)
LEMMA RenameShape ==
    ASSUME TypeInv, NEW c \in Children, Rename(c)
    PROVE  \/ UNCHANGED dir
           \/ \E w \in Selected(job[c]) : \E z :
                /\ Retold(job[c].folder, w, z)
                /\ z.info = Renamed(job[c]) /\ z.text = w.text
                /\ job[c].req.command = "ler" => job[c].sel.read = 0
  <1> DEFINE j == job[c]
  <1>1. TypeOK /\ j \in JobStates
    BY DEF TypeInv, TypeOK
  <1>2. ASSUME NEW w \in Selected(j),
               dir' = [dir EXCEPT ![j.folder] =
                         Put(@ \ {w}, [w EXCEPT !.info = Renamed(j)])]
        PROVE  \E z : /\ Retold(j.folder, w, z)
                      /\ z.info = Renamed(j) /\ z.text = w.text
    <2> DEFINE z == [w EXCEPT !.info = Renamed(j)]
    <2>1. /\ j.folder \in Folders /\ w \in dir[j.folder]
          /\ z.info = Renamed(j) /\ z.msg = w.msg /\ z.text = w.text
      BY <1>1, SelectedType DEF File
    <2>2. Retold(j.folder, w, z)
      BY <1>2, <2>1 DEF Retold
    <2>3. QED
      BY <2>1, <2>2
  <1>3. QED
    BY <1>2 DEF Rename

(* The text that is written leaves the name of the file as it was.            *)
LEMMA WriteShape ==
    ASSUME TypeInv, NEW c \in Children, Write(c)
    PROVE  \/ /\ UNCHANGED dir
              /\ \A x \in dir[job[c].folder] : x.msg # job[c].fd
           \/ \E w \in dir[job[c].folder] : \E z :
                /\ Retold(job[c].folder, w, z)
                /\ w \in File
                /\ w.msg = job[c].fd
                /\ z = Filled(w, job[c].num)
                /\ z.info = w.info
  <1> DEFINE g == job[c].folder
  <1>1. TypeOK /\ g \in Folders
    BY DEF TypeInv, TypeOK, GoodJob, Write
  <1>2. ASSUME NEW w \in dir[g], w.msg = job[c].fd,
               dir' = [dir EXCEPT ![g] = Put(@, Filled(w, job[c].num))]
        PROVE  \E z : /\ Retold(g, w, z) /\ w \in File
                      /\ z = Filled(w, job[c].num) /\ z.info = w.info
    <2> DEFINE z == Filled(w, job[c].num)
    <2>1. w \in File
      BY <1>1 DEF TypeOK
    <2>2. z.info = w.info /\ z.msg = w.msg
      BY <2>1, FilledKeeps
    <2> HIDE DEF z
    <2>3. Put(dir[g], z) = Put(dir[g] \ {w}, z)
      BY <2>2 DEF Put
    <2>4. dir' = [dir EXCEPT ![g] = Put(@ \ {w}, z)]
      BY <1>1, <1>2, <2>3 DEF TypeOK, z
    <2>5. Retold(g, w, z)
      BY <1>1, <2>2, <2>4 DEF Retold
    <2>6. QED
      BY <2>1, <2>2, <2>5 DEF z
  <1>3. QED
    BY <1>2 DEF Write

(* open makes a file with the number of the request, or empties the one that  *)
(* has the new name already.                                                  *)
LEMMA CreateShape ==
    ASSUME TypeInv, NEW c \in Children, Create(c)
    PROVE  \/ /\ job[c].folder \notin exists
              /\ UNCHANGED <<dir, answers>>
              /\ Exit(c)
           \/ \E m \in Nat :
                /\ job[c].folder \in exists
                /\ job[c].folder \in Folders
                /\ Become(c, [job[c] EXCEPT !.pc = "write", !.fd = m])
                /\ \/ /\ m = job[c].num
                      /\ dir' = [dir EXCEPT ![job[c].folder] =
                                   Put(@, NewFile(job[c], m))]
                   \/ \E w \in dir[job[c].folder] :
                        /\ Retold(job[c].folder, w, NewFile(job[c], m))
                        /\ w \in File
                        /\ w.info = NewInfo(job[c])
  <1> DEFINE j == job[c]
             g == j.folder
  <1>1. TypeOK /\ GoodJob(j) /\ j \in JobStates /\ j.pc = "create"
    BY DEF TypeInv, TypeOK, Create
  <1>2. CASE g \notin exists
    BY <1>2 DEF Create
  <1>3. ASSUME g \in exists, NEW m \in Opened(j),
               dir' = [dir EXCEPT ![g] = Put(@, NewFile(j, m))]
        PROVE  /\ m \in Nat /\ g \in Folders
               /\ \/ m = j.num
                  \/ \E w \in dir[g] : /\ Retold(g, w, NewFile(j, m))
                                        /\ w \in File
                                        /\ w.info = NewInfo(j)
    <2>1. m \in Nat /\ g \in Folders
      BY <1>1, <1>3, NewFileType DEF TypeOK
    <2>2. ASSUME NEW w \in dir[g], w.info = NewInfo(j), w.msg = m
          PROVE  Retold(g, w, NewFile(j, m)) /\ w \in File
      <3> DEFINE z == NewFile(j, m)
      <3>1. z.info = w.info /\ z.msg = w.msg
        BY <2>2 DEF NewFile
      <3> HIDE DEF z
      <3>2. Put(dir[g], z) = Put(dir[g] \ {w}, z)
        BY <3>1 DEF Put
      <3>3. dir' = [dir EXCEPT ![g] = Put(@ \ {w}, z)]
        BY <1>1, <1>3, <2>1, <3>2 DEF TypeOK, z
      <3>4. QED
        BY <1>1, <2>1, <3>1, <3>3 DEF Retold, TypeOK, z
    <2>3. m = j.num \/ \E w \in dir[g] : w.info = NewInfo(j) /\ w.msg = m
      BY <1>3 DEF Opened
    <2>4. QED
      BY <2>1, <2>2, <2>3
  <1>4. CASE g \in exists
    <2>1. PICK m \in Opened(j) :
            /\ dir' = [dir EXCEPT ![g] = Put(@, NewFile(j, m))]
            /\ Become(c, [j EXCEPT !.pc = "write", !.fd = m])
      BY <1>4 DEF Create
    <2>2. QED
      BY <1>3, <1>4, <2>1
  <1>5. QED
    BY <1>2, <1>4

StoreInv == TypeInv /\ NumbersOnce /\ OneFileEach /\ Selections

(* A text that moves to another file is still in one file.                    *)
LEMMA RetoldStored ==
    ASSUME TypeInv, OneFileEach, NEW g, NEW w, NEW z, Retold(g, w, z)
    PROVE  OneFileEach' /\ Stored' \subseteq Stored
  <1>1. TypeOK /\ g \in Folders /\ w \in dir[g] /\ z.msg = w.msg
    BY DEF TypeInv, Retold
  <1>2. dir' = [dir EXCEPT ![g] = Put(dir[g] \ {w}, z)]
    BY DEF Retold
  <1>3. OneFile(Put(dir[g] \ {w}, z))
    BY <1>1, PutOneFile DEF OneFileEach
  <1>4. OneFileEach'
    BY <1>1, <1>2, <1>3, FolderOneFile
  <1>5. ASSUME NEW f \in Folders, NEW x \in dir'[f] PROVE x.msg \in Stored
    <2>1. dir'[f] = IF f = g THEN Put(dir[g] \ {w}, z) ELSE dir[f]
      BY <1>1, <1>2 DEF TypeOK
    <2>2. x \in dir[f] \/ x = z
      BY <1>5, <2>1 DEF Put
    <2>3. QED
      BY <1>1, <2>2 DEF Stored, Files
  <1>6. QED
    BY <1>4, <1>5 DEF Stored, Files

(* A step of a child that has a request, or gives it up, and does not write.  *)
LEMMA QuietStep ==
    ASSUME StoreInv, TypeInv', NEW c \in Children, NEW j, Become(c, j),
           UNCHANGED <<served, answers>>, OneFileEach', Stored' \subseteq Stored,
           \/ j = IdleJob
           \/ /\ job[c].pc # "idle"
              /\ j.num = job[c].num
              /\ Unwritten(j) => Unwritten(job[c]),
           GoodSelection(j)
    PROVE  StoreInv'
  <1>1. \A d \in Children : job'[d] = IF d = c THEN j ELSE job[d]
    BY OneJob DEF StoreInv
  <1>2. Selections'
    BY <1>1 DEF StoreInv, Selections
  <1>3. Used' \subseteq Used
    BY DEF Used
  <1>4. NumbersOnce /\ served \in Nat
    BY DEF StoreInv, TypeInv, TypeOK
  <1>5. CASE j = IdleJob
    <2>1. j.num = 0 /\ j.pc = "idle" /\ ~ Unwritten(j)
      BY <1>5 DEF IdleJob, Unwritten
    <2>2. \A d \in Children : job'[d].num <= served'
      BY <1>1, <1>4, <2>1 DEF NumbersOnce
    <2>3. \A d \in Children : Unwritten(job'[d]) => job'[d].num \notin Used'
      BY <1>1, <1>3, <1>4, <2>1 DEF NumbersOnce
    <2>4. \A n \in Used' : n <= served'
      BY <1>3, <1>4 DEF NumbersOnce
    <2>5. \A d, e \in Children :
            (job'[d].pc # "idle" /\ job'[e].pc # "idle" /\ job'[d].num = job'[e].num)
            => d = e
      BY <1>1, <1>4, <2>1 DEF NumbersOnce
    <2>6. QED
      BY <1>2, <2>2, <2>3, <2>4, <2>5 DEF StoreInv, NumbersOnce
  <1>6. CASE /\ job[c].pc # "idle"
             /\ j.num = job[c].num
             /\ Unwritten(j) => Unwritten(job[c])
    <2>1. \A d \in Children :
            /\ job'[d].num = job[d].num
            /\ job'[d].pc # "idle" => job[d].pc # "idle"
            /\ Unwritten(job'[d]) => Unwritten(job[d])
      BY <1>1, <1>6
    <2>2. \A d \in Children : job'[d].num <= served'
      BY <1>4, <2>1 DEF NumbersOnce
    <2>3. \A d \in Children : Unwritten(job'[d]) => job'[d].num \notin Used'
      BY <1>3, <1>4, <2>1 DEF NumbersOnce
    <2>4. \A n \in Used' : n <= served'
      BY <1>3, <1>4 DEF NumbersOnce
    <2>5. \A d, e \in Children :
            (job'[d].pc # "idle" /\ job'[e].pc # "idle" /\ job'[d].num = job'[e].num)
            => d = e
      BY <1>4, <2>1 DEF NumbersOnce
    <2>6. QED
      BY <1>2, <2>2, <2>3, <2>4, <2>5 DEF StoreInv, NumbersOnce
  <1>7. QED
    BY <1>5, <1>6

(* The same when the files are left alone.                                    *)
LEMMA LookingStep ==
    ASSUME StoreInv, TypeInv', NEW c \in Children, NEW j, Become(c, j),
           UNCHANGED <<dir, served, answers>>,
           \/ j = IdleJob
           \/ /\ job[c].pc # "idle"
              /\ j.num = job[c].num
              /\ Unwritten(j) => Unwritten(job[c]),
           GoodSelection(j)
    PROVE  StoreInv'
  <1>1. OneFileEach' /\ Stored' \subseteq Stored
    BY DEF StoreInv, OneFileEach, Stored, Files
  <1>2. QED
    BY <1>1, QuietStep

(* The request has a number that no child and no file has.                    *)
LEMMA BeginStore ==
    ASSUME StoreInv, TypeInv', NEW c \in Children, NEW r \in ClientRequests,
           Begin(c, r)
    PROVE  StoreInv'
  <1> DEFINE j == [IdleJob EXCEPT
                     !.pc = IF r.command = "enviar" THEN "resolve" ELSE "count",
                     !.req = r,
                     !.num = served + 1,
                     !.folders = UserFolders(r.user)]
  <1>1. Become(c, j) /\ served' = served + 1 /\ UNCHANGED <<dir, answers>>
    BY DEF Begin, history
  <1>2. /\ j.num = served + 1 /\ j.pc \in {"resolve", "count"}
        /\ j.list = {} /\ j.names = {}
    BY DEF IdleJob
  <1> HIDE DEF j
  <1>3. \A d \in Children : job'[d] = IF d = c THEN j ELSE job[d]
    BY <1>1, OneJob DEF StoreInv
  <1>4. NumbersOnce /\ served \in Nat /\ \A d \in Children : job[d].num \in Nat
    BY DEF StoreInv, TypeInv, TypeOK, JobStates
  <1>5. Used' = Used /\ OneFileEach'
    BY <1>1 DEF StoreInv, Used, Stored, Files, OneFileEach
  <1>6. \A n \in Used : n # served + 1 /\ n <= served + 1
    <2>1. Used \subseteq Nat
      BY DEF StoreInv, TypeInv, TypeOK, Used, Stored, Files, File
    <2>2. \A n \in Used : n \in Nat /\ n <= served
      BY <1>4, <2>1 DEF NumbersOnce
    <2>3. QED
      BY <1>4, <2>2
  <1>7. \A d \in Children : job[d].num # served + 1 /\ job[d].num <= served + 1
    BY <1>4 DEF NumbersOnce
  <1>8. Selections'
    BY <1>2, <1>3 DEF StoreInv, Selections, GoodSelection
  <1>9. NumbersOnce'
    <2>1. \A d \in Children : job'[d].num <= served'
      BY <1>1, <1>2, <1>3, <1>4, <1>7
    <2>2. \A d \in Children : Unwritten(job'[d]) => job'[d].num \notin Used'
      BY <1>2, <1>3, <1>4, <1>5, <1>6 DEF NumbersOnce
    <2>3. \A n \in Used' : n <= served'
      BY <1>1, <1>5, <1>6
    <2>4. \A d, e \in Children :
            (job'[d].pc # "idle" /\ job'[e].pc # "idle" /\ job'[d].num = job'[e].num)
            => d = e
      BY <1>2, <1>3, <1>4, <1>7 DEF NumbersOnce
    <2>5. QED
      BY <2>1, <2>2, <2>3, <2>4 DEF NumbersOnce
  <1>10. QED
    BY <1>5, <1>8, <1>9 DEF StoreInv

(* The one file of a request is opened.                                       *)
LEMMA CreateStore ==
    ASSUME StoreInv, TypeInv', NEW c \in Children, Create(c)
    PROVE  StoreInv'
  <1> DEFINE j == job[c]
  <1>1. /\ TypeInv /\ TypeOK /\ j \in JobStates /\ GoodSelection(j)
        /\ j.pc = "create"
    BY DEF StoreInv, TypeInv, TypeOK, Selections, Create
  <1>2. CASE j.folder \notin exists
    BY <1>2, LookingStep DEF Create, Exit, GoodSelection, IdleJob, counters
  <1>3. CASE j.folder \in exists
    <2>0. PICK m \in Nat :
            /\ j.folder \in Folders
            /\ Become(c, [j EXCEPT !.pc = "write", !.fd = m])
            /\ \/ /\ m = j.num
                  /\ dir' = [dir EXCEPT ![j.folder] = Put(@, NewFile(j, m))]
               \/ \E w \in dir[j.folder] : Retold(j.folder, w, NewFile(j, m))
      BY <1>1, <1>3, CreateShape
    <2> DEFINE done == [j EXCEPT !.pc = "write", !.fd = m]
    <2>1. /\ Become(c, done)
          /\ served' = served
          /\ answers' = IF j.req.command = "enviar" THEN answers
                        ELSE answers \cup
                               {[reply |-> j.num, folder |-> j.folder,
                                 id |-> j.sel.info.id, msg |-> j.sel.msg]}
      BY <1>3, <2>0 DEF Create, counters
    <2>2. /\ done.num = j.num
          /\ done.pc = "write"
          /\ GoodSelection(done)
      BY <1>1 DEF JobStates, GoodSelection
    <2>3. ~ Unwritten(done) /\ done.pc # "idle"
      BY <2>2 DEF Unwritten
    <2> HIDE DEF done
    <2>4. \A d \in Children : job'[d] = IF d = c THEN done ELSE job[d]
      BY <2>1, OneJob DEF StoreInv
    <2>5. NewFile(j, m).msg = m
      BY DEF NewFile
    <2>6. Used' \subseteq Used \cup {j.num}
      <3>1. ASSUME m = j.num,
                   dir' = [dir EXCEPT ![j.folder] = Put(@, NewFile(j, m))]
            PROVE  Stored' \subseteq Stored \cup {j.num}
        <4>1. ASSUME NEW f \in Folders, NEW x \in dir'[f]
              PROVE  x.msg \in Stored \cup {j.num}
          <5>1. x \in dir[f] \/ x = NewFile(j, m)
            BY <1>1, <2>0, <3>1, <4>1 DEF TypeOK, Put
          <5>2. QED
            BY <2>5, <3>1, <5>1 DEF Stored, Files
        <4>2. QED
          BY <4>1 DEF Stored, Files
      <3>2. ASSUME NEW w, Retold(j.folder, w, NewFile(j, m))
            PROVE  Stored' \subseteq Stored
        BY <1>1, <3>2, RetoldStored DEF StoreInv
      <3>3. Stored' \subseteq Stored \cup {j.num}
        BY <2>0, <3>1, <3>2
      <3>4. {a.reply : a \in answers'} \subseteq {a.reply : a \in answers} \cup {j.num}
        BY <2>1
      <3>5. QED
        BY <3>3, <3>4 DEF Used
    <2>7. j.num \notin Used /\ NumbersOnce
      BY <1>1 DEF StoreInv, NumbersOnce, Unwritten
    <2>8. OneFileEach'
      <3>1. CASE /\ m = j.num
                 /\ dir' = [dir EXCEPT ![j.folder] = Put(@, NewFile(j, m))]
        <4>1. \A y \in dir[j.folder] : y.msg # NewFile(j, m).msg
          BY <2>0, <2>5, <2>7, <3>1 DEF Used, Stored, Files
        <4>2. OneFile(Put(dir[j.folder], NewFile(j, m)))
          BY <2>0, <4>1, PutOneFile DEF StoreInv, OneFileEach
        <4>3. QED
          BY <1>1, <2>0, <3>1, <4>2, FolderOneFile DEF StoreInv
      <3>2. ASSUME NEW w, Retold(j.folder, w, NewFile(j, m))
            PROVE  OneFileEach'
        BY <1>1, <3>2, RetoldStored DEF StoreInv
      <3>3. QED
        BY <2>0, <3>1, <3>2
    <2>9. NumbersOnce'
      <3>1. \A d \in Children : job'[d].num = job[d].num
        BY <2>2, <2>4
      <3>2. \A d \in Children : job'[d].num <= served'
        BY <2>1, <2>7, <3>1 DEF NumbersOnce
      <3>3. \A d \in Children : Unwritten(job'[d]) => job'[d].num \notin Used'
        <4>1. ASSUME NEW d \in Children, Unwritten(job'[d])
              PROVE  job'[d].num \notin Used'
          <5>1. d # c /\ Unwritten(job[d])
            BY <2>3, <2>4, <4>1
          <5>2. job[d].pc # "idle" /\ j.pc # "idle"
            BY <1>1, <5>1 DEF Unwritten
          <5>3. job[d].num # j.num
            BY <2>7, <5>1, <5>2 DEF NumbersOnce
          <5>4. job[d].num \notin Used
            BY <2>7, <5>1 DEF NumbersOnce
          <5>5. QED
            BY <2>6, <3>1, <5>3, <5>4
        <4>2. QED
          BY <4>1
      <3>4. \A n \in Used' : n <= served'
        BY <2>1, <2>6, <2>7 DEF NumbersOnce
      <3>5. \A d, e \in Children :
              (job'[d].pc # "idle" /\ job'[e].pc # "idle" /\ job'[d].num = job'[e].num)
              => d = e
        <4>1. \A d \in Children : job'[d].pc # "idle" => job[d].pc # "idle"
          BY <1>1, <2>4
        <4>2. QED
          BY <2>7, <3>1, <4>1 DEF NumbersOnce
      <3>6. QED
        BY <3>2, <3>3, <3>4, <3>5 DEF NumbersOnce
    <2>10. Selections'
      BY <2>2, <2>4 DEF StoreInv, Selections
    <2>11. QED
      BY <2>8, <2>9, <2>10 DEF StoreInv
  <1>4. QED
    BY <1>2, <1>3

(* Every other step: a child that looks at the store, appends to a file,      *)
(* renames one or deletes one, the clock and the kill.                        *)
LEMMA StoreInvNext == StoreInv /\ [Next]_vars => StoreInv'
  <1> SUFFICES ASSUME StoreInv, [Next]_vars PROVE StoreInv'
    OBVIOUS
  <1>1. TypeInv /\ TypeInv' /\ TypeOK
    BY TypeInvNext DEF StoreInv, TypeInv
  <1>2. \A c \in Children :
           job[c] \in JobStates /\ GoodJob(job[c]) /\ GoodSelection(job[c])
    BY <1>1 DEF TypeInv, TypeOK, StoreInv, Selections
  <1>3. GoodSelection(IdleJob)
    BY DEF GoodSelection, IdleJob
  <1>4. ASSUME NEW c \in Children, Exit(c), UNCHANGED <<dir, served, answers>>
        PROVE  StoreInv'
    BY <1>1, <1>3, <1>4, LookingStep DEF Exit
  <1>5. ASSUME NEW c \in Children, NEW r \in ClientRequests, Begin(c, r)
        PROVE  StoreInv'
    BY <1>1, <1>5, BeginStore
  <1>6. ASSUME NEW c \in Children, Create(c)
        PROVE  StoreInv'
    BY <1>1, <1>6, CreateStore
  <1>7. ASSUME NEW c \in Children, Resolve(c)
        PROVE  StoreInv'
    <2> DEFINE j == job[c]
    <2>1. j.pc = "resolve" /\ j.req.command = "enviar"
      BY <1>2, <1>7 DEF Resolve, GoodJob
    <2>2. UNCHANGED <<dir, served, answers>>
      BY <1>7 DEF Resolve, counters, history
    <2>3. ASSUME NEW f, Become(c, [j EXCEPT !.pc = "scan", !.folder = f])
          PROVE  StoreInv'
      <3> DEFINE k == [j EXCEPT !.pc = "scan", !.folder = f]
      <3>1. k.num = j.num /\ Unwritten(j) /\ j.pc # "idle" /\ GoodSelection(k)
        BY <1>2, <2>1 DEF JobStates, Unwritten, GoodSelection
      <3>2. QED
        BY <1>1, <2>2, <2>3, <3>1, LookingStep
    <2>4. QED
      BY <1>4, <1>7, <2>2, <2>3 DEF Resolve
  <1>8. ASSUME NEW c \in Children, Scan(c)
        PROVE  StoreInv'
    <2> DEFINE j == job[c]
    <2>1. PICK h : Become(c, [j EXCEPT !.pc = "create", !.id = h + 1, !.time = now])
      BY <1>8 DEF Scan
    <2> DEFINE i == h + 1
               k == [j EXCEPT !.pc = "create", !.id = i, !.time = now]
    <2>2. Become(c, k)
      BY <2>1
    <2> HIDE DEF i
    <2>3. k.num = j.num /\ Unwritten(j) /\ j.pc # "idle" /\ GoodSelection(k)
      BY <1>2, <1>8 DEF Scan, JobStates, Unwritten, GoodSelection
    <2>4. UNCHANGED <<dir, served, answers>>
      BY <1>8 DEF Scan, counters, history
    <2> HIDE DEF k
    <2>5. QED
      BY <1>1, <2>2, <2>3, <2>4, LookingStep
  <1>9. ASSUME NEW c \in Children, Count(c)
        PROVE  StoreInv'
    <2> DEFINE j == job[c]
               n == Cardinality(Listing(j.folders))
               k == [j EXCEPT !.pc = "sort", !.cnt = n, !.left = j.folders]
    <2>1. Become(c, k) /\ UNCHANGED <<dir, served, answers>>
      BY <1>9 DEF Count, counters, history
    <2> HIDE DEF n
    <2>2. k.num = j.num /\ Unwritten(j) /\ j.pc # "idle" /\ GoodSelection(k)
      BY <1>2, <1>9 DEF Count, JobStates, Unwritten, GoodSelection
    <2> HIDE DEF k
    <2>3. QED
      BY <1>1, <2>1, <2>2, LookingStep
  <1>9d. ASSUME NEW c \in Children, ReadDir(c)
         PROVE  StoreInv'
    <2> DEFINE j == job[c]
    <2>1. PICK f \in j.left :
            Become(c, [j EXCEPT
              !.left = @ \ {f},
              !.names = {p \in Entries(f) : p[2].info.name # j.req.user},
              !.list = @ \cup {p \in Entries(f) : p[2].info.name = j.req.user}])
      BY <1>9d DEF ReadDir
    <2>2. j.pc = "sort" /\ Unwritten(j) /\ UNCHANGED <<dir, served, answers>>
      BY <1>9d DEF ReadDir, Unwritten, counters, history
    <2>3. \A p \in Entries(f) : p[2].read = p[2].info.read
      BY DEF Entries, Entry
    <2> DEFINE l == j.left \ {f}
               n == {p \in Entries(f) : p[2].info.name # j.req.user}
               m == j.list \cup {p \in Entries(f) : p[2].info.name = j.req.user}
               k == [j EXCEPT !.left = l, !.names = n, !.list = m]
    <2>4. Become(c, k)
      BY <2>1
    <2>5. /\ \A p \in m : p[2].info.name = j.req.user => p[2].read = p[2].info.read
          /\ \A p \in n : p[2].info.name # j.req.user
      BY <1>2, <2>3 DEF GoodSelection
    <2> HIDE DEF l, n, m
    <2>6. k.num = j.num /\ GoodSelection(k)
      BY <1>2, <2>2, <2>5 DEF JobStates, GoodSelection
    <2> HIDE DEF k
    <2>7. QED
      BY <1>1, <2>2, <2>4, <2>6, LookingStep
  <1>9c. ASSUME NEW c \in Children, CheckRead(c)
         PROVE  StoreInv'
    <2> DEFINE j == job[c]
    <2>1. PICK p \in j.names, a \in {-1, 0, 1} :
            Become(c, [j EXCEPT
              !.names = @ \ {p},
              !.list = @ \cup {<<p[1], [p[2] EXCEPT !.read = a]>>}])
      <3>1. PICK p \in j.names :
              Become(c, [j EXCEPT
                !.names = @ \ {p},
                !.list = @ \cup {<<p[1], [p[2] EXCEPT
                    !.read = CheckIfRead(p[1], p[2].info, j.req.user)]>>}])
        BY <1>9c, Zenon DEF CheckRead
      <3>2. CheckIfRead(p[1], p[2].info, j.req.user) \in {-1, 0, 1}
        BY CheckType
      <3>3. QED
        BY <3>1, <3>2
    <2>2. j.pc = "sort" /\ Unwritten(j) /\ UNCHANGED <<dir, served, answers>>
      BY <1>9c DEF CheckRead, Unwritten, counters, history
    <2>3. p[2] \in Selection /\ p[2].info.name # j.req.user
      BY <1>2 DEF JobStates, GoodSelection
    <2>4. [p[2] EXCEPT !.read = a].info.name # j.req.user
      BY <2>3 DEF Selection
    <2> DEFINE e == [p[2] EXCEPT !.read = a]
               n == j.names \ {p}
               m == j.list \cup {<<p[1], e>>}
               k == [j EXCEPT !.names = n, !.list = m]
    <2>5. Become(c, k)
      BY <2>1
    <2>5e. e.info.name # j.req.user
      BY <2>4
    <2> HIDE DEF e
    <2>6. /\ \A q \in m : q[2].info.name = j.req.user => q[2].read = q[2].info.read
          /\ \A q \in n : q[2].info.name # j.req.user
      BY <1>2, <2>5e DEF GoodSelection
    <2> HIDE DEF n, m
    <2>7. k.num = j.num /\ GoodSelection(k)
      BY <1>2, <2>2, <2>6 DEF JobStates, GoodSelection
    <2> HIDE DEF k
    <2>8. QED
      BY <1>1, <2>2, <2>5, <2>7, LookingStep
  <1>10. ASSUME NEW c \in Children, Sort(c)
         PROVE  StoreInv'
    <2>0. PICK j : j = [job[c] EXCEPT !.list = {}]
      OBVIOUS
    <2> DEFINE taken(p) == [j EXCEPT !.pc = AfterSort(j.req.command),
                                     !.sel = p[2],
                                     !.folder = FolderOf(p[2].info, j.req.user)]
    <2>1. /\ job[c].pc = "sort" /\ Unwritten(job[c])
          /\ UNCHANGED <<dir, served, answers>>
      BY <1>2, <1>10, <2>0, SortShape DEF Unwritten, counters, history
    <2>2. /\ j \in JobStates /\ j.num = job[c].num /\ j.req = job[c].req
          /\ j.list = {} /\ j.names = {} /\ j.pc = "sort"
      BY <1>2, <1>10, <2>0, SortShape
    <2>3. /\ \A p \in job[c].list :
              p[2].info.name = j.req.user => p[2].read = p[2].info.read
          /\ \A p \in j.names : p[2].info.name # j.req.user
      BY <1>2, <2>2 DEF GoodSelection
    <2>4. ASSUME NEW p \in job[c].list, Become(c, taken(p))
          PROVE  StoreInv'
      <3> DEFINE e == p[2]
                 f == FolderOf(p[2].info, j.req.user)
                 pc == AfterSort(j.req.command)
                 k == [j EXCEPT !.pc = pc, !.sel = e, !.folder = f]
      <3>1. /\ f = FolderOf(e.info, j.req.user)
            /\ e.info.name = j.req.user => e.read = e.info.read
        BY <2>3
      <3> HIDE DEF e, f, pc
      <3>2. k.num = job[c].num /\ GoodSelection(k)
        BY <2>2, <2>3, <3>1 DEF JobStates, GoodSelection
      <3>3. Become(c, k)
        BY <2>4 DEF e, f, pc
      <3> HIDE DEF k
      <3>4. QED
        BY <1>1, <2>1, <3>2, <3>3, LookingStep
    <2>5. ASSUME Become(c, [j EXCEPT !.pc = "reply"])
          PROVE  StoreInv'
      <3> DEFINE k == [j EXCEPT !.pc = "reply"]
      <3>1. k.num = job[c].num /\ GoodSelection(k) /\ ~ Unwritten(k)
        BY <2>2, <2>3 DEF JobStates, GoodSelection, Unwritten
      <3>2. QED
        BY <1>1, <2>1, <2>5, <3>1, LookingStep
    <2>6. \/ Exit(c)
          \/ Become(c, [j EXCEPT !.pc = "reply"])
          \/ \E p \in job[c].list : Become(c, taken(p))
      BY <1>2, <1>10, <2>0, SortShape
    <2> HIDE DEF taken
    <2>7. QED
      BY <1>4, <2>1, <2>4, <2>5, <2>6
  <1>11. ASSUME NEW c \in Children, Read(c)
         PROVE  StoreInv'
    <2> DEFINE j == job[c]
    <2>1. j.pc = "read" /\ Unwritten(j) /\ UNCHANGED <<dir, served, answers>>
      BY <1>11 DEF Read, Unwritten, counters, history
    <2>2. ASSUME NEW k, \/ k = [j EXCEPT !.pc = "rename", !.flag = 1]
                        \/ k = [j EXCEPT !.pc = "mark"],
                 Become(c, k)
          PROVE  StoreInv'
      <3>1. CASE k = [j EXCEPT !.pc = "rename", !.flag = 1]
        <4>1. k.num = j.num /\ GoodSelection(k)
          BY <1>2, <2>1, <3>1 DEF JobStates, GoodSelection
        <4>2. QED
          BY <1>1, <2>1, <2>2, <4>1, LookingStep
      <3>2. CASE k = [j EXCEPT !.pc = "mark"]
        <4>1. k.num = j.num /\ GoodSelection(k)
          BY <1>2, <2>1, <3>2 DEF JobStates, GoodSelection
        <4>2. QED
          BY <1>1, <2>1, <2>2, <4>1, LookingStep
      <3>3. QED
        BY <2>2, <3>1, <3>2
    <2>3. QED
      BY <1>4, <1>11, <2>1, <2>2 DEF Read
  <1>12. ASSUME NEW c \in Children, Mark(c)
         PROVE  StoreInv'
    <2> DEFINE j == job[c]
    <2>1. j.pc = "mark" /\ Unwritten(j) /\ UNCHANGED <<served, answers>>
      BY <1>12 DEF Mark, Unwritten, counters, history
    <2>2. OneFileEach' /\ Stored' \subseteq Stored
      <3>1. CASE UNCHANGED dir
        BY <3>1 DEF StoreInv, OneFileEach, Stored, Files
      <3>2. ASSUME NEW w, NEW z, Retold(j.folder, w, z)
            PROVE  OneFileEach' /\ Stored' \subseteq Stored
        BY <1>1, <3>2, RetoldStored DEF StoreInv
      <3>3. QED
        BY <1>1, <1>12, <3>1, <3>2, MarkShape
    <2>3. ASSUME NEW n, Become(c, [j EXCEPT !.pc = "rename", !.flag = n])
          PROVE  StoreInv'
      <3> DEFINE k == [j EXCEPT !.pc = "rename", !.flag = n]
      <3>1. k.num = j.num /\ GoodSelection(k)
        BY <1>2, <2>1 DEF JobStates, GoodSelection
      <3>2. QED
        BY <1>1, <2>1, <2>2, <2>3, <3>1, QuietStep
    <2>4. ASSUME Exit(c) PROVE StoreInv'
      BY <1>1, <1>3, <2>1, <2>2, <2>4, QuietStep DEF Exit
    <2>5. QED
      BY <1>12, <2>3, <2>4 DEF Mark
  <1>13. ASSUME NEW c \in Children, NEW pc, job[c].pc \notin {"idle", "reply"},
                pc = "reply", Become(c, [job[c] EXCEPT !.pc = pc]),
                UNCHANGED <<served, answers>>, OneFileEach', Stored' \subseteq Stored
         PROVE  StoreInv'
    <2> DEFINE k == [job[c] EXCEPT !.pc = pc]
    <2>1. k.num = job[c].num /\ k.pc = "reply" /\ GoodSelection(k)
      BY <1>2, <1>13 DEF JobStates, GoodSelection
    <2>2. ~ Unwritten(k)
      BY <2>1 DEF Unwritten
    <2>3. QED
      BY <1>1, <1>13, <2>1, <2>2, QuietStep
  <1>13w. ASSUME NEW c \in Children, Write(c)
          PROVE  StoreInv'
    <2> DEFINE j == job[c]
               pc == IF j.req.command = "enviar" THEN "reply" ELSE "rename"
               k == [j EXCEPT !.pc = pc]
    <2>1. /\ j.pc = "write" /\ Become(c, k)
          /\ UNCHANGED <<served, answers>>
      BY <1>13w DEF Write, counters
    <2>2. pc \in {"reply", "rename"}
      OBVIOUS
    <2> HIDE DEF pc
    <2>3. k.num = j.num /\ GoodSelection(k) /\ ~ Unwritten(k)
      BY <1>2, <2>1, <2>2 DEF JobStates, GoodSelection, Unwritten
    <2>4. OneFileEach' /\ Stored' \subseteq Stored
      <3>1. CASE UNCHANGED dir
        BY <3>1 DEF StoreInv, OneFileEach, Stored, Files
      <3>2. ASSUME NEW w, NEW z, Retold(j.folder, w, z)
            PROVE  OneFileEach' /\ Stored' \subseteq Stored
        BY <1>1, <3>2, RetoldStored DEF StoreInv
      <3>3. QED
        BY <1>1, <1>13w, <3>1, <3>2, WriteShape
    <2> HIDE DEF k
    <2>5. QED
      BY <1>1, <2>1, <2>3, <2>4, QuietStep
  <1>14. ASSUME NEW c \in Children, Rename(c)
         PROVE  StoreInv'
    <2>1. OneFileEach' /\ Stored' \subseteq Stored
      <3>1. CASE UNCHANGED dir
        BY <3>1 DEF StoreInv, OneFileEach, Stored, Files
      <3>2. ASSUME NEW w, NEW z, Retold(job[c].folder, w, z)
            PROVE  OneFileEach' /\ Stored' \subseteq Stored
        BY <1>1, <3>2, RetoldStored DEF StoreInv
      <3>3. QED
        BY <1>1, <1>14, <3>1, <3>2, RenameShape
    <2>2. QED
      BY <1>13, <1>14, <2>1 DEF Rename, counters, history
  <1>15. ASSUME NEW c \in Children, Unlink(c)
         PROVE  StoreInv'
    <2>1. \A f \in Folders : dir'[f] \subseteq dir[f]
      <3>1. \/ UNCHANGED dir
            \/ dir' = [dir EXCEPT ![job[c].folder] = @ \ Selected(job[c])]
        BY <1>15 DEF Unlink
      <3>2. QED
        BY <1>1, <3>1 DEF TypeOK
    <2>2. OneFileEach' /\ Stored' \subseteq Stored
      <3>1. OneFileEach'
        BY <2>1 DEF StoreInv, OneFileEach, OneFile
      <3>2. Stored' \subseteq Stored
        BY <2>1 DEF Stored, Files
      <3>3. QED
        BY <3>1, <3>2
    <2>3. QED
      BY <1>13, <1>15, <2>2 DEF Unlink, counters
  <1>16. ASSUME NEW c \in Children, Reply(c)
         PROVE  StoreInv'
    BY <1>4, <1>16 DEF Reply, counters, history
  <1>17. CASE Tick \/ UNCHANGED vars
    BY <1>1, <1>17
    DEF Tick, vars, history, StoreInv, NumbersOnce, Used, Stored, Files, OneFileEach,
        Selections
  <1>18. CASE Stop
    <2>1. /\ UNCHANGED <<dir, served, answers>>
          /\ \A d \in Children : job'[d] = IdleJob
      BY <1>18 DEF Stop, history
    <2>2. IdleJob.num = 0 /\ IdleJob.pc = "idle" /\ ~ Unwritten(IdleJob)
      BY DEF IdleJob, Unwritten
    <2>3. served \in Nat
      BY <1>1 DEF TypeOK
    <2>4. NumbersOnce'
      BY <2>1, <2>2, <2>3 DEF StoreInv, NumbersOnce, Used, Stored, Files
    <2>5. OneFileEach' /\ Selections'
      BY <1>3, <2>1 DEF StoreInv, OneFileEach, Selections
    <2>6. QED
      BY <1>1, <2>4, <2>5 DEF StoreInv
  <1>19. QED
    BY <1>5, <1>6, <1>7, <1>8, <1>9, <1>9d, <1>9c, <1>10, <1>11, <1>12, <1>13w,
       <1>14, <1>15, <1>16, <1>17, <1>18
    DEF Next, Handle, Wait

(* At the start nothing has a number.                                         *)
LEMMA StoreInvInit == Init => StoreInv
  <1> SUFFICES ASSUME Init PROVE StoreInv
    OBVIOUS
  <1>1. TypeInv
    BY TypeInvInit
  <1>2. Used = {}
    BY DEF Init, Used, Stored, Files
  <1>3. NumbersOnce
    BY <1>2 DEF Init, NumbersOnce, IdleJob, Unwritten
  <1>4. OneFileEach /\ Selections
    BY DEF Init, OneFileEach, OneFile, Selections, GoodSelection, IdleJob
  <1>5. QED
    BY <1>1, <1>3, <1>4 DEF StoreInv

------------------------------------------------------------------------------
(* What a step may change in the name of a file.                              *)

(* Who sent it, to whom, when and in answer to what stays; replies are added; *)
(* a direct message that was read stays read.                                 *)
HeaderKept(x, y) ==
    /\ SameHeader(x.info, y.info)
    /\ x.info.nReplys <= y.info.nReplys
    /\ x.info.name \in Users => x.info.read <= y.info.read

(* The name ler or responder gives a file keeps what the old one said.  The   *)
(* bit is the one of the file because a direct message is selected in its     *)
(* reader's folder only: a group has no user's name.                          *)
LEMMA RenamedKeeps ==
    ASSUME StoreInv, Users \cap Groups = {}, NEW c \in Children,
           job[c].pc = "rename", NEW w \in Selected(job[c]), NEW z,
           z.info = Renamed(job[c]),
           job[c].req.command = "ler" => job[c].sel.read = 0
    PROVE  HeaderKept(w, z)
  <1> DEFINE j == job[c]
  <1>1. /\ TypeOK /\ j \in JobStates /\ GoodSelection(j)
        /\ j.req.command \in {"ler", "responder"} /\ j.sel \in Selection
        /\ j.req \in ConcordiaRequest
    BY DEF StoreInv, TypeInv, TypeOK, GoodJob, Selections
  <1>2. j.folder \in Folders /\ w \in File /\ w.info = j.sel.info
    BY <1>1, SelectedType
  <1>3. w.info \in FileInfo /\ j.sel.read \in Nat \cup {-1} /\ j.flag \in Nat
    BY <1>1, <1>2 DEF File, Selection, JobStates, ReadField
  <1>4. w.info.name = j.req.user \/ w.info.name \in Groups
    BY <1>1, <1>2, NamesAssumption DEF GoodSelection, FolderOf, NamesAssumption
  <1>5. w.info.name \in Users => j.sel.read = w.info.read
    BY <1>1, <1>2, <1>4 DEF GoodSelection
  <1>6. CASE j.req.command = "ler"
    <2>1. z.info = [w.info EXCEPT !.read = j.flag] /\ j.sel.read = 0
      BY <1>2, <1>6 DEF Renamed
    <2>2. QED
      BY <1>3, <1>5, <2>1 DEF HeaderKept, SameHeader, FileInfo, ReadField
  <1>7. CASE j.req.command = "responder"
    <2>1. z.info = [w.info EXCEPT !.read = j.sel.read, !.nReplys = @ + 1]
      BY <1>2, <1>7 DEF Renamed
    <2>2. QED
      BY <1>3, <1>5, <2>1 DEF HeaderKept, SameHeader, FileInfo, ReadField
  <1>8. QED
    BY <1>1, <1>6, <1>7

(* A message whose file gives way to another is still the same message.       *)
LEMMA RetoldKeeps ==
    ASSUME StoreInv, NEW g, NEW w, NEW z, Retold(g, w, z), HeaderKept(w, z),
           NEW f \in Folders, NEW x \in dir[f], NEW y \in dir'[f],
           x.msg = y.msg
    PROVE  HeaderKept(x, y)
  <1>1. /\ TypeOK /\ OneFile(dir[f]) /\ x \in File
        /\ g \in Folders /\ w \in dir[g] /\ z.msg = w.msg
    BY DEF StoreInv, TypeInv, TypeOK, OneFileEach, Retold
  <1>2. dir'[f] = IF f = g THEN Put(dir[g] \ {w}, z) ELSE dir[f]
    BY <1>1 DEF TypeOK, Retold
  <1>3. CASE y \in dir[f]
    <2>1. x = y
      BY <1>1, <1>3 DEF OneFile
    <2>2. QED
      BY <1>1, <2>1 DEF HeaderKept, SameHeader, File, FileInfo, ReadField
  <1>4. CASE f = g /\ y = z
    <2>1. x = w
      BY <1>1, <1>4 DEF OneFile
    <2>2. QED
      BY <1>4, <2>1
  <1>5. QED
    BY <1>2, <1>3, <1>4 DEF Put

(* The same for any step that adds no other file.                             *)
LEMMA HeaderStep ==
    ASSUME StoreInv, [Next]_vars, Users \cap Groups = {},
           NEW f \in Folders, NEW x \in dir[f], NEW y \in dir'[f],
           x.msg = y.msg
    PROVE  HeaderKept(x, y)
  <1>1. /\ TypeInv /\ TypeOK /\ OneFile(dir[f]) /\ x \in File
        /\ NumbersOnce
    BY DEF StoreInv, TypeInv, TypeOK, OneFileEach
  <1>2. ASSUME y \in dir[f] PROVE HeaderKept(x, y)
    <2>1. x = y
      BY <1>1, <1>2 DEF OneFile
    <2>2. QED
      BY <1>1, <2>1 DEF HeaderKept, SameHeader, File, FileInfo, ReadField
  <1>3. ASSUME UNCHANGED dir PROVE HeaderKept(x, y)
    BY <1>2, <1>3
  <1>4. ASSUME NEW c \in Children, Create(c) PROVE HeaderKept(x, y)
    <2> DEFINE j == job[c]
    <2>1. ASSUME j.folder \in Folders,
                 dir' = [dir EXCEPT ![j.folder] = Put(@, NewFile(j, j.num))]
          PROVE  HeaderKept(x, y)
      <3>1. y \in dir[f] \/ y.msg = j.num
        BY <1>1, <2>1 DEF TypeOK, Put, NewFile
      <3>2. x.msg # j.num
        BY <1>1, <1>4 DEF Create, NumbersOnce, Unwritten, Used, Stored, Files
      <3>3. QED
        BY <1>2, <3>1, <3>2
    <2>2. ASSUME NEW m, NEW w \in dir[j.folder], w \in File,
                 Retold(j.folder, w, NewFile(j, m)), w.info = NewInfo(j)
          PROVE  HeaderKept(x, y)
      <3> DEFINE z == NewFile(j, m)
      <3>1. z.info = w.info
        BY <2>2 DEF NewFile
      <3>2. HeaderKept(w, z)
        BY <2>2, <3>1 DEF HeaderKept, SameHeader, File, FileInfo, ReadField
      <3> HIDE DEF z
      <3>3. QED
        BY <2>2, <3>2, RetoldKeeps DEF z
    <2>3. QED
      BY <1>1, <1>3, <1>4, <2>1, <2>2, CreateShape
  <1>4w. ASSUME NEW c \in Children, Write(c) PROVE HeaderKept(x, y)
    <2>1. ASSUME NEW w \in File, NEW z,
                 Retold(job[c].folder, w, z), z.info = w.info
          PROVE  HeaderKept(x, y)
      <3>1. HeaderKept(w, z)
        BY <2>1 DEF HeaderKept, SameHeader, File, FileInfo, ReadField
      <3>2. QED
        BY <2>1, <3>1, RetoldKeeps
    <2>2. QED
      BY <1>1, <1>3, <1>4w, <2>1, WriteShape
  <1>5. ASSUME NEW c \in Children, Mark(c) PROVE HeaderKept(x, y)
    <2>1. ASSUME NEW w \in Selected(job[c]), NEW z,
                 Retold(job[c].folder, w, z), z.info = w.info
          PROVE  HeaderKept(x, y)
      <3>1. w \in File
        BY <1>1, SelectedType DEF TypeInv, TypeOK
      <3>2. HeaderKept(w, z)
        BY <2>1, <3>1 DEF HeaderKept, SameHeader, File, FileInfo, ReadField
      <3>3. QED
        BY <2>1, <3>2, RetoldKeeps
    <2>2. QED
      BY <1>1, <1>3, <1>5, <2>1, MarkShape
  <1>6. ASSUME NEW c \in Children, Rename(c) PROVE HeaderKept(x, y)
    <2>1. ASSUME NEW w \in Selected(job[c]), NEW z,
                 Retold(job[c].folder, w, z), z.info = Renamed(job[c]),
                 job[c].req.command = "ler" => job[c].sel.read = 0
          PROVE  HeaderKept(x, y)
      <3>1. HeaderKept(w, z)
        BY <1>6, <2>1, RenamedKeeps DEF Rename
      <3>2. QED
        BY <2>1, <3>1, RetoldKeeps
    <2>2. QED
      BY <1>1, <1>3, <1>6, <2>1, RenameShape
  <1>7. ASSUME NEW c \in Children, Unlink(c) PROVE HeaderKept(x, y)
    <2>1. \/ UNCHANGED dir
          \/ dir' = [dir EXCEPT ![job[c].folder] = @ \ Selected(job[c])]
      BY <1>7 DEF Unlink
    <2>2. y \in dir[f]
      BY <1>1, <2>1 DEF TypeOK
    <2>3. QED
      BY <1>2, <2>2
  <1>8. ASSUME NEW c \in Children,
               \/ Resolve(c) \/ Scan(c) \/ Count(c) \/ ReadDir(c) \/ CheckRead(c)
               \/ Sort(c) \/ Read(c) \/ Reply(c)
               \/ \E r \in ClientRequests : Begin(c, r)
        PROVE  UNCHANGED dir
    BY <1>8 DEF Resolve, Scan, Count, ReadDir, CheckRead, Sort, Read, Reply, Begin
  <1>9. CASE Tick \/ Stop \/ Wait \/ UNCHANGED vars
    BY <1>3, <1>9 DEF Tick, Stop, Wait, vars
  <1>10. QED
    BY <1>3, <1>4, <1>4w, <1>5, <1>6, <1>7, <1>8, <1>9 DEF Next, Handle

(* However many children run, no rename of ler or responder changes who sent  *)
(* a message, to whom, when, or what it answers, takes a reply off its count, *)
(* or makes a direct message unread again.  criar never makes a group with a  *)
(* user's name, since groupadd refuses the name of a user's private group.    *)
THEOREM HeadersStay ==
    ASSUME Users \cap Groups = {}
    PROVE  Spec => HeaderMonotone
  <1>1. StoreInv /\ [Next]_vars =>
          [\A f \in Folders : \A x \in dir[f] : \A y \in dir'[f] :
             x.msg = y.msg =>
               /\ SameHeader(x.info, y.info)
               /\ x.info.nReplys <= y.info.nReplys
               /\ x.info.name \in Users => x.info.read <= y.info.read]_vars
    BY HeaderStep DEF HeaderKept
  <1>2. QED
    BY <1>1, StoreInvInit, StoreInvNext, PTL DEF Spec, HeaderMonotone

------------------------------------------------------------------------------
(* The count in a file's name.  responder opens the reply first and renames   *)
(* the answered message once the reply is written, so what bounds the count   *)
(* is the written replies whose child is not still to do its rename.          *)

Answering(j) == j.pc \in {"write", "rename"} /\ j.req.command = "responder"

Counted(f, i) ==
    {a \in answers :
        /\ a.folder = f
        /\ a.id = i
        /\ a.reply \in sent
        /\ \A c \in Children : Answering(job[c]) => job[c].num # a.reply}

(* A child that is still to do its rename has opened its reply, and has       *)
(* written it when the rename comes next.                                     *)
Answered ==
    \A c \in Children : Answering(job[c]) =>
        /\ \E a \in answers : /\ a.reply = job[c].num
                              /\ a.folder = job[c].folder
                              /\ a.id = job[c].sel.info.id
        /\ job[c].pc = "rename" => job[c].num \in sent

CountsFit ==
    \A f \in Folders : \A x \in dir[f] :
        x.info.nReplys <= Cardinality(Counted(f, x.info.id))

CountInv == StoreInv /\ IsFiniteSet(answers) /\ Answered /\ CountsFit

(* Replies stay counted: a child that starts to owe a rename owes it for a    *)
(* reply that was not there.                                                  *)
LEMMA CountedGrows ==
    ASSUME answers \subseteq answers', sent \subseteq sent',
           \A d \in Children : Answering(job'[d]) =>
              \/ Answering(job[d]) /\ job'[d].num = job[d].num
              \/ job'[d].num \notin Used,
           NEW f, NEW i
    PROVE  Counted(f, i) \subseteq Counted(f, i)'
  <1>1. ASSUME NEW a \in Counted(f, i) PROVE a \in Counted(f, i)'
    <2>1. /\ a \in answers /\ a.folder = f /\ a.id = i /\ a.reply \in Used
          /\ a.reply \in sent
          /\ \A c \in Children : Answering(job[c]) => job[c].num # a.reply
      BY DEF Counted, Used
    <2>2. \A d \in Children : Answering(job'[d]) => job'[d].num # a.reply
      BY <2>1
    <2>3. Counted(f, i)' =
            {b \in answers' :
               /\ b.folder = f
               /\ b.id = i
               /\ b.reply \in sent'
               /\ \A c \in Children : Answering(job'[c]) => job'[c].num # b.reply}
      BY DEF Counted, Answering
    <2>4. QED
      BY <2>1, <2>2, <2>3
  <1>2. QED
    BY <1>1

(* A count fits if it was there before, or is one more than it was and there  *)
(* is a reply more.                                                           *)
LEMMA FitsStep ==
    ASSUME CountsFit, TypeOK, TypeOK', IsFiniteSet(answers'),
           \A f, i : Counted(f, i) \subseteq Counted(f, i)',
           \A f \in Folders : \A y \in dir'[f] :
              \/ y.info.nReplys = 0
              \/ \E x \in dir[f] :
                    /\ x.info.id = y.info.id
                    /\ \/ x.info.nReplys = y.info.nReplys
                       \/ /\ y.info.nReplys = x.info.nReplys + 1
                          /\ Counted(f, y.info.id) # Counted(f, y.info.id)'
    PROVE  CountsFit'
  <1>1. ASSUME NEW f \in Folders, NEW y \in dir'[f]
        PROVE  y.info.nReplys <= Cardinality(Counted(f, y.info.id)')
    <2>1. PICK i : i = y.info.id
      OBVIOUS
    <2>2. /\ IsFiniteSet(Counted(f, i)')
          /\ Counted(f, i) \subseteq Counted(f, i)'
      <3>1. Counted(f, i)' \subseteq answers'
        BY DEF Counted
      <3>2. QED
        BY <3>1, FS_Subset
    <2>3. /\ IsFiniteSet(Counted(f, i))
          /\ Cardinality(Counted(f, i)) <= Cardinality(Counted(f, i)')
          /\ Counted(f, i) # Counted(f, i)' =>
               Cardinality(Counted(f, i)) # Cardinality(Counted(f, i)')
      BY <2>2, FS_Subset
    <2>4. /\ Cardinality(Counted(f, i)) \in Nat
          /\ Cardinality(Counted(f, i)') \in Nat
      BY <2>2, <2>3, FS_CardinalityType
    <2>5. y.info.nReplys \in Nat /\ \A x \in dir[f] : x.info.nReplys \in Nat
      BY DEF TypeOK, File, FileInfo
    <2>6. \A x \in dir[f] :
             x.info.id = i => x.info.nReplys <= Cardinality(Counted(f, i))
      BY DEF CountsFit
    <2>7. y.info.nReplys <= Cardinality(Counted(f, i)')
      <3>1. CASE y.info.nReplys = 0
        BY <2>4, <3>1
      <3>2. ASSUME NEW x \in dir[f], x.info.id = i,
                   \/ x.info.nReplys = y.info.nReplys
                   \/ /\ y.info.nReplys = x.info.nReplys + 1
                      /\ Counted(f, i) # Counted(f, i)'
            PROVE  y.info.nReplys <= Cardinality(Counted(f, i)')
        BY <2>3, <2>4, <2>5, <2>6, <3>2
      <3>3. QED
        BY <2>1, <3>1, <3>2
    <2>8. QED
      BY <2>1, <2>7
  <1>2. QED
    BY <1>1 DEF CountsFit

(* Files that were there, or that hold the text of one that was there, are    *)
(* what a step leaves that writes no reply and counts none.                   *)
LEMMA KeptFits ==
    ASSUME CountInv, TypeOK', UNCHANGED answers, sent \subseteq sent',
           \A d \in Children : Answering(job'[d]) =>
              Answering(job[d]) /\ job'[d].num = job[d].num,
           \A f \in Folders : \A y \in dir'[f] :
              \/ y.info.nReplys = 0
              \/ \E x \in dir[f] : /\ x.info.id = y.info.id
                                   /\ x.info.nReplys = y.info.nReplys
    PROVE  CountsFit'
  <1>1. \A f, i : Counted(f, i) \subseteq Counted(f, i)'
    BY CountedGrows
  <1>2. TypeOK /\ IsFiniteSet(answers')
    BY DEF CountInv, StoreInv, TypeInv
  <1>3. QED
    BY <1>1, <1>2, FitsStep DEF CountInv

(* Only Create and Write leave a child owing a rename.                        *)
LEMMA OwesNothing ==
    ASSUME TypeInv, NEW c \in Children,
           \/ \E r \in ClientRequests : Begin(c, r)
           \/ Resolve(c) \/ Scan(c) \/ Count(c) \/ ReadDir(c) \/ CheckRead(c)
           \/ Sort(c) \/ Read(c) \/ Mark(c) \/ Rename(c) \/ Unlink(c) \/ Reply(c)
    PROVE  answers' = answers /\ sent' = sent /\ ~ Answering(job'[c])
  <1> DEFINE j == job[c]
  <1>1. TypeOK /\ j \in JobStates /\ GoodJob(j)
    BY DEF TypeInv, TypeOK
  <1>2. ASSUME NEW k, Become(c, k) PROVE job'[c] = k
    BY <1>1, <1>2 DEF Become, TypeOK
  <1>3. ASSUME Exit(c) PROVE ~ Answering(job'[c])
    BY <1>2, <1>3 DEF Exit, Answering, IdleJob
  <1>4. ASSUME NEW pc, pc \notin {"write", "rename"}, Become(c, [j EXCEPT !.pc = pc])
        PROVE  ~ Answering(job'[c])
    BY <1>1, <1>2, <1>4 DEF Answering, JobStates
  <1>5. ASSUME NEW r \in ClientRequests, Begin(c, r)
        PROVE  answers' = answers /\ sent' = sent /\ ~ Answering(job'[c])
    <2>1. job'[c] = [IdleJob EXCEPT
                       !.pc = IF r.command = "enviar" THEN "resolve" ELSE "count",
                       !.req = r,
                       !.num = served + 1,
                       !.folders = UserFolders(r.user)]
      BY <1>2, <1>5 DEF Begin
    <2>2. job'[c].pc \in {"resolve", "count"}
      BY <2>1 DEF IdleJob
    <2>3. QED
      BY <1>5, <2>2 DEF Begin, Answering, history
  <1>6. CASE Resolve(c)
    <2>1. ASSUME NEW f, Become(c, [j EXCEPT !.pc = "scan", !.folder = f])
          PROVE  ~ Answering(job'[c])
      BY <1>1, <1>2, <2>1 DEF Answering, JobStates
    <2>2. QED
      BY <1>3, <1>6, <2>1 DEF Resolve, history
  <1>7. CASE Scan(c)
    <2>1. PICK h : Become(c, [j EXCEPT !.pc = "create", !.id = h + 1, !.time = now])
      BY <1>7 DEF Scan
    <2>2. job'[c].pc = "create"
      BY <1>1, <1>2, <2>1 DEF JobStates
    <2>3. QED
      BY <1>7, <2>2 DEF Scan, Answering, history
  <1>8. CASE Count(c)
    <2>1. job'[c].pc = "sort"
      BY <1>1, <1>2, <1>8 DEF Count, JobStates
    <2>2. QED
      BY <1>8, <2>1 DEF Count, Answering, history
  <1>8d. CASE ReadDir(c)
    <2>1. PICK l, n, k : Become(c, [j EXCEPT !.left = l, !.names = n, !.list = k])
      BY <1>8d DEF ReadDir
    <2>2. job'[c].pc = "sort"
      BY <1>1, <1>2, <1>8d, <2>1 DEF ReadDir, JobStates
    <2>3. QED
      BY <1>8d, <2>2 DEF ReadDir, Answering, history
  <1>8c. CASE CheckRead(c)
    <2>1. PICK n, k : Become(c, [j EXCEPT !.names = n, !.list = k])
      BY <1>8c DEF CheckRead
    <2>2. job'[c].pc = "sort"
      BY <1>1, <1>2, <1>8c, <2>1 DEF CheckRead, JobStates
    <2>3. QED
      BY <1>8c, <2>2 DEF CheckRead, Answering, history
  <1>9. CASE Sort(c)
    <2>0. PICK k : k = [j EXCEPT !.list = {}]
      OBVIOUS
    <2> DEFINE taken(p) == [k EXCEPT !.pc = AfterSort(k.req.command),
                                     !.sel = p[2],
                                     !.folder = FolderOf(p[2].info, k.req.user)]
    <2>1. k \in JobStates /\ k.req = j.req /\ j.pc = "sort" /\ UNCHANGED history
      BY <1>1, <1>9, <2>0, SortShape
    <2>2. ASSUME NEW p, k.req.command # "listar", Become(c, taken(p))
          PROVE  ~ Answering(job'[c])
      <3>1. k.req.command \in {"ler", "responder", "remover"}
        BY <1>1, <2>1, <2>2 DEF GoodJob, ConcordiaRequest, Commands
      <3>2. job'[c].pc = AfterSort(k.req.command)
        BY <1>2, <2>1, <2>2 DEF JobStates
      <3>3. QED
        BY <3>1, <3>2 DEF AfterSort, Answering
    <2>3. Become(c, [k EXCEPT !.pc = "reply"]) => ~ Answering(job'[c])
      BY <1>2, <2>1 DEF JobStates, Answering
    <2>4. \/ Exit(c)
          \/ Become(c, [k EXCEPT !.pc = "reply"])
          \/ k.req.command # "listar" /\ \E p : Become(c, taken(p))
      BY <1>1, <1>9, <2>0, SortShape
    <2> HIDE DEF taken
    <2>5. QED
      BY <1>3, <2>1, <2>2, <2>3, <2>4 DEF history
  <1>10. CASE Read(c)
    <2>1. j.req.command = "ler"
      BY <1>1, <1>10 DEF Read, GoodJob
    <2>2. Become(c, [j EXCEPT !.pc = "rename", !.flag = 1]) => ~ Answering(job'[c])
      BY <1>1, <1>2, <2>1 DEF Answering, JobStates
    <2>3. QED
      BY <1>3, <1>4, <1>10, <2>2 DEF Read, history
  <1>11. CASE Mark(c)
    <2>1. j.req.command = "ler"
      BY <1>1, <1>11 DEF Mark, GoodJob
    <2>2. ASSUME NEW n, Become(c, [j EXCEPT !.pc = "rename", !.flag = n])
          PROVE  ~ Answering(job'[c])
      BY <1>1, <1>2, <2>1, <2>2 DEF Answering, JobStates
    <2>3. QED
      BY <1>3, <1>11, <2>2 DEF Mark, history
  <1>12. CASE Rename(c) \/ Unlink(c) \/ Reply(c)
    BY <1>3, <1>4, <1>12 DEF Rename, Unlink, Reply, history
  <1>13. QED
    BY <1>5, <1>6, <1>7, <1>8, <1>8d, <1>8c, <1>9, <1>10, <1>11, <1>12

(* The reply that responder opens is not counted until it is written and the  *)
(* rename is done, and the new file starts with no replies.                   *)
LEMMA CreateCount ==
    ASSUME CountInv, StoreInv', NEW c \in Children, Create(c)
    PROVE  CountInv'
  <1> DEFINE j == job[c]
             own == [reply |-> j.num, folder |-> j.folder,
                     id |-> j.sel.info.id, msg |-> j.sel.msg]
  <1>1. /\ TypeInv /\ TypeOK /\ TypeOK' /\ j \in JobStates /\ NumbersOnce
        /\ j.pc = "create" /\ GoodJob(j)
    BY DEF CountInv, StoreInv, TypeInv, TypeOK, Create
  <1>2. /\ answers \subseteq answers'
        /\ IsFiniteSet(answers')
        /\ sent' = sent
    <2>1. answers' \in {answers, answers \cup {own}} /\ sent' = sent
      BY DEF Create
    <2>2. IsFiniteSet(answers \cup {own})
      BY FS_AddElement DEF CountInv
    <2>3. QED
      BY <2>1, <2>2 DEF CountInv
  <1>3. Answering(job'[c]) => /\ own \in answers'
                              /\ job'[c].num = j.num
                              /\ job'[c].folder = j.folder
                              /\ job'[c].sel = j.sel
                              /\ job'[c].pc = "write"
    <2>1. CASE j.folder \in exists
      <3>1. PICK m : Become(c, [j EXCEPT !.pc = "write", !.fd = m])
        BY <2>1 DEF Create
      <3> DEFINE done == [j EXCEPT !.pc = "write", !.fd = m]
      <3>2. job'[c] = done
        BY <1>1, <3>1, OneJob
      <3>3. /\ done.pc = "write" /\ done.req = j.req /\ done.num = j.num
            /\ done.folder = j.folder /\ done.sel = j.sel
        BY <1>1 DEF JobStates
      <3> HIDE DEF done
      <3>4. Answering(done) => j.req.command # "enviar"
        BY <3>3 DEF Answering
      <3>5. j.req.command # "enviar" => answers' = answers \cup {own}
        BY <2>1 DEF Create
      <3>6. QED
        BY <3>2, <3>3, <3>4, <3>5
    <2>2. CASE j.folder \notin exists
      <3>1. job'[c] = IdleJob
        BY <1>1, <2>2, OneJob DEF Create, Exit
      <3>2. QED
        BY <3>1 DEF Answering, IdleJob
    <2>3. QED
      BY <2>1, <2>2
  <1>4. \A d \in Children : d # c => job'[d] = job[d]
    <2>1. \E k : Become(c, k)
      BY DEF Create, Exit
    <2>2. QED
      BY <1>1, <2>1, OneJob
  <1>5. Answered'
    <2>1. ASSUME NEW d \in Children, Answering(job'[d])
          PROVE  /\ \E a \in answers' : /\ a.reply = job'[d].num
                                        /\ a.folder = job'[d].folder
                                        /\ a.id = job'[d].sel.info.id
                 /\ job'[d].pc = "rename" => job'[d].num \in sent'
      <3>1. CASE d = c
        <4>1. /\ own.reply = job'[d].num
              /\ own.folder = job'[d].folder
              /\ own.id = job'[d].sel.info.id
          BY <1>3, <2>1, <3>1
        <4>2. QED
          BY <1>3, <2>1, <3>1, <4>1
      <3>2. CASE d # c
        BY <1>2, <1>4, <2>1, <3>2 DEF CountInv, Answered
      <3>3. QED
        BY <3>1, <3>2
    <2>2. QED
      BY <2>1 DEF Answered, Answering
  <1>6. CountsFit'
    <2>1. j.num \notin Used
      BY <1>1 DEF NumbersOnce, Unwritten
    <2>2. \A d \in Children : Answering(job'[d]) =>
             \/ Answering(job[d]) /\ job'[d].num = job[d].num
             \/ job'[d].num \notin Used
      BY <1>3, <1>4, <2>1
    <2>3. \A f, i : Counted(f, i) \subseteq Counted(f, i)'
      BY <1>2, <2>2, CountedGrows
    <2>4. ASSUME NEW f \in Folders, NEW y \in dir'[f]
          PROVE  y.info.nReplys = 0 \/ y \in dir[f]
      <3>1. CASE j.folder \in exists
        <4>1. PICK m : dir' = [dir EXCEPT ![j.folder] = Put(@, NewFile(j, m))]
          BY <3>1 DEF Create
        <4>2. y \in dir[f] \/ y = NewFile(j, m)
          BY <1>1, <2>4, <3>1, <4>1 DEF TypeOK, Put
        <4>3. QED
          BY <4>2 DEF NewFile, NewInfo
      <3>2. CASE j.folder \notin exists
        BY <2>4, <3>2 DEF Create
      <3>3. QED
        BY <3>1, <3>2
    <2>5. QED
      BY <1>1, <1>2, <2>3, <2>4, FitsStep DEF CountInv
  <1>7. QED
    BY <1>2, <1>5, <1>6 DEF CountInv

(* Once its text is written, what is left of a reply is the rename.           *)
LEMMA WriteCount ==
    ASSUME CountInv, StoreInv', NEW c \in Children, Write(c)
    PROVE  CountInv'
  <1> DEFINE j == job[c]
             next == [j EXCEPT !.pc = IF j.req.command = "enviar"
                                      THEN "reply" ELSE "rename"]
  <1>1. /\ TypeInv /\ TypeOK /\ TypeOK' /\ j \in JobStates
        /\ j.pc = "write" /\ GoodJob(j)
    BY DEF CountInv, StoreInv, TypeInv, TypeOK, Write
  <1>2. /\ answers' = answers /\ sent' = sent \cup {j.num} /\ Become(c, next)
    BY DEF Write
  <1>3. \A d \in Children : job'[d] = IF d = c THEN next ELSE job[d]
    BY <1>1, <1>2, OneJob
  <1>4. /\ next.num = j.num /\ next.req = j.req
        /\ next.folder = j.folder /\ next.sel = j.sel
        /\ Answering(next) => Answering(j)
    BY <1>1 DEF JobStates, Answering
  <1> HIDE DEF next
  <1>5. Answered'
    <2>1. ASSUME NEW d \in Children, Answering(job'[d])
          PROVE  /\ \E a \in answers' : /\ a.reply = job'[d].num
                                        /\ a.folder = job'[d].folder
                                        /\ a.id = job'[d].sel.info.id
                 /\ job'[d].pc = "rename" => job'[d].num \in sent'
      <3>1. CASE d = c
        BY <1>2, <1>3, <1>4, <2>1, <3>1 DEF CountInv, Answered
      <3>2. CASE d # c
        BY <1>2, <1>3, <2>1, <3>2 DEF CountInv, Answered
      <3>3. QED
        BY <3>1, <3>2
    <2>2. QED
      BY <2>1 DEF Answered, Answering
  <1>6. CountsFit'
    <2>1. \A d \in Children : Answering(job'[d]) =>
             Answering(job[d]) /\ job'[d].num = job[d].num
      BY <1>3, <1>4
    <2>2. ASSUME NEW f \in Folders, NEW y \in dir'[f]
          PROVE  \E x \in dir[f] : x.info = y.info
      <3>1. CASE UNCHANGED dir
        BY <2>2, <3>1
      <3>2. ASSUME NEW w, NEW z, Retold(j.folder, w, z), z.info = w.info
            PROVE  \E x \in dir[f] : x.info = y.info
        <4>1. dir'[f] = IF f = j.folder THEN Put(dir[f] \ {w}, z) ELSE dir[f]
          BY <1>1, <3>2 DEF Retold, TypeOK
        <4>2. y \in dir[f] \/ (f = j.folder /\ y = z)
          BY <2>2, <4>1 DEF Put
        <4>3. QED
          BY <3>2, <4>2 DEF Retold
      <3>3. QED
        BY <1>1, <3>1, <3>2, WriteShape
    <2>3. QED
      BY <1>1, <1>2, <2>1, <2>2, KeptFits
  <1>7. QED
    BY <1>2, <1>5, <1>6 DEF CountInv

(* The rename that responder owes: the count goes up by one, and its own      *)
(* reply becomes one of those that count.                                     *)
LEMMA RenameCount ==
    ASSUME CountInv, StoreInv', NEW c \in Children, Rename(c)
    PROVE  CountsFit'
  <1> DEFINE j == job[c]
  <1>1. /\ TypeInv /\ TypeOK /\ TypeOK' /\ j \in JobStates /\ NumbersOnce
        /\ GoodJob(j) /\ j.pc = "rename"
    BY DEF CountInv, StoreInv, TypeInv, TypeOK, Rename
  <1>2. /\ answers' = answers
        /\ sent' = sent
        /\ ~ Answering(job'[c])
        /\ \A d \in Children : d # c => job'[d] = job[d]
    BY <1>1, OwesNothing, OneJob DEF Rename
  <1>3. \A d \in Children : Answering(job'[d]) =>
           Answering(job[d]) /\ job'[d].num = job[d].num
    BY <1>2
  <1>4. CASE UNCHANGED dir
    BY <1>1, <1>2, <1>3, <1>4, KeptFits
  <1>5. ASSUME NEW w \in Selected(j), NEW z,
               Retold(j.folder, w, z), z.info = Renamed(j)
        PROVE  CountsFit'
    <2>0. PICK g : g = j.folder
      OBVIOUS
    <2>1. g \in Folders /\ w \in dir[g] /\ w.info \in FileInfo /\ w.info = j.sel.info
      BY <1>1, <2>0, SelectedType DEF File
    <2>2. \A f \in Folders :
             dir'[f] = IF f = g THEN Put(dir[g] \ {w}, z) ELSE dir[f]
      BY <1>1, <1>5, <2>0, <2>1 DEF TypeOK, Retold
    <2>3. \A f \in Folders : \A y \in dir'[f] : y \in dir[f] \/ (f = g /\ y = z)
      BY <2>2 DEF Put
    <2>4. CASE j.req.command = "ler"
      <3>1. z.info.id = w.info.id /\ z.info.nReplys = w.info.nReplys
        BY <1>5, <2>1, <2>4 DEF Renamed, FileInfo
      <3>2. QED
        BY <1>1, <1>2, <1>3, <2>1, <2>3, <3>1, KeptFits
    <2>5. CASE j.req.command = "responder"
      <3>1. z.info.id = w.info.id /\ z.info.nReplys = w.info.nReplys + 1
        BY <1>5, <2>1, <2>5 DEF Renamed, FileInfo
      <3>2. \A f, i : Counted(f, i) \subseteq Counted(f, i)'
        BY <1>2, <1>3, CountedGrows
      <3>3. PICK a \in answers : /\ a.reply = j.num
                                 /\ a.folder = g
                                 /\ a.id = w.info.id
                                 /\ a.reply \in sent
        BY <1>1, <2>0, <2>1, <2>5 DEF CountInv, Answered, Answering
      <3>4. a \notin Counted(g, w.info.id)
        BY <1>1, <2>5, <3>3 DEF Counted, Answering
      <3>5. \A d \in Children : Answering(job'[d]) => job'[d].num # a.reply
        <4>1. ASSUME NEW d \in Children, Answering(job'[d])
              PROVE  job'[d].num # a.reply
          <5>1. d # c /\ job'[d].num = job[d].num /\ job[d].pc # "idle"
            BY <1>2, <1>3, <4>1 DEF Answering
          <5>2. QED
            BY <1>1, <3>3, <5>1 DEF NumbersOnce
        <4>2. QED
          BY <4>1
      <3>6. PICK i : i = w.info.id
        OBVIOUS
      <3>7. a \in Counted(g, i)'
        <4>1. Counted(g, i)' =
                {b \in answers' :
                   /\ b.folder = g
                   /\ b.id = i
                   /\ b.reply \in sent'
                   /\ \A d \in Children :
                         Answering(job'[d]) => job'[d].num # b.reply}
          BY DEF Counted, Answering
        <4>2. QED
          BY <1>2, <3>3, <3>5, <3>6, <4>1
      <3>8. ASSUME NEW f \in Folders, NEW y \in dir'[f]
            PROVE  \E x \in dir[f] :
                      /\ x.info.id = y.info.id
                      /\ \/ x.info.nReplys = y.info.nReplys
                         \/ /\ y.info.nReplys = x.info.nReplys + 1
                            /\ Counted(f, y.info.id) # Counted(f, y.info.id)'
        <4>1. CASE y \in dir[f]
          BY <4>1
        <4>2. CASE f = g /\ y = z
          <5>1. y.info.id = i
            BY <3>1, <3>6, <4>2
          <5>2. Counted(f, y.info.id) # Counted(f, y.info.id)'
            BY <3>4, <3>6, <3>7, <4>2, <5>1
          <5>3. QED
            BY <2>1, <3>1, <4>2, <5>2
        <4>3. QED
          BY <2>3, <4>1, <4>2
      <3>9. QED
        BY <1>1, <1>2, <3>2, <3>8, FitsStep DEF CountInv
    <2>6. QED
      BY <1>1, <2>4, <2>5 DEF GoodJob
  <1>6. QED
    BY <1>1, <1>4, <1>5, RenameShape

(* The other steps write no reply and count none.                             *)
LEMMA CountInvNext == CountInv /\ [Next]_vars => CountInv'
  <1> SUFFICES ASSUME CountInv, [Next]_vars PROVE CountInv'
    OBVIOUS
  <1>1. /\ StoreInv /\ StoreInv' /\ TypeInv /\ TypeOK /\ TypeOK'
        /\ \A c \in Children : job[c] \in JobStates
    BY StoreInvNext DEF CountInv, StoreInv, TypeInv, TypeOK
  <1>2. ASSUME UNCHANGED <<answers, sent>>,
               \A d \in Children :
                 \/ job'[d] = job[d]
                 \/ ~ Answering(job'[d])
        PROVE  /\ IsFiniteSet(answers') /\ Answered'
               /\ \A d \in Children : Answering(job'[d]) =>
                     Answering(job[d]) /\ job'[d].num = job[d].num
    <2>1. \A d \in Children : Answering(job'[d]) => job'[d] = job[d]
      BY <1>2
    <2>2. QED
      BY <1>2, <2>1 DEF CountInv, Answered
  <1>3. ASSUME UNCHANGED <<answers, sent>>,
               \A d \in Children :
                 \/ job'[d] = job[d]
                 \/ ~ Answering(job'[d]),
               \A f \in Folders : \A y \in dir'[f] :
                 \/ y.info.nReplys = 0
                 \/ \E x \in dir[f] : /\ x.info.id = y.info.id
                                      /\ x.info.nReplys = y.info.nReplys
        PROVE  CountInv'
    BY <1>1, <1>2, <1>3, KeptFits DEF CountInv
  <1>4. ASSUME NEW c \in Children, NEW j, Become(c, j)
        PROVE  \A d \in Children : d # c => job'[d] = job[d]
    BY <1>1, <1>4, OneJob
  <1>5. ASSUME NEW c \in Children, Create(c)
        PROVE  CountInv'
    BY <1>1, <1>5, CreateCount
  <1>5w. ASSUME NEW c \in Children, Write(c)
        PROVE  CountInv'
    BY <1>1, <1>5w, WriteCount
  <1>6. ASSUME NEW c \in Children, Rename(c)
        PROVE  CountInv'
    <2>1. answers' = answers /\ sent' = sent /\ ~ Answering(job'[c])
      BY <1>1, <1>6, OwesNothing
    <2>2. \A d \in Children : d # c => job'[d] = job[d]
      BY <1>4, <1>6 DEF Rename
    <2>3. QED
      BY <1>1, <1>2, <1>6, <2>1, <2>2, RenameCount DEF CountInv
  <1>7. ASSUME NEW c \in Children,
               \/ Resolve(c) \/ Scan(c) \/ Count(c) \/ ReadDir(c) \/ CheckRead(c)
               \/ Sort(c) \/ Read(c) \/ Reply(c)
               \/ \E r \in ClientRequests : Begin(c, r)
        PROVE  CountInv'
    <2>1. answers' = answers /\ sent' = sent /\ ~ Answering(job'[c])
      BY <1>1, <1>7, OwesNothing
    <2>2. UNCHANGED dir
      BY <1>7 DEF Resolve, Scan, Count, ReadDir, CheckRead, Sort, Read, Reply, Begin
    <2>3. \A d \in Children : d # c => job'[d] = job[d]
      <3>1. \E j : Become(c, j)
        BY <1>7 DEF Resolve, Scan, Count, ReadDir, CheckRead, Sort, Read, Reply, Begin, Exit
      <3>2. QED
        BY <1>4, <3>1
    <2>4. QED
      BY <1>3, <2>1, <2>2, <2>3
  <1>8. ASSUME NEW c \in Children, Mark(c)
        PROVE  CountInv'
    <2>1. answers' = answers /\ sent' = sent /\ ~ Answering(job'[c])
      BY <1>1, <1>8, OwesNothing
    <2>2. \A d \in Children : d # c => job'[d] = job[d]
      <3>1. \E j : Become(c, j)
        BY <1>8 DEF Mark, Exit
      <3>2. QED
        BY <1>4, <3>1
    <2>3. ASSUME NEW g, NEW w, NEW z, Retold(g, w, z), z.info = w.info,
                 NEW f \in Folders, NEW y \in dir'[f]
          PROVE  \E x \in dir[f] : x.info = y.info
      <3>1. dir'[f] = IF f = g THEN Put(dir[g] \ {w}, z) ELSE dir[f]
        BY <1>1, <2>3 DEF Retold, TypeOK
      <3>2. y \in dir[f] \/ (f = g /\ y = z)
        BY <2>3, <3>1 DEF Put
      <3>3. QED
        BY <2>3, <3>2 DEF Retold
    <2>4. \A f \in Folders : \A y \in dir'[f] : \E x \in dir[f] : x.info = y.info
      BY <1>1, <1>8, <2>3, MarkShape
    <2>5. QED
      BY <1>3, <2>1, <2>2, <2>4
  <1>9. ASSUME NEW c \in Children, Unlink(c)
        PROVE  CountInv'
    <2>1. answers' = answers /\ sent' = sent /\ ~ Answering(job'[c])
      BY <1>1, <1>9, OwesNothing
    <2>2. \A d \in Children : d # c => job'[d] = job[d]
      BY <1>4, <1>9 DEF Unlink
    <2>3. \A f \in Folders : dir'[f] \subseteq dir[f]
      <3>1. \/ UNCHANGED dir
            \/ dir' = [dir EXCEPT ![job[c].folder] = @ \ Selected(job[c])]
        BY <1>9 DEF Unlink
      <3>2. QED
        BY <1>1, <3>1 DEF TypeOK
    <2>4. QED
      BY <1>3, <2>1, <2>2, <2>3
  <1>10. CASE Stop
    <2>1. \A d \in Children : ~ Answering(job'[d])
      BY <1>10 DEF Stop, Answering, IdleJob
    <2>2. QED
      BY <1>3, <1>10, <2>1 DEF Stop, history
  <1>11. CASE Tick \/ UNCHANGED vars
    BY <1>3, <1>11 DEF Tick, vars, history
  <1>12. QED
    BY <1>5, <1>5w, <1>6, <1>7, <1>8, <1>9, <1>10, <1>11 DEF Next, Handle, Wait

(* nReplys never counts a reply that was not written, however many children   *)
(* answer the same message and wherever they are killed: responder renames    *)
(* with the count it read, and only a file that still has that name.          *)
THEOREM RepliesAreReal == Spec => []NoPhantomReplies
  <1>1. Init => CountInv
    BY StoreInvInit, FS_EmptySet
    DEF Init, CountInv, Answered, Answering, CountsFit, IdleJob
  <1>2. CountInv => NoPhantomReplies
    <2> SUFFICES ASSUME CountInv, NEW f \in Folders, NEW x \in dir[f]
                 PROVE  x.info.nReplys <=
                          Cardinality({a \in answers : /\ a.folder = f
                                                       /\ a.id = x.info.id
                                                       /\ a.reply \in sent})
      BY DEF NoPhantomReplies
    <2> DEFINE to == {a \in answers : /\ a.folder = f /\ a.id = x.info.id
                                      /\ a.reply \in sent}
               counted == Counted(f, x.info.id)
    <2>1. IsFiniteSet(to)
      BY FS_Subset DEF CountInv
    <2>2. counted \subseteq to
      BY DEF Counted
    <2>3. IsFiniteSet(counted) /\ Cardinality(counted) <= Cardinality(to)
      BY <2>1, <2>2, FS_Subset
    <2>4. Cardinality(counted) \in Nat /\ Cardinality(to) \in Nat
      BY <2>1, <2>3, FS_CardinalityType
    <2>5. x.info.nReplys <= Cardinality(counted) /\ x.info.nReplys \in Nat
      BY DEF CountInv, CountsFit, StoreInv, TypeInv, TypeOK, File, FileInfo
    <2> HIDE DEF counted, to
    <2>6. x.info.nReplys <= Cardinality(to)
      BY <2>3, <2>4, <2>5
    <2>7. QED
      BY <2>6 DEF to
  <1>3. QED
    BY <1>1, <1>2, CountInvNext, PTL DEF Spec

==============================================================================
