--------------------------- MODULE ConcordiaProofs ---------------------------
(* Theorems about the composition of messages, users and groups: what was     *)
(* proved of Inbox with fixed folders and members, and what only the two      *)
(* together can break, for any number of children, requests and kills.        *)
EXTENDS Concordia, InboxProofs

(* What a child at work on users or groups was asked, given the step it is at. *)
MayDo(pc, r) ==
    /\ r \in Acc!ClientRequests
    /\ pc \in {"groupadd", "owner", "write"} => r.command = "criar"
    /\ pc = "usermod" => r.command \in {"criar", "adicionar"}
    /\ pc = "mkdir" => r.command \in {"criar", "ativar"}
    /\ pc \in {"gpasswd", "groupdel"} => r.command \in {"remover", "remover-user"}
    /\ pc = "check" => r.command \in {"remover", "adicionar", "remover-user", "desativar"}
    /\ pc \in {"opendir", "unlink"} => r.command \in {"remover", "desativar"}

GoodTask(t) ==
    t.pc # "idle" => /\ MayDo(t.pc, t.req)
                     /\ t.pc = "leaving" => t.left \in SUBSET Groups

Tasks == [pc : Acc!Steps, req : Acc!Request \cup {None},
          left : SUBSET (Acc!Entries \cup Groups), kept : SUBSET Groups]

TasksGood == task \in [Children -> Tasks] /\ \A c \in Children : GoodTask(task[c])

AccountTypes ==
    /\ owned \in SUBSET Groups
    /\ owner \in [Groups -> Users \cup {None}]
    /\ sysgroup \in SUBSET Groups
    /\ doomed \in SUBSET Groups
    /\ expelled \in [Groups -> Nat]
    /\ gone \in SUBSET Folders

(* Nothing is in a directory that is not there.                               *)
Housed ==
    /\ \A f \in Folders : dir[f] # {} => f \in exists
    /\ owned \subseteq exists

(* Requests are numbered as they are taken.                                   *)
Numbered ==
    /\ \A c \in Children : job[c].num <= served
    /\ \A g \in Groups : expelled[g] <= served

CTypeInv == TypeInv /\ TasksGood /\ AccountTypes /\ Housed
CInv == CTypeInv /\ Numbered /\ RemovedSeesNothing

------------------------------------------------------------------------------
(* Steps of the message commands.                                             *)

(* A message command puts files only where a directory is.                    *)
LEMMA FilesInFolders ==
    ASSUME TypeInv, [Next]_vars, NEW f \in Folders, dir'[f] # {}
    PROVE  dir[f] # {} \/ f \in exists
  <1> USE DEF TypeInv
  <1>1. CASE UNCHANGED dir
    BY <1>1
  <1>2. ASSUME NEW g \in Folders, NEW S, dir' = [dir EXCEPT ![g] = S],
               g \in exists \/ dir[g] # {}
        PROVE  dir[f] # {} \/ f \in exists
    BY <1>2 DEF TypeOK
  <1>3. ASSUME NEW j \in JobStates, Selected(j) # {}
        PROVE  j.folder \in Folders /\ dir[j.folder] # {}
    BY <1>3, SelectedType
  <1>4. \A c \in Children : job[c] \in JobStates
    BY DEF TypeOK
  <1>5. ASSUME NEW c \in Children, Create(c) PROVE dir[f] # {} \/ f \in exists
    <2>1. CASE job[c].folder \in exists
      BY <1>2, <1>5, <2>1 DEF Create, TypeOK
    <2>2. CASE job[c].folder \notin exists
      BY <1>1, <1>5, <2>2 DEF Create
    <2>3. QED
      BY <2>1, <2>2
  <1>5w. ASSUME NEW c \in Children, Write(c) PROVE dir[f] # {} \/ f \in exists
    <2>1. CASE UNCHANGED dir
      BY <1>1, <2>1
    <2>2. ASSUME NEW x \in dir[job[c].folder],
                 dir' = [dir EXCEPT ![job[c].folder] = Put(@, Filled(x, job[c].num))]
          PROVE  dir[f] # {} \/ f \in exists
      <3>1. job[c].folder \in Folders
        BY <1>5w DEF Write, GoodJob
      <3>2. QED
        BY <1>2, <2>2, <3>1
    <2>3. QED
      BY <1>5w, <2>1, <2>2 DEF Write
  <1>6. ASSUME NEW c \in Children, Mark(c) PROVE dir[f] # {} \/ f \in exists
    BY <1>1, <1>2, <1>3, <1>4, <1>6 DEF Mark
  <1>7. ASSUME NEW c \in Children, Rename(c) PROVE dir[f] # {} \/ f \in exists
    <2>1. CASE UNCHANGED dir
      BY <1>1, <2>1
    <2>2. CASE Selected(job[c]) = {}
      BY <1>1, <1>7, <2>2 DEF Rename
    <2>3. CASE Selected(job[c]) # {}
      <3>1. job[c].folder \in Folders /\ dir[job[c].folder] # {}
        BY <1>3, <1>4, <1>7, <2>3
      <3>2. QED
        BY <1>1, <1>2, <1>7, <2>1, <2>3, <3>1 DEF Rename
    <2>4. QED
      BY <2>2, <2>3
  <1>8. ASSUME NEW c \in Children, Unlink(c) PROVE dir[f] # {} \/ f \in exists
    BY <1>1, <1>2, <1>3, <1>4, <1>8 DEF Unlink
  <1>9. ASSUME NEW c \in Children,
               \/ Resolve(c) \/ Scan(c) \/ Count(c) \/ ReadDir(c) \/ CheckRead(c)
               \/ Sort(c) \/ Read(c) \/ Reply(c)
               \/ \E r \in ClientRequests : Begin(c, r)
        PROVE  UNCHANGED dir
    BY <1>9 DEF Resolve, Scan, Count, ReadDir, CheckRead, Sort, Read, Reply, Begin
  <1>10. CASE Tick \/ Stop \/ Wait \/ UNCHANGED vars
    BY <1>1, <1>10 DEF Tick, Stop, Wait, vars
  <1>11. QED
    BY <1>1, <1>5, <1>5w, <1>6, <1>7, <1>8, <1>9, <1>10 DEF Next, Handle

(* A handler goes on with the request, the number and the folders it has, or  *)
(* its child exits.                                                           *)
LEMMA HandlerKeeps ==
    ASSUME TypeInv, NEW c \in Children, Handle(c), NEW d \in Children
    PROVE  \/ job'[d] = IdleJob
           \/ /\ job'[d].folders = job[d].folders
              /\ job'[d].req = job[d].req
              /\ job'[d].num = job[d].num
  <1> DEFINE Kept == \/ job'[d] = IdleJob
                     \/ /\ job'[d].folders = job[d].folders
                        /\ job'[d].req = job[d].req
                        /\ job'[d].num = job[d].num
  <1> USE DEF TypeInv, TypeOK
  <1>1. ASSUME NEW j, Become(c, j),
               \/ j = IdleJob
               \/ /\ j.folders = job[c].folders
                  /\ j.req = job[c].req
                  /\ j.num = job[c].num
        PROVE  Kept
    BY <1>1 DEF Become
  <1>2. job[c] \in JobStates
    OBVIOUS
  <1>3. ASSUME Exit(c) PROVE Kept
    BY <1>1, <1>3 DEF Exit
  <1>4. CASE Resolve(c)
    BY <1>1, <1>2, <1>3, <1>4 DEF Resolve, JobStates
  <1>5. CASE Scan(c)
    BY <1>1, <1>2, <1>3, <1>5 DEF Scan, JobStates
  <1>6. CASE Create(c)
    BY <1>1, <1>2, <1>3, <1>6 DEF Create, JobStates
  <1>7. CASE Count(c)
    BY <1>1, <1>2, <1>3, <1>7 DEF Count, JobStates
  <1>8. CASE ReadDir(c)
    <2>1. PICK f \in job[c].left :
             Become(c, [job[c] EXCEPT
               !.left = @ \ {f},
               !.names = {p \in Entries(f) : p[2].info.name # job[c].req.user},
               !.list = @ \cup {p \in Entries(f) : p[2].info.name = job[c].req.user}])
      BY <1>8 DEF ReadDir
    <2>2. QED
      BY <1>1, <1>2, <2>1 DEF JobStates
  <1>9. CASE CheckRead(c)
    <2>1. PICK p \in job[c].names :
             Become(c, [job[c] EXCEPT
               !.names = @ \ {p},
               !.list = @ \cup {<<p[1], [p[2] EXCEPT !.read =
                            CheckIfRead(p[1], p[2].info, job[c].req.user)]>>}])
      BY <1>9, Zenon DEF CheckRead
    <2>2. QED
      BY <1>1, <1>2, <2>1 DEF JobStates
  <1>10. CASE Sort(c)
    <2> DEFINE j == [job[c] EXCEPT !.list = {}]
    <2>1. j \in JobStates /\ j.folders = job[c].folders
          /\ j.req = job[c].req /\ j.num = job[c].num
      BY <1>2 DEF JobStates
    <2>2. \/ Exit(c)
          \/ Become(c, [j EXCEPT !.pc = "reply"])
          \/ \E p \in job[c].list :
                Become(c, [j EXCEPT
                             !.pc = AfterSort(j.req.command),
                             !.sel = p[2],
                             !.folder = FolderOf(p[2].info, j.req.user)])
      BY <1>2, <1>10, SortShape
    <2> HIDE DEF j
    <2>3. QED
      BY <1>1, <1>3, <2>1, <2>2 DEF JobStates
  <1>11. CASE Read(c)
    BY <1>1, <1>2, <1>3, <1>11 DEF Read, JobStates
  <1>12. CASE Mark(c)
    BY <1>1, <1>2, <1>3, <1>12 DEF Mark, JobStates
  <1>13. CASE Rename(c)
    BY <1>1, <1>2, <1>3, <1>13 DEF Rename, JobStates
  <1>14. CASE Unlink(c) \/ Reply(c)
    BY <1>1, <1>2, <1>3, <1>14 DEF Unlink, Reply, JobStates
  <1>15. CASE Write(c)
    BY <1>1, <1>2, <1>3, <1>15 DEF Write, JobStates
  <1>16. QED
    BY <1>4, <1>5, <1>6, <1>7, <1>8, <1>9, <1>10, <1>11, <1>12, <1>13, <1>14, <1>15
    DEF Handle

------------------------------------------------------------------------------
(* Steps of the user and group commands.                                      *)

(* Whose request a child at work has, and what it is about.                   *)
LEMMA AtTask ==
    ASSUME TasksGood, NEW c \in Children, task[c].pc # "idle"
    PROVE  /\ task[c] \in Tasks
           /\ Acc!User(c) \in Users
           /\ Acc!Dest(c) \in Folders
           /\ Acc!Command(c) \in {"criar", "remover", "adicionar", "remover-user"} =>
                 Acc!Dest(c) \in Groups
           /\ Acc!Command(c) \in {"adicionar", "remover-user"} =>
                 task[c].req.other \in Users
  <1>1. task[c] \in Tasks /\ task[c].req \in Acc!ClientRequests
    BY DEF TasksGood, GoodTask, MayDo
  <1>2. QED
    BY <1>1 DEF Acc!ClientRequests, Acc!Request, Acc!User, Acc!Dest, Acc!Command,
                Acc!Folders, Folders

(* A child that goes on to a step its command has, whatever it has left to do, *)
(* stays one of the kind it was.                                              *)
LEMMA TaskGoes ==
    ASSUME TasksGood, NEW c \in Children, task[c].pc # "idle",
           NEW pc \in Acc!Steps, NEW left \in SUBSET (Acc!Entries \cup Groups),
           Acc!Become(c, pc, left), MayDo(pc, task[c].req),
           pc = "leaving" => left \in SUBSET Groups
    PROVE  TasksGood'
  <1>1. /\ task' \in [Children -> Tasks]
        /\ \A d \in Children \ {c} : task'[d] = task[d]
        /\ task'[c].pc = pc /\ task'[c].req = task[c].req
        /\ task'[c].left = left
    BY DEF Acc!Become, TasksGood, Tasks
  <1>2. QED
    BY <1>1 DEF TasksGood, GoodTask

(* The same, with nothing done of what is left.                               *)
LEMMA TaskTurns ==
    ASSUME TasksGood, NEW c \in Children, task[c].pc # "idle",
           NEW pc \in Acc!Steps, Acc!Goto(c, pc), MayDo(pc, task[c].req),
           pc # "leaving"
    PROVE  TasksGood'
  <1>1. task[c].left \in SUBSET (Acc!Entries \cup Groups)
    BY DEF TasksGood, Tasks
  <1>2. QED
    BY <1>1, TaskGoes DEF Acc!Goto

(* A child that exits has nothing to be wrong about.                          *)
LEMMA TaskEnds ==
    ASSUME TasksGood, NEW c \in Children, Acc!Exit(c)
    PROVE  TasksGood'
  BY DEF TasksGood, Tasks, GoodTask, Acc!Exit, Acc!IdleJob, Acc!Steps

(* What a step of a user or group command leaves true.                        *)
Sound ==
    /\ TasksGood'
    /\ exists' \in SUBSET Folders
    /\ member' \in [Groups -> SUBSET Users]
    /\ sysgroup' \in SUBSET Groups
    /\ owner' \in [Groups -> Users \cup {None}]
    /\ doomed' \in SUBSET Groups
    /\ UNCHANGED <<served, stops>>

(* Directories only come, or go when they are empty.                          *)
Keeps == \A f \in exists : f \in exists' \/ files[f] = {}

(* rmdir.                                                                     *)
LEMMA RmdirKeeps ==
    ASSUME exists \in SUBSET Folders, NEW f, Acc!Rmdir(f)
    PROVE  exists' \in SUBSET Folders /\ Keeps
  BY DEF Acc!Rmdir, Acc!CanRmdir, Keeps

(* The steps that make a directory and a group.                               *)
LEMMA MakingIsSound ==
    ASSUME CTypeInv, NEW c \in Children,
           \/ Acc!Mkdir(c) \/ Acc!Groupadd(c) \/ Acc!OpenOwner(c)
           \/ Acc!WriteOwner(c) \/ Acc!Usermod(c)
    PROVE  Sound /\ Keeps
  <1> USE DEF CTypeInv, Sound, AccountTypes, Acc!At, Acc!counters, Acc!system, Acc!disk
  <1> DEFINE t == task[c]
  <1>1. TasksGood /\ GoodTask(t) /\ exists \in SUBSET Folders
        /\ member \in [Groups -> SUBSET Users]
    BY DEF TasksGood, TypeInv, TypeOK
  <1>2. ASSUME UNCHANGED exists PROVE exists' \in SUBSET Folders /\ Keeps
    BY <1>1, <1>2 DEF Keeps
  <1>3. CASE Acc!Mkdir(c)
    <2>1. t.pc = "mkdir" /\ Acc!Dest(c) \in Folders
      BY <1>1, <1>3, AtTask DEF Acc!Mkdir
    <2>2. ASSUME Acc!Goto(c, "refused") PROVE TasksGood'
      BY <1>1, <2>1, <2>2, TaskTurns DEF GoodTask, MayDo, Acc!Steps
    <2>3. ASSUME Acc!Goto(c, IF Acc!Command(c) = "criar" THEN "groupadd" ELSE "done") PROVE TasksGood'
      BY <1>1, <2>1, <2>3, TaskTurns DEF GoodTask, MayDo, Acc!Steps, Acc!Command
    <2>4. TasksGood'
      BY <1>1, <1>3, <2>2, <2>3, TaskEnds DEF Acc!Mkdir
    <2>5. exists' \in SUBSET Folders /\ Keeps
      BY <1>1, <1>2, <1>3, <2>1 DEF Acc!Mkdir, Keeps
    <2>6. QED
      BY <1>1, <1>3, <2>4, <2>5 DEF Acc!Mkdir
  <1>4. CASE Acc!Groupadd(c)
    <2>1. t.pc = "groupadd" /\ Acc!Dest(c) \in Groups
      BY <1>1, <1>4, AtTask DEF Acc!Groupadd, GoodTask, MayDo, Acc!Command
    <2>2. CASE Acc!Exit(c) /\ Acc!Rmdir(Acc!Dest(c)) /\ UNCHANGED <<sysgroup, member>>
      BY <1>1, <1>4, <2>2, RmdirKeeps, TaskEnds DEF Acc!Groupadd
    <2>3. CASE /\ Acc!Goto(c, "owner") /\ UNCHANGED exists
               /\ sysgroup' = sysgroup \cup {Acc!Dest(c)}
               /\ member' = [member EXCEPT ![Acc!Dest(c)] = {}]
      <3>1. TasksGood'
        BY <1>1, <2>1, <2>3, TaskTurns DEF GoodTask, MayDo, Acc!Steps
      <3>2. QED
        BY <1>1, <1>2, <1>4, <2>1, <2>3, <3>1 DEF Acc!Groupadd
    <2>4. QED
      BY <1>4, <2>2, <2>3 DEF Acc!Groupadd
  <1>5. CASE Acc!OpenOwner(c)
    <2>1. t.pc = "owner"
      BY <1>5 DEF Acc!OpenOwner
    <2>2. CASE Acc!Exit(c) /\ Acc!Rmdir(Acc!Dest(c)) /\ UNCHANGED owner
      BY <1>1, <1>5, <2>2, RmdirKeeps, TaskEnds DEF Acc!OpenOwner
    <2>3. CASE /\ Acc!Goto(c, "write") /\ UNCHANGED exists
               /\ owner' = [owner EXCEPT ![Acc!Dest(c)] = None]
      <3>1. TasksGood'
        BY <1>1, <2>1, <2>3, TaskTurns DEF GoodTask, MayDo, Acc!Steps
      <3>2. QED
        BY <1>1, <1>2, <1>5, <2>3, <3>1 DEF Acc!OpenOwner
    <2>4. QED
      BY <1>5, <2>2, <2>3 DEF Acc!OpenOwner
  <1>6. CASE Acc!WriteOwner(c)
    <2>1. t.pc = "write" /\ Acc!User(c) \in Users
      BY <1>1, <1>6, AtTask DEF Acc!WriteOwner
    <2>2. TasksGood'
      BY <1>1, <1>6, <2>1, TaskTurns DEF GoodTask, MayDo, Acc!Steps, Acc!WriteOwner
    <2>3. QED
      BY <1>1, <1>2, <1>6, <2>1, <2>2 DEF Acc!WriteOwner
  <1>7. CASE Acc!Usermod(c)
    <2> DEFINE newcomer == IF Acc!Command(c) = "criar" THEN Acc!User(c) ELSE t.req.other
    <2>1. t.pc = "usermod" /\ newcomer \in Users
      BY <1>1, <1>7, AtTask DEF Acc!Usermod, GoodTask, MayDo, Acc!Command
    <2>2. ASSUME Acc!Goto(c, "done") PROVE TasksGood'
      BY <1>1, <2>1, <2>2, TaskTurns DEF GoodTask, MayDo, Acc!Steps
    <2>3. ASSUME Acc!Goto(c, "refused") PROVE TasksGood'
      BY <1>1, <2>1, <2>3, TaskTurns DEF GoodTask, MayDo, Acc!Steps
    <2>4. TasksGood'
      BY <1>7, <2>2, <2>3 DEF Acc!Usermod
    <2>5. member' \in [Groups -> SUBSET Users]
      BY <1>1, <1>7, <2>1 DEF Acc!Usermod
    <2>6. QED
      BY <1>1, <1>2, <1>7, <2>4, <2>5 DEF Acc!Usermod
  <1>8. QED
    BY <1>3, <1>4, <1>5, <1>6, <1>7

(* The steps that ask who the owner is, and those that change the members.    *)
LEMMA ChangingIsSound ==
    ASSUME CTypeInv, NEW c \in Children,
           \/ Acc!Check(c) \/ Acc!Gpasswd(c) \/ Acc!Leave(c) \/ Acc!LeaveOne(c)
           \/ Acc!LeftAll(c) \/ Acc!Reply(c)
    PROVE  Sound /\ Keeps
  <1> USE DEF CTypeInv, Sound, AccountTypes, Acc!At, Acc!counters, Acc!system, Acc!disk
  <1> DEFINE t == task[c]
  <1>1. TasksGood /\ GoodTask(t) /\ t \in Tasks /\ exists \in SUBSET Folders
        /\ member \in [Groups -> SUBSET Users]
    BY DEF TasksGood, TypeInv, TypeOK
  <1>2. ASSUME UNCHANGED exists PROVE exists' \in SUBSET Folders /\ Keeps
    BY <1>1, <1>2 DEF Keeps
  <1>3. CASE Acc!Check(c)
    <2>1. t.pc = "check" /\ Acc!Dest(c) \in Folders
      BY <1>1, <1>3, AtTask DEF Acc!Check
    <2>2. Acc!Command(c) \in {"remover", "adicionar", "remover-user", "desativar"}
      BY <1>1, <2>1 DEF GoodTask, MayDo, Acc!Command
    <2>3. Acc!Command(c) = "remover" => Acc!Dest(c) \in Groups
      BY <1>1, <2>1, AtTask
    <2>4. PICK pc \in Acc!Steps :
             /\ Acc!Goto(c, pc)
             /\ pc = "usermod" => Acc!Command(c) = "adicionar"
             /\ pc = "gpasswd" => Acc!Command(c) = "remover-user"
             /\ pc = "opendir" => Acc!Command(c) \in {"remover", "desativar"}
             /\ pc \in {"refused", "usermod", "gpasswd", "opendir"}
      BY <1>3, <2>2 DEF Acc!Check, Acc!Steps
    <2>5. TasksGood'
      BY <1>1, <2>1, <2>4, TaskTurns DEF GoodTask, MayDo, Acc!Command
    <2>6. doomed' \in SUBSET Groups
      BY <1>3, <2>3 DEF Acc!Check
    <2>7. QED
      BY <1>1, <1>2, <1>3, <2>5, <2>6 DEF Acc!Check
  <1>4. CASE Acc!Gpasswd(c)
    <2>1. t.pc = "gpasswd"
      BY <1>4 DEF Acc!Gpasswd
    <2>2. ASSUME Acc!Goto(c, "done") PROVE TasksGood'
      BY <1>1, <2>1, <2>2, TaskTurns DEF GoodTask, MayDo, Acc!Steps
    <2>3. TasksGood'
      BY <1>1, <1>4, <2>2, TaskEnds DEF Acc!Gpasswd
    <2>4. member' \in [Groups -> SUBSET Users]
      BY <1>1, <1>4 DEF Acc!Gpasswd
    <2>5. QED
      BY <1>1, <1>2, <1>4, <2>3, <2>4 DEF Acc!Gpasswd
  <1>5. CASE Acc!Leave(c)
    <2>1. t.pc = "leave" /\ exists \cap Groups \in SUBSET (Acc!Entries \cup Groups)
      BY <1>5 DEF Acc!Leave
    <2>2. TasksGood'
      BY <1>1, <1>5, <2>1, TaskGoes DEF GoodTask, MayDo, Acc!Steps, Acc!Leave
    <2>3. QED
      BY <1>1, <1>2, <1>5, <2>2 DEF Acc!Leave
  <1>6. CASE Acc!LeaveOne(c)
    <2>1. PICK g \in t.left :
             \/ /\ member' = [member EXCEPT ![g] = @ \ {Acc!User(c)}]
                /\ task' = [task EXCEPT ![c].left = @ \ {g}]
             \/ /\ task' = [task EXCEPT ![c].left = @ \ {g},
                                        ![c].kept = @ \cup {g}]
                /\ UNCHANGED member
      BY <1>6 DEF Acc!LeaveOne
    <2>2. t.pc = "leaving" /\ t.left \in SUBSET Groups
      BY <1>1, <1>6 DEF Acc!LeaveOne, GoodTask
    <2>3. TasksGood'
      <3>1. task' = [task EXCEPT ![c] = task'[c]]
        BY <1>1, <2>1 DEF TasksGood
      <3>2. task'[c] \in Tasks /\ task'[c].pc = t.pc /\ task'[c].req = t.req
            /\ task'[c].left = t.left \ {g}
        BY <1>1, <2>1, <2>2 DEF TasksGood, Tasks
      <3>3. GoodTask(task'[c])
        BY <1>1, <2>2, <3>2 DEF GoodTask
      <3>4. QED
        BY <1>1, <3>1, <3>2, <3>3 DEF TasksGood
    <2>4. member' \in [Groups -> SUBSET Users]
      BY <1>1, <2>1
    <2>5. QED
      BY <1>1, <1>2, <1>6, <2>3, <2>4 DEF Acc!LeaveOne
  <1>7. CASE Acc!LeftAll(c)
    <2>1. TasksGood'
      BY <1>1, <1>7, TaskTurns DEF GoodTask, MayDo, Acc!Steps, Acc!LeftAll
    <2>2. QED
      BY <1>1, <1>2, <1>7, <2>1 DEF Acc!LeftAll
  <1>8. CASE Acc!Reply(c)
    BY <1>1, <1>2, <1>8, TaskEnds DEF Acc!Reply
  <1>9. QED
    BY <1>3, <1>4, <1>5, <1>6, <1>7, <1>8

(* The steps of remove_directory, and groupdel.                               *)
LEMMA RemovingIsSound ==
    ASSUME CTypeInv, NEW c \in Children,
           \/ Acc!Opendir(c) \/ Acc!Unlink(c) \/ Acc!RemoveDirectory(c)
           \/ Acc!Groupdel(c)
    PROVE  Sound /\ Keeps
  <1> USE DEF CTypeInv, Sound, AccountTypes, Acc!At, Acc!counters, Acc!system, Acc!disk
  <1> DEFINE t == task[c]
  <1>1. TasksGood /\ GoodTask(t) /\ t \in Tasks /\ exists \in SUBSET Folders
        /\ member \in [Groups -> SUBSET Users]
    BY DEF TasksGood, TypeInv, TypeOK
  <1>2. ASSUME UNCHANGED exists PROVE exists' \in SUBSET Folders /\ Keeps
    BY <1>1, <1>2 DEF Keeps
  <1>3. CASE Acc!Opendir(c)
    <2>1. t.pc = "opendir" /\ Acc!Dest(c) \in Folders
      BY <1>1, <1>3, AtTask DEF Acc!Opendir
    <2>2. files[Acc!Dest(c)] \in SUBSET (Acc!Entries \cup Groups)
      BY <2>1 DEF files, TypeInv, TypeOK, File, Acc!Entries
    <2>3. ASSUME Acc!Become(c, "unlink", files[Acc!Dest(c)]) PROVE TasksGood'
      BY <1>1, <2>1, <2>2, <2>3, TaskGoes DEF GoodTask, MayDo, Acc!Steps
    <2>4. TasksGood'
      BY <1>1, <1>3, <2>3, TaskEnds DEF Acc!Opendir
    <2>5. QED
      BY <1>1, <1>2, <1>3, <2>4 DEF Acc!Opendir
  <1>4. CASE Acc!Unlink(c)
    <2>1. t.pc = "unlink"
      BY <1>4 DEF Acc!Unlink
    <2>2. ASSUME NEW e, Acc!Become(c, "unlink", t.left \ {e}) PROVE TasksGood'
      <3>1. t.left \ {e} \in SUBSET (Acc!Entries \cup Groups)
        BY <1>1 DEF Tasks
      <3>2. QED
        BY <1>1, <2>1, <2>2, <3>1, TaskGoes DEF GoodTask, MayDo, Acc!Steps
    <2>3. TasksGood'
      BY <1>1, <1>4, <2>2, TaskEnds DEF Acc!Unlink
    <2>4. owner' \in [Groups -> Users \cup {None}]
      BY <1>1, <1>4 DEF Acc!Unlink
    <2>5. QED
      BY <1>1, <1>2, <1>4, <2>3, <2>4 DEF Acc!Unlink
  <1>5. CASE Acc!RemoveDirectory(c)
    <2>1. t.pc = "unlink" /\ Acc!Rmdir(Acc!Dest(c))
      BY <1>5 DEF Acc!RemoveDirectory
    <2>2. ASSUME Acc!Goto(c, IF Acc!Command(c) = "remover" THEN "groupdel" ELSE "leave")
          PROVE  TasksGood'
      BY <1>1, <2>1, <2>2, TaskTurns DEF GoodTask, MayDo, Acc!Steps, Acc!Command
    <2>3. TasksGood'
      BY <1>1, <1>5, <2>2, TaskEnds DEF Acc!RemoveDirectory
    <2>4. QED
      BY <1>1, <1>5, <2>1, <2>3, RmdirKeeps DEF Acc!RemoveDirectory
  <1>6. CASE Acc!Groupdel(c)
    <2>1. t.pc = "groupdel"
      BY <1>6 DEF Acc!Groupdel
    <2>2. ASSUME Acc!Goto(c, "done") PROVE TasksGood'
      BY <1>1, <2>1, <2>2, TaskTurns DEF GoodTask, MayDo, Acc!Steps
    <2>3. TasksGood'
      BY <1>1, <1>6, <2>2, TaskEnds DEF Acc!Groupdel
    <2>4. member' \in [Groups -> SUBSET Users] /\ sysgroup' \in SUBSET Groups
      BY <1>1, <1>6 DEF Acc!Groupdel
    <2>5. QED
      BY <1>1, <1>2, <1>6, <2>3, <2>4 DEF Acc!Groupdel
  <1>7. QED
    BY <1>3, <1>4, <1>5, <1>6

(* Taken together: the steps of the user and group commands.                  *)
AccountStep(c) == KeepFiles(c) \/ OpenOwner(c) \/ UnlinkEntry(c)

(* What the three lemmas above say of each of them.                           *)
LEMMA AccountIsSound ==
    ASSUME CTypeInv, NEW c \in Children, AccountStep(c)
    PROVE  Sound /\ Keeps /\ Remember /\ UNCHANGED <<now, job, history>>
  BY MakingIsSound, ChangingIsSound, RemovingIsSound
  DEF AccountStep, KeepFiles, OpenOwner, UnlinkEntry, Keep

(* They put no message anywhere.                                              *)
LEMMA AccountsOnlyRemove ==
    ASSUME NEW c \in Children, AccountStep(c), TypeOK
    PROVE  /\ dir' \in [Folders -> SUBSET File]
           /\ \A f \in Folders : dir'[f] \subseteq dir[f]
  <1>1. CASE UNCHANGED dir
    BY <1>1 DEF TypeOK
  <1>2. CASE UnlinkEntry(c)
    <2>1. PICK e : dir' = [dir EXCEPT ![task[c].req.dest] = {x \in @ : x.info # e}]
      BY <1>2 DEF UnlinkEntry
    <2>2. QED
      BY <2>1 DEF TypeOK
  <1>3. QED
    BY <1>1, <1>2 DEF AccountStep, KeepFiles, OpenOwner

(* A directory that goes was empty, and the owner file is made in one that is *)
(* there: no file is ever in a directory that is not.                         *)
LEMMA AccountsHouse ==
    ASSUME CTypeInv, NEW c \in Children, AccountStep(c)
    PROVE  Housed' /\ owned' \in SUBSET Groups
  <1> USE DEF CTypeInv, TypeInv, AccountTypes
  <1>1. TypeOK /\ Housed /\ TasksGood /\ owned \in SUBSET Groups /\ Keeps
    BY AccountIsSound
  <1>2. \A f \in Folders : dir'[f] \subseteq dir[f]
    BY <1>1, AccountsOnlyRemove
  <1>3. ASSUME NEW f \in Folders, dir'[f] # {} PROVE f \in exists'
    <2>1. dir[f] # {} /\ f \in exists
      BY <1>1, <1>2, <1>3 DEF Housed
    <2>2. files[f] # {}
      BY <2>1 DEF files
    <2>3. QED
      BY <1>1, <2>1, <2>2 DEF Keeps
  <1>4. ASSUME NEW g \in owned PROVE g \in exists'
    <2>1. g \in exists /\ g \in Folders
      BY <1>1, <1>4 DEF Housed, Folders
    <2>2. files[g] # {}
      BY <1>4, <2>1 DEF files
    <2>3. QED
      BY <1>1, <2>1, <2>2 DEF Keeps
  <1>5. ASSUME OpenOwner(c), NEW g \in owned', g \notin owned
        PROVE  g \in exists' /\ g \in Groups
    <2>1. task[c].pc = "owner" /\ g = Acc!Dest(c)
      BY <1>5 DEF OpenOwner, Acc!Dest
    <2>2. g \in Groups
      BY <1>1, <2>1, AtTask DEF TasksGood, GoodTask, MayDo, Acc!Command
    <2>3. OwnerFile \in files'[g]
      BY <1>5, <2>2 DEF files, Folders
    <2>4. OwnerFile \notin files[g]
      BY <1>1, <1>5, <2>2, ConcordiaAssumption
      DEF files, Folders, TypeOK, File, ConcordiaAssumption
    <2>5. QED
      BY <1>5, <2>1, <2>2, <2>3, <2>4 DEF OpenOwner, Acc!OpenOwner
  <1>6. \/ OpenOwner(c)
        \/ owned' \subseteq owned
    BY DEF AccountStep, KeepFiles, UnlinkEntry
  <1>7. QED
    BY <1>1, <1>3, <1>4, <1>5, <1>6 DEF Housed

------------------------------------------------------------------------------
(* Every step of the two together.                                            *)

(* A step of a user or group command: who is seen no more is remembered with  *)
(* the number of the last request taken.                                      *)
LEMMA AccountsKeep ==
    ASSUME CInv, NEW c \in Children, AccountStep(c)
    PROVE  CInv'
  <1> USE DEF CInv, CTypeInv
  <1>1. Sound /\ Remember /\ UNCHANGED <<now, job, history>>
    BY AccountIsSound
  <1>2. Housed' /\ owned' \in SUBSET Groups
    BY AccountsHouse
  <1>3. TypeOK /\ \A d \in Children : GoodJob(job[d])
    BY DEF TypeInv
  <1>4. TypeInv'
    <2>1. dir' \in [Folders -> SUBSET File] /\ \A f \in Folders : dir'[f] \subseteq dir[f]
      BY <1>3, AccountsOnlyRemove DEF TypeOK
    <2>2. \A f \in Folders : IsFiniteSet(dir'[f])
      BY <1>3, <2>1, FS_Subset DEF TypeOK
    <2>3. QED
      BY <1>1, <1>3, <2>1, <2>2 DEF Sound, TypeInv, TypeOK, history
  <1>5. expelled \in [Groups -> Nat] /\ served \in Nat /\ exists \in SUBSET Folders
    BY <1>3 DEF AccountTypes, TypeOK
  <1>6. AccountTypes'
    BY <1>1, <1>2, <1>5 DEF Sound, Remember, AccountTypes
  <1>7. \A g \in Groups : expelled'[g] = IF member[g] \subseteq member'[g]
                                         THEN expelled[g] ELSE served
    BY <1>1 DEF Remember
  <1>8. Numbered'
    BY <1>1, <1>5, <1>7 DEF Sound, Numbered
  <1>9. RemovedSeesNothing'
    <2> SUFFICES ASSUME NEW d \in Children, NEW g \in job[d].folders \cap Groups
                 PROVE  job[d].req.user \in member'[g] \/ job[d].num <= expelled'[g]
      BY <1>1 DEF RemovedSeesNothing
    <2>1. job[d].req.user \in member[g] \/ job[d].num <= expelled[g]
      BY DEF RemovedSeesNothing
    <2>2. job[d].num <= served
      BY DEF Numbered
    <2>3. QED
      BY <1>7, <2>1, <2>2
  <1>10. QED
    BY <1>1, <1>2, <1>4, <1>6, <1>8, <1>9 DEF Sound

(* A step that leaves users and groups alone, and the jobs but for children   *)
(* that exit, go on with what they have or with fewer folders.                *)
LEMMA MailKeeps ==
    ASSUME CInv, TypeInv', UNCHANGED <<exists, member, served, accounts>>,
           \A f \in Folders : dir'[f] # {} => dir[f] # {} \/ f \in exists,
           \A d \in Children :
              \/ job'[d] = IdleJob
              \/ /\ job'[d].folders \subseteq job[d].folders
                 /\ job'[d].req = job[d].req
                 /\ job'[d].num = job[d].num
    PROVE  CInv'
  <1> USE DEF CInv, CTypeInv, accounts, past
  <1>1. TasksGood' /\ AccountTypes'
    BY DEF TasksGood, AccountTypes
  <1>2. Housed'
    BY DEF Housed
  <1>3. Numbered'
    <2>1. served \in Nat
      BY DEF TypeInv, TypeOK
    <2>2. QED
      BY <2>1 DEF Numbered, IdleJob
  <1>4. RemovedSeesNothing'
    BY DEF RemovedSeesNothing, IdleJob
  <1>5. QED
    BY <1>1, <1>2, <1>3, <1>4

(* A request for messages starts with the groups its user is in.              *)
LEMMA BeginMailKeeps ==
    ASSUME CInv, NEW c \in Children, NEW r \in MailOffered, BeginMail(c, r)
    PROVE  CInv'
  <1> USE DEF CInv, CTypeInv, accounts, past
  <1>1. r \in ClientRequests /\ Begin(c, r)
    BY OfferedAssumption DEF OfferedAssumption, BeginMail
  <1>2. TypeInv' /\ TypeOK
    BY <1>1, TypeInvNext DEF Next, TypeInv
  <1>3. /\ served' = served + 1 /\ served \in Nat
        /\ UNCHANGED <<exists, member, dir, accounts>>
    BY <1>1, <1>2 DEF Begin, store, BeginMail, TypeOK
  <1>4. /\ job'[c].folders = UserFolders(r.user)
        /\ job'[c].req = r /\ job'[c].num = served + 1
        /\ \A d \in Children \ {c} : job'[d] = job[d]
    BY <1>1, <1>2 DEF Begin, Become, IdleJob, TypeOK
  <1>5. TasksGood' /\ AccountTypes' /\ Housed'
    BY <1>3 DEF TasksGood, AccountTypes, Housed
  <1>6. Numbered'
    <2>1. \A d \in Children : job[d].num \in Nat /\ job[d].num <= served
      BY <1>2 DEF Numbered, TypeOK, JobStates
    <2>2. \A g \in Groups : expelled[g] \in Nat /\ expelled[g] <= served
      BY DEF Numbered, AccountTypes
    <2>3. QED
      BY <1>3, <1>4, <2>1, <2>2 DEF Numbered
  <1>7. \A g \in UserFolders(r.user) \cap Groups : r.user \in member[g]
    BY <1>1, RequestType, ConcordiaAssumption
    DEF UserFolders, ConcordiaAssumption, ConcordiaRequest
  <1>8. RemovedSeesNothing'
    BY <1>3, <1>4, <1>7 DEF RemovedSeesNothing
  <1>9. QED
    BY <1>2, <1>5, <1>6, <1>8

(* So does a request for users and groups, which takes a number too.          *)
LEMMA BeginGroupKeeps ==
    ASSUME CInv, NEW c \in Children, NEW r \in GroupOffered, BeginGroup(c, r)
    PROVE  CInv'
  <1> USE DEF CInv, CTypeInv
  <1>1. r \in Acc!ClientRequests /\ r.command # "enviar" /\ Acc!Begin(c, r)
    BY OfferedAssumption DEF OfferedAssumption, BeginGroup
  <1>2. TypeOK /\ served \in Nat /\ \A d \in Children : GoodJob(job[d])
    BY DEF TypeInv, TypeOK
  <1>3. /\ served' = served + 1
        /\ UNCHANGED <<exists, member, dir, now, stops, job, history, owned, owner,
                       sysgroup, past>>
    BY <1>1 DEF BeginGroup, Acc!Begin, Acc!disk, Acc!system, past
  <1>4. TypeInv'
    BY <1>2, <1>3 DEF TypeInv, TypeOK, history
  <1>5. AccountTypes' /\ Housed'
    BY <1>3 DEF AccountTypes, Housed, past
  <1>6. TasksGood'
    <2> DEFINE t == [Acc!IdleJob EXCEPT !.pc = Acc!FirstStep(r.command), !.req = r]
    <2>1. Acc!FirstStep(r.command) \in {"mkdir", "check"}
          /\ MayDo(Acc!FirstStep(r.command), r)
      <3>1. r.command \in {"criar", "remover", "adicionar", "remover-user",
                           "ativar", "desativar"}
        BY <1>1 DEF Acc!ClientRequests, Acc!Request
      <3>2. QED
        BY <1>1, <3>1 DEF Acc!FirstStep, MayDo
    <2>2. t \in Tasks /\ GoodTask(t)
      BY <1>1, <2>1 DEF Tasks, GoodTask, Acc!Steps, Acc!ClientRequests, Acc!IdleJob
    <2>3. task' = [task EXCEPT ![c] = t]
      BY <1>1 DEF Acc!Begin
    <2>4. QED
      BY <2>2, <2>3 DEF TasksGood
  <1>7. Numbered'
    <2>1. \A d \in Children : job[d].num \in Nat /\ job[d].num <= served
      BY <1>2 DEF Numbered, TypeOK, JobStates
    <2>2. \A g \in Groups : expelled[g] \in Nat /\ expelled[g] <= served
      BY DEF Numbered, AccountTypes
    <2>3. QED
      BY <1>2, <1>3, <2>1, <2>2 DEF Numbered, past
  <1>8. RemovedSeesNothing'
    BY <1>3 DEF RemovedSeesNothing, past
  <1>9. QED
    BY <1>4, <1>5, <1>6, <1>7, <1>8

(* getUserGroups without the groups that have gone.                           *)
LEMMA UnnamedKeeps ==
    ASSUME CInv, NEW c \in Children, Unnamed(c)
    PROVE  CInv'
  <1> USE DEF CInv, CTypeInv
  <1> DEFINE lost == (job[c].folders \cap Groups) \ sysgroup
             j == [job[c] EXCEPT !.folders = @ \ lost]
  <1>1. TypeOK /\ job[c] \in JobStates /\ GoodJob(job[c])
        /\ job[c].pc \in {"resolve", "count"}
    BY DEF TypeInv, TypeOK, Unnamed
  <1>2. UNCHANGED <<store, dir, counters, history, accounts>>
    BY DEF Unnamed
  <1>3. CASE Exit(c)
    <2>1. TypeInv'
      BY <1>2, <1>3, LocalStep, IdleJobGood DEF Exit
    <2>2. \A d \in Children : job'[d] = IdleJob \/ job'[d] = job[d]
      BY <1>1, <1>3 DEF Exit, Become, TypeOK
    <2>3. QED
      BY <1>2, <2>1, <2>2, MailKeeps DEF store, counters
  <1>4. CASE Become(c, j)
    <2>1. /\ j.pc = job[c].pc /\ j.req = job[c].req /\ j.num = job[c].num
          /\ j.sel = job[c].sel /\ j.folders = job[c].folders \ lost
          /\ j \in JobStates
      BY <1>1 DEF JobStates
    <2>2. GoodJob(j)
      BY <1>1, <2>1 DEF GoodJob
    <2>3. TypeInv'
      BY <1>2, <1>4, <2>2, LocalStep
    <2>4. \A d \in Children : job'[d] = IF d = c THEN j ELSE job[d]
      BY <1>1, <1>4 DEF Become, TypeOK
    <2>5. QED
      BY <1>2, <2>1, <2>3, <2>4, MailKeeps DEF store, counters
  <1>5. QED
    BY <1>3, <1>4 DEF Unnamed

(* Nothing kept on disk depends on the children that a kill ends.             *)
LEMMA StopKeeps ==
    ASSUME CInv, CStop
    PROVE  CInv'
  <1> USE DEF CInv, CTypeInv
  <1>1. /\ UNCHANGED <<exists, member, dir, now, served, history, owned, owner,
                       sysgroup, past>>
        /\ stops' = stops + 1
        /\ job' = [c \in Children |-> IdleJob]
        /\ task' = [c \in Children |-> Acc!IdleJob]
    BY DEF CStop, store
  <1>2. TypeInv'
    BY <1>1, IdleJobGood DEF TypeInv, TypeOK, GoodJob, history
  <1>3. TasksGood'
    BY <1>1 DEF TasksGood, Tasks, GoodTask, Acc!IdleJob, Acc!Steps
  <1>4. AccountTypes' /\ Housed'
    BY <1>1 DEF AccountTypes, Housed, past
  <1>5. served \in Nat
    BY DEF TypeInv, TypeOK
  <1>6. Numbered' /\ RemovedSeesNothing'
    BY <1>1, <1>5 DEF Numbered, RemovedSeesNothing, IdleJob, past
  <1>7. QED
    BY <1>2, <1>3, <1>4, <1>6

(* The whole next-state relation, one case for each kind of step.             *)
LEMMA CInvNext == CInv /\ [CNext]_cvars => CInv'
  <1> SUFFICES ASSUME CInv, [CNext]_cvars PROVE CInv'
    OBVIOUS
  <1>1. TypeInv /\ TypeOK
    BY DEF CInv, CTypeInv, TypeInv
  <1>2. ASSUME NEW c \in Children, HandleMail(c) PROVE CInv'
    <2>1. Next /\ Handle(c) /\ UNCHANGED accounts
      BY <1>2 DEF HandleMail, Next
    <2>2. TypeInv'
      BY <1>1, <2>1, TypeInvNext
    <2>3. UNCHANGED <<exists, member, served>>
      BY <2>1 DEF Handle, Resolve, Scan, Create, Write, Count, ReadDir, CheckRead, Sort,
                  Read, Mark, Rename, Unlink, Reply, store, counters
    <2>4. \A f \in Folders : dir'[f] # {} => dir[f] # {} \/ f \in exists
      BY <1>1, <2>1, FilesInFolders
    <2>5. \A d \in Children :
             \/ job'[d] = IdleJob
             \/ /\ job'[d].folders = job[d].folders
                /\ job'[d].req = job[d].req
                /\ job'[d].num = job[d].num
      BY <1>1, <2>1, HandlerKeeps
    <2>6. QED
      BY <2>1, <2>2, <2>3, <2>4, <2>5, MailKeeps
  <1>3. CASE CTick
    <2>1. TypeInv' /\ UNCHANGED <<exists, member, served, dir, job, accounts>>
      BY <1>1, <1>3, TypeInvNext DEF CTick, Tick, Next, store
    <2>2. QED
      BY <2>1, MailKeeps
  <1>4. CASE CWait \/ UNCHANGED cvars
    <2>1. UNCHANGED vars /\ UNCHANGED accounts
      BY <1>4 DEF CWait, Wait, cvars
    <2>2. TypeInv' /\ UNCHANGED <<exists, member, served, dir, job>>
      BY <1>1, <2>1, TypeInvNext DEF vars
    <2>3. QED
      BY <2>1, <2>2, MailKeeps
  <1>5. ASSUME NEW c \in Children, AccountStep(c) PROVE CInv'
    BY <1>5, AccountsKeep
  <1>6. QED
    BY <1>2, <1>3, <1>4, <1>5, BeginMailKeeps, BeginGroupKeeps, UnnamedKeeps, StopKeeps
    DEF CNext, AccountStep

(* At the start directories and groups go together and hold no message.       *)
LEMMA CInvInit == CInit => CInv
  <1> SUFFICES ASSUME CInit PROVE CInv
    OBVIOUS
  <1>1. TypeInv /\ Init
    BY TypeInvInit DEF CInit
  <1>2. TasksGood
    BY DEF CInit, TasksGood, Tasks, GoodTask, Acc!IdleJob, Acc!Steps
  <1>3. AccountTypes /\ Housed
    BY <1>1 DEF CInit, AccountTypes, Housed, Init, Folders
  <1>4. Numbered /\ RemovedSeesNothing
    BY <1>1 DEF CInit, Init, Numbered, RemovedSeesNothing, IdleJob
  <1>5. QED
    BY <1>1, <1>2, <1>3, <1>4 DEF CInv, CTypeInv

(* The types of the composition, whatever children were doing in a directory  *)
(* when remove_directory took it away: it rests on Housed, that no message    *)
(* and no owner file is ever in a directory that is not there.                *)
THEOREM HousedTypes == CSpec => []CTypeOK
  <1>1. CInv => CTypeOK
    BY DEF CInv, CTypeInv, TypeInv, AccountTypes, CTypeOK
  <1>2. QED
    BY <1>1, CInvInit, CInvNext, PTL DEF CSpec

(* A user who has been removed from a group may be shown its messages only by *)
(* a child whose request was taken before.                                    *)
THEOREM RemovedIsBlind == CSpec => []RemovedSeesNothing
  <1>1. CInv => RemovedSeesNothing
    BY DEF CInv
  <1>2. QED
    BY <1>1, CInvInit, CInvNext, PTL DEF CSpec

------------------------------------------------------------------------------
(* The identifier 0.                                                          *)

(* The folder of a child about to deliver was there when the child chose it,  *)
(* or listed it; if the child could not read it and goes on with 0, the       *)
(* folder is gone.                                                            *)
GoodDelivery(j) ==
    /\ j.pc \in {"scan", "create"} => j.folder \in exists \cup gone \cup {None}
    /\ j.pc = "create" => j.id > 0 \/ j.folder \in gone \cup {None}
    /\ \A p \in j.names \cup j.list : p[2].info.name \in exists \cup gone

ZeroInv ==
    /\ CInv
    /\ NamedByFolder
    /\ \A c \in Children : GoodPlace(job[c]) /\ GoodDelivery(job[c])
    /\ ZeroOnlyAfterRemoval

(* Identifiers come from the messages that are there and from enviar and      *)
(* responder.                                                                 *)
LEMMA IdsFrom ==
    ASSUME TypeInv, [Next]_vars, NEW f \in Folders, NEW y \in dir'[f]
    PROVE  \/ \E x \in dir[f] : x.info.id = y.info.id
           \/ \E c \in Children :
                /\ job[c].pc = "create" /\ job[c].folder = f /\ f \in exists
                /\ y.info.id = job[c].id
  <1> DEFINE Old == \E x \in dir[f] : x.info.id = y.info.id
  <1>1. TypeOK /\ \A c \in Children : job[c] \in JobStates /\ GoodJob(job[c])
    BY DEF TypeInv, TypeOK
  <1>2. ASSUME UNCHANGED dir PROVE Old
    BY <1>2
  <1>3. ASSUME NEW c \in Children, Create(c)
        PROVE  \/ Old
               \/ /\ job[c].pc = "create" /\ job[c].folder = f /\ f \in exists
                  /\ y.info.id = job[c].id
    <2>1. CASE job[c].folder = f /\ f \in exists
      <3>1. PICK m : dir'[f] = Put(dir[f], NewFile(job[c], m))
        BY <1>1, <1>3, <2>1 DEF Create, TypeOK
      <3>2. NewFile(job[c], m).info.id = job[c].id
        BY DEF NewFile, NewInfo
      <3>3. QED
        BY <1>3, <2>1, <3>1, <3>2 DEF Put, Create
    <2>2. CASE ~ (job[c].folder = f /\ f \in exists)
      <3>1. dir'[f] = dir[f]
        BY <1>1, <1>3, <2>2 DEF Create, TypeOK
      <3>2. QED
        BY <3>1
    <2>3. QED
      BY <2>1, <2>2
  <1>4. ASSUME NEW g, NEW S, dir' = [dir EXCEPT ![g] = S],
               f = g => \A z \in S : \E x \in dir[f] : x.info.id = z.info.id
        PROVE  Old
    <2>1. f # g => dir'[f] = dir[f]
      BY <1>1, <1>4 DEF TypeOK
    <2>2. f = g => dir'[f] = S
      BY <1>1, <1>4 DEF TypeOK
    <2>3. QED
      BY <1>4, <2>1, <2>2
  <1>4w. ASSUME NEW c \in Children, Write(c) PROVE Old
    <2>1. CASE UNCHANGED dir
      BY <1>2, <2>1
    <2>2. ASSUME NEW x \in dir[job[c].folder],
                 dir' = [dir EXCEPT ![job[c].folder] = Put(@, Filled(x, job[c].num))]
          PROVE  Old
      <3>1. job[c].folder \in Folders
        BY <1>1, <1>4w DEF Write, GoodJob
      <3>2. Filled(x, job[c].num).info = x.info
        BY <1>1, <3>1, FilledKeeps DEF TypeOK
      <3>3. \A w \in Put(dir[job[c].folder], Filled(x, job[c].num)) :
               \E v \in dir[job[c].folder] : v.info.id = w.info.id
        BY <3>2 DEF Put
      <3>4. QED
        BY <1>4, <2>2, <3>3
    <2>3. QED
      BY <1>4w, <2>1, <2>2 DEF Write
  <1>5. ASSUME NEW c \in Children, Mark(c) PROVE Old
    <2>1. CASE UNCHANGED dir
      BY <1>2, <2>1
    <2>2. ASSUME NEW x \in Selected(job[c]),
                 dir' = [dir EXCEPT ![job[c].folder] =
                   Put(@, [x EXCEPT !.trailer = Append(@, job[c].req.user)])]
          PROVE  Old
      <3> DEFINE z == [x EXCEPT !.trailer = Append(@, job[c].req.user)]
      <3>1. x \in dir[job[c].folder] /\ x \in File /\ z.info = x.info
        BY <1>1, SelectedType DEF File
      <3>2. \A w \in Put(dir[job[c].folder], z) :
               \E v \in dir[job[c].folder] : v.info.id = w.info.id
        BY <3>1 DEF Put
      <3>3. QED
        BY <1>4, <2>2, <3>2
    <2>3. QED
      BY <1>5, <2>1, <2>2 DEF Mark
  <1>6. ASSUME NEW c \in Children, Rename(c) PROVE Old
    <2>1. CASE UNCHANGED dir
      BY <1>2, <2>1
    <2>2. ASSUME NEW x \in Selected(job[c]),
                 dir' = [dir EXCEPT ![job[c].folder] =
                           Put(@ \ {x}, [x EXCEPT !.info = Renamed(job[c])])]
          PROVE  Old
      <3> DEFINE z == [x EXCEPT !.info = Renamed(job[c])]
      <3>1. x \in dir[job[c].folder] /\ x \in File /\ x.info = job[c].sel.info
        BY <1>1, SelectedType
      <3>2. x.info \in FileInfo
        BY <3>1 DEF File
      <3>3. Renamed(job[c]).id = x.info.id
        BY <3>1, <3>2 DEF Renamed, FileInfo
      <3>4. z.info.id = x.info.id
        BY <3>1, <3>3 DEF File
      <3>5. \A w \in Put(dir[job[c].folder] \ {x}, z) :
               \E v \in dir[job[c].folder] : v.info.id = w.info.id
        BY <3>1, <3>4 DEF Put
      <3>6. QED
        BY <1>4, <2>2, <3>5
    <2>3. QED
      BY <1>6, <2>1, <2>2 DEF Rename
  <1>7. ASSUME NEW c \in Children, Unlink(c) PROVE Old
    BY <1>2, <1>4, <1>7 DEF Unlink
  <1>8. ASSUME NEW c \in Children,
               \/ Resolve(c) \/ Scan(c) \/ Count(c) \/ ReadDir(c) \/ CheckRead(c)
               \/ Sort(c) \/ Read(c) \/ Reply(c)
               \/ \E r \in ClientRequests : Begin(c, r)
        PROVE  UNCHANGED dir
    BY <1>8 DEF Resolve, Scan, Count, ReadDir, CheckRead, Sort, Read, Reply, Begin
  <1>9. CASE Tick \/ Stop \/ Wait \/ UNCHANGED vars
    BY <1>2, <1>9 DEF Tick, Stop, Wait, vars
  <1>10. QED
    BY <1>2, <1>3, <1>4w, <1>5, <1>6, <1>7, <1>8, <1>9 DEF Next, Handle

(* A child that chooses a folder finds it there, and one that finds it there  *)
(* takes an identifier above those in it.                                     *)
LEMMA HandlerDelivers ==
    ASSUME ZeroInv, NEW c \in Children, Handle(c), NEW d \in Children
    PROVE  GoodDelivery(job'[d])
  <1> USE DEF ZeroInv, CInv, CTypeInv, GoodDelivery
  <1>1. TypeOK /\ GoodDelivery(job[d]) /\ GoodDelivery(job[c])
        /\ \A e \in Children : job[e] \in JobStates
    BY DEF TypeInv, TypeOK
  <1>2. ASSUME NEW j, Become(c, j), GoodDelivery(j) PROVE GoodDelivery(job'[d])
    <2>1. job'[d] = IF d = c THEN j ELSE job[d]
      BY <1>1, <1>2 DEF Become, TypeOK
    <2>2. QED
      BY <1>1, <1>2, <2>1
  <1>3. ASSUME Exit(c) PROVE GoodDelivery(job'[d])
    BY <1>2, <1>3 DEF Exit, IdleJob
  <1>4. CASE Resolve(c)
    BY <1>1, <1>2, <1>3, <1>4 DEF Resolve, JobStates
  <1>5. CASE Scan(c)
    <2>1. PICK h \in {-1, 0} \cup (IF job[c].folder \in exists
                                  THEN Ids(job[c].folder) ELSE {}) :
             /\ HighestID(h, job[c].folder)
             /\ Become(c, [job[c] EXCEPT !.pc = "create", !.id = h + 1, !.time = now])
      BY <1>5 DEF Scan
    <2> DEFINE j == [job[c] EXCEPT !.pc = "create", !.id = h + 1, !.time = now]
    <2>2. /\ j.pc = "create" /\ j.folder = job[c].folder /\ j.id = h + 1
          /\ j.names = job[c].names /\ j.list = job[c].list
      BY <1>1 DEF JobStates
    <2>3. job[c].folder \in exists \cup gone \cup {None}
      BY <1>1, <1>5 DEF Scan
    <2>4. CASE job[c].folder \in exists
      <3>1. h \in {0} \cup Ids(job[c].folder)
        BY <2>1, <2>4 DEF HighestID, IsHighest
      <3>2. h \in Nat
        BY <1>1, <2>4, <3>1 DEF Ids, TypeOK, File, FileInfo
      <3>3. GoodDelivery(j)
        BY <2>2, <2>3, <3>2
      <3>4. QED
        BY <1>2, <2>1, <3>3
    <2>5. CASE job[c].folder \notin exists
      <3>1. \A p \in job[c].names \cup job[c].list : p[2].info.name \in exists \cup gone
        BY <1>1
      <3> HIDE DEF j
      <3>2. GoodDelivery(j)
        BY <2>2, <2>3, <2>5, <3>1
      <3>3. QED
        BY <1>2, <2>1, <3>2 DEF j
    <2>6. QED
      BY <2>4, <2>5
  <1>6. CASE ReadDir(c)
    <2> DEFINE direct(f) == {p \in Entries(f) : p[2].info.name = job[c].req.user}
               others(f) == {p \in Entries(f) : p[2].info.name # job[c].req.user}
    <2>1. PICK f \in job[c].left :
             Become(c, [job[c] EXCEPT !.left = @ \ {f}, !.names = others(f),
                                      !.list = @ \cup direct(f)])
      BY <1>6 DEF ReadDir
    <2> DEFINE j == [job[c] EXCEPT !.left = @ \ {f}, !.names = others(f),
                                   !.list = @ \cup direct(f)]
    <2>2. ASSUME NEW p \in Entries(f) PROVE p[2].info.name \in exists \cup gone
      <3>1. f \in Folders
        BY <1>1 DEF JobStates
      <3>2. PICK x \in dir[f] : p = <<f, Entry(x)>> /\ f \in exists
        BY <1>1, <2>2, <3>1, EntriesType
      <3>3. p[2].info = x.info /\ x.info.name = f
        BY <3>1, <3>2 DEF Entry, NamedByFolder
      <3>4. QED
        BY <3>2, <3>3
    <2>3. /\ j.pc = "sort"
          /\ j.names \cup j.list \subseteq Entries(f) \cup job[c].list
      BY <1>1, <1>6 DEF JobStates, ReadDir
    <2>4. \A p \in job[c].list : p[2].info.name \in exists \cup gone
      BY <1>1
    <2> HIDE DEF j
    <2>5. \A p \in j.names \cup j.list : p[2].info.name \in exists \cup gone
      BY <2>2, <2>3, <2>4
    <2>6. GoodDelivery(j)
      BY <2>3, <2>5
    <2>7. QED
      BY <1>2, <2>1, <2>6 DEF j
  <1>6c. CASE CheckRead(c)
    <2> DEFINE entry(p) == <<p[1], [p[2] EXCEPT !.read =
                               CheckIfRead(p[1], p[2].info, job[c].req.user)]>>
    <2>1. PICK p \in job[c].names :
             Become(c, [job[c] EXCEPT !.names = @ \ {p}, !.list = @ \cup {entry(p)}])
      BY <1>6c, Zenon DEF CheckRead
    <2> DEFINE j == [job[c] EXCEPT !.names = @ \ {p}, !.list = @ \cup {entry(p)}]
    <2>2. p[2] \in Selection
      BY <1>1 DEF JobStates
    <2>3. entry(p)[2].info = p[2].info
      BY <2>2 DEF Selection
    <2>4. /\ j.pc = "sort" /\ j.names \subseteq job[c].names
          /\ j.list = job[c].list \cup {entry(p)}
      BY <1>1, <1>6c DEF JobStates, CheckRead
    <2>5. \A q \in job[c].names \cup job[c].list : q[2].info.name \in exists \cup gone
      BY <1>1
    <2> HIDE DEF j, entry
    <2>6. GoodDelivery(j)
      BY <2>3, <2>4, <2>5
    <2>7. QED
      BY <1>2, <2>1, <2>6 DEF j
  <1>6s. CASE Sort(c)
    <2> DEFINE j == [job[c] EXCEPT !.list = {}]
    <2>1. /\ j \in JobStates /\ j.list = {} /\ j.names = {} /\ j.pc = "sort"
          /\ job[c].pc = "sort"
          /\ \/ Exit(c)
             \/ Become(c, [j EXCEPT !.pc = "reply"])
             \/ /\ j.req.command # "listar"
                /\ \E p \in job[c].list :
                      Become(c, [j EXCEPT
                                   !.pc = AfterSort(j.req.command),
                                   !.sel = p[2],
                                   !.folder = FolderOf(p[2].info, j.req.user)])
      BY <1>1, <1>6s, SortShape
    <2>2. j.req.command \in {"listar", "ler", "responder", "remover"}
      <3>1. j.req = job[c].req
        BY <1>1 DEF JobStates
      <3>2. QED
        BY <2>1, <3>1 DEF TypeInv, GoodJob, ConcordiaRequest, Commands
    <2>3. \A p \in job[c].list : p[2].info.name \in exists \cup gone
      BY <1>1
    <2> HIDE DEF j
    <2>4. ASSUME NEW p \in job[c].list, j.req.command # "listar",
                 Become(c, [j EXCEPT !.pc = AfterSort(j.req.command), !.sel = p[2],
                                     !.folder = FolderOf(p[2].info, j.req.user)])
          PROVE  GoodDelivery(job'[d])
      <3> DEFINE i == [j EXCEPT !.pc = AfterSort(j.req.command), !.sel = p[2],
                                !.folder = FolderOf(p[2].info, j.req.user)]
      <3>1. i.pc # "create" /\ i.folder = FolderOf(p[2].info, j.req.user)
            /\ i.names = {} /\ i.list = {}
        BY <2>1, <2>2, <2>4 DEF AfterSort, JobStates
      <3>2. FolderOf(p[2].info, j.req.user) \in exists \cup gone \cup {None}
        BY <2>3 DEF FolderOf
      <3> HIDE DEF i
      <3>3. GoodDelivery(i)
        BY <3>1, <3>2
      <3>4. QED
        BY <1>2, <2>4, <3>3 DEF i
    <2>5. ASSUME Become(c, [j EXCEPT !.pc = "reply"]) PROVE GoodDelivery(job'[d])
      BY <1>2, <2>1, <2>5 DEF JobStates
    <2>6. QED
      BY <1>3, <2>1, <2>4, <2>5
  <1>7. CASE Create(c)
    BY <1>1, <1>2, <1>3, <1>7 DEF Create, JobStates
  <1>8. CASE Count(c)
    BY <1>1, <1>2, <1>3, <1>8 DEF Count, JobStates
  <1>9. CASE Read(c)
    <2>1. \/ Exit(c)
          \/ Become(c, [job[c] EXCEPT !.pc = "rename", !.flag = 1])
          \/ Become(c, [job[c] EXCEPT !.pc = "mark"])
      BY <1>9 DEF Read
    <2>2. GoodDelivery([job[c] EXCEPT !.pc = "rename", !.flag = 1])
      BY <1>1 DEF JobStates
    <2>3. GoodDelivery([job[c] EXCEPT !.pc = "mark"])
      BY <1>1 DEF JobStates
    <2>4. QED
      BY <1>2, <1>3, <2>1, <2>2, <2>3
  <1>10. CASE Mark(c)
    BY <1>1, <1>2, <1>3, <1>10 DEF Mark, JobStates
  <1>11. CASE Rename(c)
    BY <1>1, <1>2, <1>3, <1>11 DEF Rename, JobStates
  <1>12. CASE Unlink(c)
    BY <1>1, <1>2, <1>3, <1>12 DEF Unlink, JobStates
  <1>13. CASE Reply(c)
    BY <1>1, <1>2, <1>3, <1>13 DEF Reply, JobStates
  <1>13w. CASE Write(c)
    BY <1>1, <1>2, <1>3, <1>13w DEF Write, JobStates
  <1>14. QED
    BY <1>4, <1>5, <1>6, <1>6c, <1>6s, <1>7, <1>8, <1>9, <1>10, <1>11, <1>12, <1>13,
       <1>13w DEF Handle

(* The message commands and the clock.                                        *)
LEMMA MailZero ==
    ASSUME OwnPaths, ZeroInv, CInv', Next, UNCHANGED <<exists, gone>>,
           \A d \in Children : GoodDelivery(job'[d])
    PROVE  ZeroInv'
  <1> USE DEF ZeroInv, CInv, CTypeInv
  <1>1. TypeInv /\ NamedInv /\ TypeOK
    BY DEF NamedInv, TypeInv
  <1>2. NamedInv'
    BY <1>1, NamedInvNext
  <1>3. ASSUME NEW f \in Folders, f \notin gone, NEW y \in dir'[f]
        PROVE  y.info.id > 0
    <2>1. CASE \E x \in dir[f] : x.info.id = y.info.id
      BY <1>3, <2>1 DEF ZeroOnlyAfterRemoval
    <2>2. ASSUME NEW c \in Children,
                 job[c].pc = "create", job[c].folder = f, f \in exists,
                 y.info.id = job[c].id
          PROVE  y.info.id > 0
      BY <1>3, <2>2, NamesAssumption DEF GoodDelivery, NamesAssumption
    <2>3. QED
      BY <1>1, <2>1, <2>2, IdsFrom
  <1>4. ZeroOnlyAfterRemoval'
    BY <1>3 DEF ZeroOnlyAfterRemoval
  <1>5. \A d \in Children : GoodDelivery(job[d])'
    BY DEF GoodDelivery
  <1>6. QED
    BY <1>2, <1>4, <1>5 DEF NamedInv

(* The steps that put no message anywhere and change no child's delivery.     *)
LEMMA OtherZero ==
    ASSUME ZeroInv, CInv', exists \cup gone \subseteq exists' \cup gone',
           gone \subseteq gone',
           \A f \in Folders : dir'[f] \subseteq dir[f],
           \A d \in Children :
              \/ job'[d] = job[d]
              \/ /\ job'[d].pc \notin {"scan", "create"}
                 /\ job'[d].names \cup job'[d].list \subseteq job[d].names \cup job[d].list
    PROVE  ZeroInv'
  <1> USE DEF ZeroInv
  <1>1. NamedByFolder' /\ ZeroOnlyAfterRemoval'
    BY DEF NamedByFolder, ZeroOnlyAfterRemoval
  <1>2. ASSUME NEW d \in Children PROVE (GoodPlace(job[d]) /\ GoodDelivery(job[d]))'
    BY DEF GoodPlace, GoodDelivery
  <1>3. QED
    BY <1>1, <1>2

(* Every step keeps the identifier 0 to folders that have been removed.       *)
LEMMA ZeroInvNext ==
    ASSUME OwnPaths, ZeroInv, [CNext]_cvars
    PROVE  ZeroInv'
  <1> USE DEF ZeroInv, accounts, past
  <1>1. CInv' /\ CInv /\ CTypeInv /\ TypeOK
    BY CInvNext DEF CInv, CTypeInv, TypeInv
  <1>2. ASSUME NEW c \in Children, HandleMail(c) PROVE ZeroInv'
    <2>1. Next /\ Handle(c) /\ UNCHANGED <<exists, gone>>
      BY <1>2 DEF HandleMail, Next, Handle, Resolve, Scan, Create, Write, Count,
                  ReadDir, CheckRead, Sort, Read, Mark, Rename, Unlink, Reply, store
    <2>2. QED
      BY <1>1, <2>1, HandlerDelivers, MailZero
  <1>3. ASSUME NEW c \in Children, NEW r \in MailOffered, BeginMail(c, r) PROVE ZeroInv'
    <2>1. UNCHANGED <<exists, gone, dir>>
      BY <1>3 DEF BeginMail, Begin, store
    <2>2. \A d \in Children : \/ job'[d] = job[d]
                               \/ /\ job'[d].pc \notin {"scan", "create"}
                                  /\ job'[d].names = {} /\ job'[d].list = {}
      BY <1>1, <1>3 DEF BeginMail, Begin, Become, IdleJob, TypeOK
    <2>3. QED
      BY <1>1, <2>1, <2>2, OtherZero
  <1>4. ASSUME NEW c \in Children, NEW r \in GroupOffered, BeginGroup(c, r) PROVE ZeroInv'
    <2>1. UNCHANGED <<exists, gone, dir, job>>
      BY <1>4 DEF BeginGroup, Acc!Begin, Acc!disk
    <2>2. QED
      BY <1>1, <2>1, OtherZero
  <1>5. ASSUME NEW c \in Children, Unnamed(c) PROVE ZeroInv'
    <2>1. UNCHANGED <<exists, gone, dir>> /\ job[c].pc \notin {"scan", "create"}
      BY <1>5 DEF Unnamed, store
    <2>2. \A d \in Children :
             \/ job'[d] = job[d]
             \/ /\ job'[d].pc \notin {"scan", "create"}
                /\ job'[d].names \subseteq job[d].names
                /\ job'[d].list \subseteq job[d].list
      BY <1>1, <1>5, <2>1 DEF Unnamed, Become, Exit, IdleJob, TypeOK, JobStates
    <2>3. QED
      BY <1>1, <2>1, <2>2, OtherZero
  <1>6. ASSUME NEW c \in Children, AccountStep(c) PROVE ZeroInv'
    <2>1. Remember /\ UNCHANGED job /\ \A f \in Folders : dir'[f] \subseteq dir[f]
      BY <1>1, <1>6, AccountIsSound, AccountsOnlyRemove
    <2>2. QED
      BY <1>1, <2>1, OtherZero DEF Remember
  <1>7. CASE CTick \/ CWait \/ UNCHANGED cvars
    <2>1. UNCHANGED <<exists, gone, dir, job>>
      BY <1>7 DEF CTick, Tick, CWait, Wait, cvars, vars, store
    <2>2. QED
      BY <1>1, <2>1, OtherZero
  <1>8. CASE CStop
    <2>1. UNCHANGED <<exists, gone, dir>> /\ job' = [c \in Children |-> IdleJob]
      BY <1>8 DEF CStop, store
    <2>2. QED
      BY <1>1, <2>1, OtherZero DEF IdleJob
  <1>9. QED
    BY <1>2, <1>3, <1>4, <1>5, <1>6, <1>7, <1>8 DEF CNext, AccountStep

(* If no folder's path contains the name of another, a message has the        *)
(* identifier 0, the isReply of a message that answers none, only in a folder *)
(* that was removed while a child was about to deliver into it.               *)
THEOREM ZeroMeansRemoved ==
    ASSUME OwnPaths
    PROVE  CSpec => []ZeroOnlyAfterRemoval
  <1>1. CInit => ZeroInv
    BY CInvInit DEF CInit, Init, ZeroInv, NamedByFolder, ZeroOnlyAfterRemoval,
                    GoodPlace, GoodDelivery, IdleJob
  <1>2. ZeroInv /\ [CNext]_cvars => ZeroInv'
    BY ZeroInvNext
  <1>3. ZeroInv => ZeroOnlyAfterRemoval
    BY DEF ZeroInv
  <1>4. QED
    BY <1>1, <1>2, <1>3, PTL DEF CSpec

------------------------------------------------------------------------------
(* What becomes of a message, with directories that go.                       *)

(* remove_directory removes a name it has read; the message commands lose a   *)
(* message only to a twin; no other step removes any.                         *)
LEMMA LossKnownStep ==
    ASSUME CInv, [CNext]_cvars, NEW f \in Folders, NEW x \in dir[f]
    PROVE  \/ Survives(f, x)
           \/ \E c \in Children :
                /\ task[c].pc = "unlink" /\ task[c].req.dest = f
                /\ x.info \in task[c].left
  <1> DEFINE Doomed == \E c \in Children :
                          /\ task[c].pc = "unlink" /\ task[c].req.dest = f
                          /\ x.info \in task[c].left
  <1>1. TypeInv /\ TypeOK
    BY DEF CInv, CTypeInv, TypeInv
  <1>2. ASSUME UNCHANGED dir PROVE Survives(f, x)
    BY <1>2 DEF Survives
  <1>3. ASSUME NEW c \in Children, HandleMail(c) PROVE Survives(f, x)
    BY <1>1, <1>3, LossStep DEF HandleMail, Next
  <1>4. ASSUME NEW c \in Children, UnlinkEntry(c) PROVE Survives(f, x) \/ Doomed
    <2>1. PICK e \in task[c].left :
             dir' = [dir EXCEPT ![task[c].req.dest] = {y \in @ : y.info # e}]
      BY <1>4 DEF UnlinkEntry
    <2>2. CASE x.info = e /\ task[c].req.dest = f
      BY <1>4, <2>1, <2>2 DEF UnlinkEntry
    <2>3. CASE ~ (x.info = e /\ task[c].req.dest = f)
      <3>1. x \in dir'[f]
        BY <1>1, <2>1, <2>3 DEF TypeOK
      <3>2. QED
        BY <3>1 DEF Survives
    <2>4. QED
      BY <2>2, <2>3
  <1>5. ASSUME NEW c \in Children,
               \/ \E r \in MailOffered : BeginMail(c, r)
               \/ \E r \in GroupOffered : BeginGroup(c, r)
               \/ Unnamed(c) \/ KeepFiles(c) \/ OpenOwner(c)
        PROVE  UNCHANGED dir
    BY <1>5 DEF BeginMail, Begin, BeginGroup, Unnamed, KeepFiles, OpenOwner
  <1>6. CASE CTick \/ CStop \/ CWait \/ UNCHANGED cvars
    BY <1>2, <1>6 DEF CTick, Tick, CStop, CWait, Wait, cvars, vars
  <1>7. QED
    BY <1>2, <1>3, <1>4, <1>5, <1>6 DEF CNext

(* A text that was written disappears only to remover, to a twin, or to a     *)
(* remove_directory that had read the name it has: a message that a rename    *)
(* gave a new name outlives the removal of its folder.                        *)
THEOREM LossesAreKnown == CSpec => LossIsKnown
  <1>1. CInv /\ [CNext]_cvars =>
          [\A f \in Folders : \A x \in dir[f] : x.text # 0 =>
             \/ \E y \in dir'[f] : y.text = x.text
             \/ x.text \in removed'
             \/ \E y \in dir'[f] : SameHeader(x.info, y.info)
             \/ \E c \in Children :
                   /\ task[c].pc = "unlink"
                   /\ task[c].req.dest = f
                   /\ x.info \in task[c].left]_cvars
    BY LossKnownStep DEF Survives
  <1>2. QED
    BY <1>1, CInvInit, CInvNext, PTL DEF CSpec, LossIsKnown
==============================================================================
