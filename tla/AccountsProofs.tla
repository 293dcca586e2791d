---------------------------- MODULE AccountsProofs ----------------------------
(* Proofs about Accounts, for any number of requests and kills.  For any      *)
(* number of children: its variables keep their types, mkdir serialises the   *)
(* creation of a group, and without kills a group that was made is complete.  *)
(* They rest on which command a child serves at each step, JobInv, and on     *)
(* what a creator finds in its directory, LockInv.  For one child at a time:  *)
(* directory and group agree, groups have owners, deactivation is complete,   *)
(* and only owners change members.                                            *)
EXTENDS Accounts, TLAPS

(* A child at work serves a request that some client may build, and is at a   *)
(* step of that request's command.                                            *)
CommandAt(pc, command) ==
    /\ pc = "mkdir" => command \in {"criar", "ativar"}
    /\ pc \in {"groupadd", "owner", "write"} => command = "criar"
    /\ pc = "usermod" => command \in {"criar", "adicionar"}
    /\ pc = "check" => command \in {"remover", "adicionar", "remover-user",
                                    "desativar"}
    /\ pc = "gpasswd" => command = "remover-user"
    /\ pc \in {"opendir", "unlink"} => command \in {"remover", "desativar"}
    /\ pc = "groupdel" => command = "remover"
    /\ pc \in {"leave", "leaving"} => command = "desativar"
    /\ pc = "deliver" => command = "enviar"

JobInv ==
    \A c \in Children : ~ At(c, "idle") =>
        /\ job[c].req \in ClientRequests
        /\ CommandAt(job[c].pc, Command(c))
        /\ At(c, "leaving") => job[c].left \in SUBSET Groups

(* Whoever removes a group was cleared to, and until then the one child that  *)
(* makes it has its directory, without an owner so far.                       *)
RemoverInv ==
    \A c \in Children :
        (/\ job[c].pc \in {"opendir", "unlink", "groupdel"}
         /\ Command(c) = "remover") => Dest(c) \in doomed

LockInv ==
    \A c \in Children : (Creating(c) /\ Dest(c) \notin doomed) =>
        /\ Dest(c) \in made
        /\ owner[Dest(c)] = None
        /\ ~ At(c, "write") => OwnerFile \notin files[Dest(c)]
        /\ \A d \in Children : Creating(d) /\ Dest(d) = Dest(c) => d = c

TypeInv == TypeOK /\ JobInv
IInv == TypeInv /\ RemoverInv /\ LockInv

------------------------------------------------------------------------------
(* Types.                                                                     *)

(* What the requests of clients look like, command by command.                *)
LEMMA RequestShape ==
    ASSUME NEW r \in ClientRequests
    PROVE  /\ r \in Request
           /\ r.user \in Users
           /\ r.dest \in Folders
           /\ r.command \in {"ativar", "desativar"} => r.dest = r.user
           /\ r.command \in {"criar", "remover", "adicionar", "remover-user"} =>
                 r.dest \in Groups
           /\ r.command \in {"adicionar", "remover-user"} => r.other \in Users
  BY DEF ClientRequests, Request

(* TypeOK for what the children do, and, below, for the rest.                 *)
Jobs == [pc : Steps, req : Request \cup {None},
         left : SUBSET (Entries \cup Groups), kept : SUBSET Groups]

JobType == job \in [Children -> Jobs]

(* A child that goes on to a step of its command keeps job in its type.       *)
LEMMA GoOn ==
    ASSUME TypeInv, NEW c \in Children, ~ At(c, "idle"),
           NEW pc \in Steps, NEW left \in SUBSET (Entries \cup Groups),
           Become(c, pc, left), CommandAt(pc, Command(c)),
           pc = "leaving" => left \in SUBSET Groups
    PROVE  JobType' /\ JobInv'
  <1>1. job' \in [Children -> Jobs]
    BY DEF TypeInv, TypeOK, Become, Jobs
  <1>2. /\ job'[c].req = job[c].req
        /\ job'[c].pc = pc
        /\ job'[c].left = left
        /\ \A d \in Children \ {c} : job'[d] = job[d]
    BY DEF TypeInv, TypeOK, Become
  <1>3. QED
    BY <1>1, <1>2 DEF TypeInv, JobType, JobInv, At, Command

(* The same when the names it has still to remove or leave stay as they were. *)
LEMMA GoTo ==
    ASSUME TypeInv, NEW c \in Children, ~ At(c, "idle"),
           NEW pc \in Steps, Goto(c, pc), CommandAt(pc, Command(c)),
           pc # "leaving"
    PROVE  JobType' /\ JobInv'
  <1>1. job[c].left \in SUBSET (Entries \cup Groups)
    BY DEF TypeInv, TypeOK
  <1>2. QED
    BY <1>1, GoOn DEF Goto

(* So does a child that exits.                                                *)
LEMMA Ends ==
    ASSUME TypeInv, NEW c \in Children, Exit(c)
    PROVE  JobType' /\ JobInv'
  <1>1. /\ job'[c] = IdleJob
        /\ \A d \in Children \ {c} : job'[d] = job[d]
        /\ job' \in [Children -> Jobs]
    BY DEF TypeInv, TypeOK, Exit, IdleJob, Steps, Jobs
  <1>2. QED
    BY <1>1 DEF TypeInv, JobType, JobInv, At, Command, IdleJob

(* TypeOK, but for job: what is on disk and what the system knows.            *)
DiskType ==
    /\ made \in SUBSET Folders
    /\ files \in [Folders -> SUBSET Entries]
    /\ owner \in [Groups -> Users \cup {None}]
    /\ sysgroup \in SUBSET Groups
    /\ member \in [Groups -> SUBSET Users]
    /\ served \in Nat
    /\ stops \in Nat
    /\ doomed \in SUBSET Groups
    /\ \A f \in Folders : files[f] # {} => f \in made
    /\ \A g \in Groups : owner[g] # None => OwnerFile \in files[g]
    /\ \A g \in Groups : member[g] # {} => g \in sysgroup

(* The two together are TypeOK, in this state and in the next.                *)
LEMMA TypeParts == TypeOK <=> JobType /\ DiskType
  BY DEF TypeOK, JobType, DiskType, Jobs

LEMMA TypePartsNext == DiskType' /\ JobType' /\ JobInv' => TypeInv'
  BY DEF TypeInv, TypeOK, JobType, DiskType, Jobs

(* One turn of the loop that leaves the groups: the user is out of g, or      *)
(* gpasswd has failed and g is among those kept.                              *)
LEMMA LeaveShape ==
    ASSUME TypeInv, NEW c \in Children, LeaveOne(c)
    PROVE  /\ job[c].pc = "leaving"
           /\ \A d \in Children \ {c} : job'[d] = job[d]
           /\ job'[c].pc = "leaving" /\ job'[c].req = job[c].req
           /\ JobType' /\ JobInv'
           /\ \E g \in Groups :
                 /\ job'[c].left = job[c].left \ {g}
                 /\ \/ /\ member' = [member EXCEPT ![g] = @ \ {User(c)}]
                       /\ job'[c].kept = job[c].kept
                    \/ member' = member /\ job'[c].kept = job[c].kept \cup {g}
  <1>1. PICK g \in job[c].left :
           \/ /\ member' = [member EXCEPT ![g] = @ \ {User(c)}]
              /\ job' = [job EXCEPT ![c].left = @ \ {g}]
           \/ /\ job' = [job EXCEPT ![c].left = @ \ {g}, ![c].kept = @ \cup {g}]
              /\ member' = member
    BY DEF LeaveOne
  <1>2. job[c].pc = "leaving" /\ job \in [Children -> Jobs]
    BY DEF LeaveOne, At, TypeInv, TypeOK, Jobs
  <1>3. job[c].left \in SUBSET Groups /\ g \in Groups
    BY <1>1, <1>2 DEF TypeInv, JobInv, At
  <1>4. /\ \A d \in Children \ {c} : job'[d] = job[d]
        /\ job'[c].pc = "leaving" /\ job'[c].req = job[c].req
        /\ job'[c].left = job[c].left \ {g}
        /\ \/ /\ member' = [member EXCEPT ![g] = @ \ {User(c)}]
              /\ job'[c].kept = job[c].kept
           \/ member' = member /\ job'[c].kept = job[c].kept \cup {g}
    BY <1>1, <1>2 DEF Jobs
  <1>5. JobType'
    BY <1>1, <1>2, <1>3 DEF JobType, Jobs
  <1>6. JobInv'
    BY <1>2, <1>3, <1>4 DEF TypeInv, JobInv, At, Command
  <1>7. QED
    BY <1>2, <1>3, <1>4, <1>5, <1>6

(* What a child at work may be taken to serve, in one fact.                   *)
LEMMA AtWork ==
    ASSUME TypeInv, NEW c \in Children, ~ At(c, "idle")
    PROVE  /\ User(c) \in Users
           /\ Dest(c) \in Folders
           /\ Command(c) \in {"ativar", "desativar"} => Dest(c) = User(c)
           /\ Command(c) \in {"criar", "remover", "adicionar", "remover-user"} =>
                 Dest(c) \in Groups
           /\ Command(c) \in {"adicionar", "remover-user"} =>
                 job[c].req.other \in Users
           /\ CommandAt(job[c].pc, Command(c))
  BY RequestShape DEF TypeInv, JobInv, User, Dest, Command

(* At the start nothing is there and no child is at work.                     *)
THEOREM TypeInvInit == Init => TypeInv
  <1> SUFFICES ASSUME Init PROVE TypeInv
    OBVIOUS
  <1>1. DiskType
    BY AccountsAssumption DEF Init, DiskType, AccountsAssumption
  <1>2. JobType /\ JobInv
    BY DEF Init, JobType, JobInv, At, IdleJob, Steps, Jobs
  <1>3. QED
    BY <1>1, <1>2, TypeParts DEF TypeInv

(* Each operation keeps the types: its directories and groups are the ones    *)
(* its request names, and a directory is removed only when it is empty.       *)
LEMMA MakingKeepsTypes ==
    ASSUME TypeInv, NEW c \in Children,
           Mkdir(c) \/ Groupadd(c) \/ OpenOwner(c) \/ WriteOwner(c) \/ Usermod(c)
    PROVE  TypeInv'
  <1> DEFINE g == Dest(c)
  <1>0. DiskType /\ ~ At(c, "idle")
    BY TypeParts DEF TypeInv, At, Mkdir, Groupadd, OpenOwner, WriteOwner, Usermod
  <1>w. /\ User(c) \in Users
        /\ g \in Folders
        /\ Command(c) \in {"criar", "adicionar"} => g \in Groups
        /\ Command(c) = "adicionar" => job[c].req.other \in Users
        /\ CommandAt(job[c].pc, Command(c))
    BY <1>0, AtWork
  <1>1. CASE Mkdir(c)
    <2>1. DiskType'
      BY <1>0, <1>1, <1>w DEF Mkdir, DiskType, disk, system, counters
    <2>2. JobType' /\ JobInv'
      BY <1>0, <1>1, <1>w, GoTo, Ends DEF Mkdir, At, CommandAt, Steps
    <2>3. QED
      BY <2>1, <2>2, TypePartsNext
  <1>2. CASE Groupadd(c)
    <2>0. g \in Groups
      BY <1>2, <1>w DEF Groupadd, At, CommandAt
    <2>1. DiskType'
      BY <1>0, <1>2, <2>0 DEF Groupadd, DiskType, Rmdir, CanRmdir, system, counters
    <2>2. JobType' /\ JobInv'
      BY <1>0, <1>2, <1>w, GoTo, Ends DEF Groupadd, At, CommandAt, Steps
    <2>3. QED
      BY <2>1, <2>2, TypePartsNext
  <1>3. CASE OpenOwner(c)
    <2>0. g \in Groups
      BY <1>3, <1>w DEF OpenOwner, At, CommandAt
    <2>1. DiskType'
      BY <1>0, <1>3, <2>0
      DEF OpenOwner, DiskType, Rmdir, CanRmdir, system, counters, Folders, Entries
    <2>2. JobType' /\ JobInv'
      BY <1>0, <1>3, <1>w, GoTo, Ends DEF OpenOwner, At, CommandAt, Steps
    <2>3. QED
      BY <2>1, <2>2, TypePartsNext
  <1>4. CASE WriteOwner(c)
    <2>0. g \in Groups
      BY <1>4, <1>w DEF WriteOwner, At, CommandAt
    <2>1. DiskType'
      BY <1>0, <1>4, <1>w, <2>0 DEF WriteOwner, DiskType, system, counters
    <2>2. JobType' /\ JobInv'
      BY <1>0, <1>4, <1>w, GoTo DEF WriteOwner, At, CommandAt, Steps
    <2>3. QED
      BY <2>1, <2>2, TypePartsNext
  <1>5. CASE Usermod(c)
    <2>0. /\ g \in Groups
          /\ (IF Command(c) = "criar" THEN User(c) ELSE job[c].req.other) \in Users
      BY <1>5, <1>w DEF Usermod, At, CommandAt
    <2>1. DiskType'
      BY <1>0, <1>5, <2>0 DEF Usermod, DiskType, disk, counters
    <2>2. JobType' /\ JobInv'
      BY <1>0, <1>5, <1>w, GoTo DEF Usermod, At, CommandAt, Steps
    <2>3. QED
      BY <2>1, <2>2, TypePartsNext
  <1>6. QED
    BY <1>1, <1>2, <1>3, <1>4, <1>5

(* The steps of remove_group, and those it shares with deactivate_user.       *)
LEMMA RemovingKeepsTypes ==
    ASSUME TypeInv, NEW c \in Children,
           \/ Check(c) \/ Opendir(c) \/ Unlink(c) \/ RemoveDirectory(c)
           \/ Groupdel(c)
    PROVE  TypeInv'
  <1> DEFINE f == Dest(c)
  <1>0. DiskType /\ ~ At(c, "idle")
    BY TypeParts
    DEF TypeInv, At, Check, Opendir, Unlink, RemoveDirectory, Groupdel
  <1>w. /\ User(c) \in Users
        /\ f \in Folders
        /\ Command(c) = "remover" => f \in Groups
        /\ CommandAt(job[c].pc, Command(c))
        /\ job[c].left \in SUBSET (Entries \cup Groups)
    BY <1>0, AtWork DEF TypeInv, TypeOK
  <1>1. CASE Check(c)
    <2>1. DiskType'
      BY <1>0, <1>1, <1>w DEF Check, DiskType, disk, system, counters
    <2>2. JobType' /\ JobInv'
      BY <1>0, <1>1, <1>w, GoTo DEF Check, At, CommandAt, Steps
    <2>3. QED
      BY <2>1, <2>2, TypePartsNext
  <1>2. CASE Opendir(c)
    <2>1. DiskType'
      BY <1>0, <1>2 DEF Opendir, DiskType, disk, system, counters
    <2>2. CommandAt("unlink", Command(c)) /\ "unlink" \in Steps
      BY <1>2, <1>w DEF Opendir, At, CommandAt, Steps
    <2>3. files[f] \in SUBSET (Entries \cup Groups)
      BY <1>0, <1>w DEF DiskType
    <2>4. JobType' /\ JobInv'
      BY <1>0, <1>2, <2>2, <2>3, GoOn, Ends DEF Opendir
    <2>5. QED
      BY <2>1, <2>4, TypePartsNext
  <1>3. CASE Unlink(c)
    <2>1. PICK e \in job[c].left :
              IF e \in files[f]
              THEN /\ files' = [files EXCEPT ![f] = @ \ {e}]
                   /\ owner' = IF e = OwnerFile
                               THEN [owner EXCEPT ![f] = None] ELSE owner
                   /\ Become(c, "unlink", job[c].left \ {e})
              ELSE Exit(c) /\ UNCHANGED <<files, owner>>
      BY <1>3 DEF Unlink
    <2>2. DiskType'
      <3>0. UNCHANGED <<made, system, counters, doomed>>
        BY <1>3 DEF Unlink
      <3>1. CASE e \notin files[f]
        BY <1>0, <2>1, <3>0, <3>1 DEF DiskType, system, counters
      <3>2. CASE e \in files[f] /\ e = OwnerFile
        <4>1. /\ files' \in [Folders -> SUBSET Entries]
              /\ owner' \in [Groups -> Users \cup {None}]
              /\ \A h \in Folders : files'[h] = IF h = f THEN files[h] \ {e}
                                                  ELSE files[h]
              /\ \A h \in Groups : owner'[h] = IF h = f THEN None ELSE owner[h]
          BY <1>0, <2>1, <3>2 DEF DiskType
        <4>2. QED
          BY <1>0, <3>0, <4>1 DEF DiskType, system, counters, Folders
      <3>3. CASE e \in files[f] /\ e # OwnerFile
        <4>1. /\ files' \in [Folders -> SUBSET Entries]
              /\ owner' = owner
              /\ \A h \in Folders : files'[h] = IF h = f THEN files[h] \ {e}
                                                  ELSE files[h]
          BY <1>0, <2>1, <3>3 DEF DiskType
        <4>2. QED
          BY <1>0, <3>0, <3>3, <4>1 DEF DiskType, system, counters, Folders
      <3>4. QED
        BY <3>1, <3>2, <3>3
    <2>3. CommandAt("unlink", Command(c)) /\ "unlink" \in Steps
      BY <1>3, <1>w DEF Unlink, At, Steps
    <2>4. JobType' /\ JobInv'
      BY <1>0, <1>w, <2>1, <2>3, GoOn, Ends
    <2>5. QED
      BY <2>2, <2>4, TypePartsNext
  <1>4. CASE RemoveDirectory(c)
    <2>1. DiskType'
      BY <1>0, <1>4 DEF RemoveDirectory, DiskType, Rmdir, CanRmdir, system, counters
    <2>2. JobType' /\ JobInv'
      BY <1>0, <1>4, <1>w, GoTo, Ends DEF RemoveDirectory, At, CommandAt, Steps
    <2>3. QED
      BY <2>1, <2>2, TypePartsNext
  <1>5. CASE Groupdel(c)
    <2>0. f \in Groups
      BY <1>5, <1>w DEF Groupdel, At, CommandAt
    <2>1. DiskType'
      BY <1>0, <1>5, <2>0 DEF Groupdel, DiskType, disk, system, counters
    <2>2. JobType' /\ JobInv'
      BY <1>0, <1>5, <1>w, GoTo, Ends DEF Groupdel, At, CommandAt, Steps
    <2>3. QED
      BY <2>1, <2>2, TypePartsNext
  <1>6. QED
    BY <1>1, <1>2, <1>3, <1>4, <1>5

(* The steps that leave the directories of groups alone, and the delivery of  *)
(* a message.                                                                 *)
LEMMA OthersKeepTypes ==
    ASSUME TypeInv, NEW c \in Children,
           \/ Gpasswd(c) \/ Leave(c) \/ LeaveOne(c) \/ LeftAll(c)
           \/ Deliver(c) \/ Reply(c)
    PROVE  TypeInv'
  <1> DEFINE f == Dest(c)
  <1>0. DiskType /\ ~ At(c, "idle")
    BY TypeParts
    DEF TypeInv, At, Gpasswd, Leave, LeaveOne, LeftAll, Deliver, Reply
  <1>w. /\ User(c) \in Users
        /\ f \in Folders
        /\ CommandAt(job[c].pc, Command(c))
        /\ job[c].left \in SUBSET (Entries \cup Groups)
    BY <1>0, AtWork DEF TypeInv, TypeOK
  <1>1. CASE Gpasswd(c)
    <2>1. DiskType'
      BY <1>0, <1>1 DEF Gpasswd, DiskType, disk, counters
    <2>2. JobType' /\ JobInv'
      BY <1>0, <1>1, <1>w, GoTo, Ends DEF Gpasswd, At, CommandAt, Steps
    <2>3. QED
      BY <2>1, <2>2, TypePartsNext
  <1>2. CASE Leave(c)
    <2>1. DiskType'
      BY <1>0, <1>2 DEF Leave, DiskType, disk, system, counters
    <2>2. CommandAt("leaving", Command(c)) /\ "leaving" \in Steps
      BY <1>2, <1>w DEF Leave, At, CommandAt, Steps
    <2>3. JobType' /\ JobInv'
      BY <1>0, <1>2, <2>2, GoOn DEF Leave
    <2>4. QED
      BY <2>1, <2>3, TypePartsNext
  <1>3. CASE LeaveOne(c)
    <2>1. PICK g \in Groups : \/ member' = [member EXCEPT ![g] = @ \ {User(c)}]
                              \/ member' = member
      BY <1>3, LeaveShape
    <2>2. DiskType'
      BY <1>0, <1>3, <2>1 DEF LeaveOne, DiskType, disk, counters
    <2>3. JobType' /\ JobInv'
      BY <1>3, LeaveShape
    <2>4. QED
      BY <2>2, <2>3, TypePartsNext
  <1>4. CASE LeftAll(c)
    <2>1. DiskType'
      BY <1>0, <1>4 DEF LeftAll, DiskType, disk, system, counters
    <2>2. JobType' /\ JobInv'
      BY <1>0, <1>4, <1>w, GoTo DEF LeftAll, At, CommandAt, Steps
    <2>3. QED
      BY <2>1, <2>2, TypePartsNext
  <1>5. CASE Deliver(c)
    <2>1. DiskType'
      <3>0. UNCHANGED <<made, owner, system, counters, doomed>>
        BY <1>5 DEF Deliver
      <3>1. CASE UNCHANGED files
        BY <1>0, <3>0, <3>1 DEF DiskType, system, counters
      <3>2. ASSUME NEW m \in Mail, f \in made,
                   files' = [files EXCEPT ![f] = @ \cup {m}]
            PROVE  DiskType'
        <4>1. /\ files' \in [Folders -> SUBSET Entries]
              /\ \A h \in Folders : files'[h] = IF h = f THEN files[h] \cup {m}
                                                  ELSE files[h]
          BY <1>0, <3>2 DEF DiskType, Entries
        <4>2. QED
          BY <1>0, <3>0, <3>2, <4>1 DEF DiskType, system, counters, Folders
      <3>3. QED
        BY <1>5, <3>1, <3>2 DEF Deliver
    <2>2. JobType' /\ JobInv'
      BY <1>0, <1>5, <1>w, GoTo, Ends DEF Deliver, At, CommandAt, Steps
    <2>3. QED
      BY <2>1, <2>2, TypePartsNext
  <1>6. CASE Reply(c)
    <2>1. DiskType'
      BY <1>0, <1>6 DEF Reply, DiskType, disk, system, counters
    <2>2. JobType' /\ JobInv'
      BY <1>6, Ends DEF Reply
    <2>3. QED
      BY <2>1, <2>2, TypePartsNext
  <1>7. QED
    BY <1>1, <1>2, <1>3, <1>4, <1>5, <1>6

(* Every step, with the arrival of a request and a kill.                      *)
LEMMA TypeInvNext == TypeInv /\ [Next]_vars => TypeInv'
  <1> SUFFICES ASSUME TypeInv, [Next]_vars PROVE TypeInv'
    OBVIOUS
  <1>0. DiskType
    BY TypeParts DEF TypeInv
  <1>1. ASSUME NEW c \in Children, NEW r \in ClientRequests, Begin(c, r)
        PROVE  TypeInv'
    <2>0. r \in Request /\ r.command \in {"criar", "remover", "adicionar",
                 "remover-user", "ativar", "desativar", "enviar"}
      BY DEF ClientRequests, Request
    <2>1. DiskType'
      BY <1>0, <1>1 DEF Begin, DiskType, disk, system
    <2>2. FirstStep(r.command) \in Steps /\ CommandAt(FirstStep(r.command), r.command)
      BY <2>0 DEF FirstStep, CommandAt, Steps
    <2>3. /\ job'[c].pc = FirstStep(r.command) /\ job'[c].req = r
          /\ job'[c].left = {}
          /\ \A d \in Children \ {c} : job'[d] = job[d]
          /\ JobType'
      BY <1>1, <2>0, <2>2 DEF Begin, IdleJob, TypeInv, TypeOK, JobType, Jobs
    <2>4. JobInv'
      BY <2>2, <2>3 DEF TypeInv, JobInv, At, Command
    <2>5. QED
      BY <2>1, <2>3, <2>4, TypePartsNext
  <1>2. ASSUME NEW c \in Children, Handle(c) PROVE TypeInv'
    BY <1>2, MakingKeepsTypes, RemovingKeepsTypes, OthersKeepTypes DEF Handle
  <1>3. CASE Stop
    <2>1. DiskType'
      BY <1>0, <1>3 DEF Stop, DiskType, disk, system
    <2>2. JobType' /\ JobInv'
      BY <1>3 DEF Stop, JobType, JobInv, At, IdleJob, Steps, Jobs
    <2>3. QED
      BY <2>1, <2>2, TypePartsNext
  <1>4. CASE UNCHANGED vars
    BY <1>4 DEF vars, TypeInv, TypeOK, JobInv, At, Command
  <1>5. QED
    BY <1>1, <1>2, <1>3, <1>4 DEF Next, Wait

(* Every reachable state of users and groups has its type: only directories   *)
(* that exist hold files, only an owner file names an owner, and only groups  *)
(* of the system have members, wherever the children are killed.              *)
THEOREM TypeCorrect == Spec => []TypeOK
  <1>1. TypeInv => TypeOK
    BY DEF TypeInv
  <1>2. QED
    BY TypeInvInit, TypeInvNext, <1>1, PTL DEF Spec

------------------------------------------------------------------------------
(* mkdir as a lock.  What one step of child a does to the groups nobody has   *)
(* been cleared to remove: it spares them all but the one a is making, and a  *)
(* starts to make one only if it finds no directory.                          *)
(* A step leaves group g its directory and its owner, and makes it no file.   *)
Spares(g) ==
    /\ g \in made => g \in made'
    /\ owner'[g] = owner[g]
    /\ OwnerFile \in files'[g] => OwnerFile \in files[g]

(* RemoverInv and the part of LockInv that is about one child.                *)
Cleared(a) ==
    (job[a].pc \in {"opendir", "unlink", "groupdel"} /\ Command(a) = "remover")
        => Dest(a) \in doomed

HasLock(a) ==
    (Creating(a) /\ Dest(a) \notin doomed) =>
        /\ Dest(a) \in made
        /\ owner[Dest(a)] = None
        /\ ~ At(a, "write") => OwnerFile \notin files[Dest(a)]

(* A step of child a, as far as the lock is concerned.                        *)
OneStep(a) ==
    /\ \A c \in Children \ {a} : job'[c] = job[c]
    /\ doomed \subseteq doomed'
    /\ Creating(a)' =>
          /\ job'[a].req = job[a].req
          /\ Creating(a) \/ Dest(a) \notin made
    /\ \A g \in Groups \ doomed : Spares(g) \/ (Creating(a) /\ Dest(a) = g)
    /\ HasLock(a)'
    /\ Cleared(a)'

(* Only criar makes a group.                                                  *)
LEMMA CreatorType ==
    ASSUME TypeInv, NEW c \in Children, Creating(c)
    PROVE  Command(c) = "criar" /\ Dest(c) \in Groups
  BY AtWork DEF Creating, At, CommandAt

(* Such a step keeps the lock.                                                *)
LEMMA LockKept ==
    ASSUME IInv, NEW a \in Children, OneStep(a)
    PROVE  RemoverInv' /\ LockInv'
  <1>1. RemoverInv'
    <2> SUFFICES ASSUME NEW c \in Children PROVE Cleared(c)'
      BY DEF RemoverInv, Cleared
    <2>1. CASE c = a
      BY <2>1 DEF OneStep
    <2>2. CASE c # a
      <3>1. Cleared(c) /\ job'[c] = job[c] /\ doomed \subseteq doomed'
        BY <2>2 DEF IInv, RemoverInv, Cleared, OneStep
      <3>2. QED
        BY <3>1 DEF Cleared, Command, Dest
    <2>3. QED
      BY <2>1, <2>2
  <1>2. ASSUME NEW c \in Children \ {a}, Creating(c)', Dest(c)' \notin doomed'
        PROVE  /\ Creating(c) /\ Dest(c) \in Groups \ doomed /\ Dest(c) \in made
               /\ ~ (Creating(a) /\ Dest(a) = Dest(c))
               /\ HasLock(c)'
    <2>1. job'[c] = job[c] /\ doomed \subseteq doomed'
      BY DEF OneStep
    <2>2. Creating(c) /\ Dest(c) \notin doomed
      BY <1>2, <2>1 DEF Creating, At, Dest
    <2>3. Dest(c) \in Groups /\ HasLock(c) /\ Dest(c) \in made
      BY <2>2, CreatorType DEF IInv, LockInv, HasLock
    <2>4. ~ (Creating(a) /\ Dest(a) = Dest(c))
      BY <2>2 DEF IInv, LockInv
    <2>5. Spares(Dest(c))
      BY <2>2, <2>3, <2>4 DEF OneStep
    <2>6. HasLock(c)'
      BY <2>1, <2>2, <2>3, <2>5 DEF HasLock, Spares, Creating, At, Dest
    <2>7. QED
      BY <2>2, <2>3, <2>4, <2>6
  <1>3. ASSUME NEW c \in Children, NEW d \in Children, c # d,
               Creating(c)', Creating(d)', Dest(c)' \notin doomed',
               Dest(d)' = Dest(c)'
        PROVE  FALSE
    <2>1. ASSUME NEW x \in Children \ {a}, Creating(x)', Dest(x)' \notin doomed',
                 Creating(a)', Dest(a)' = Dest(x)'
          PROVE  FALSE
      <3>1. Dest(x)' = Dest(x) /\ Dest(a)' = Dest(a)
        BY <2>1 DEF OneStep, Dest
      <3>2. QED
        BY <1>2, <2>1, <3>1 DEF OneStep
    <2>2. CASE c = a
      BY <1>3, <2>1, <2>2
    <2>3. CASE d = a
      BY <1>3, <2>1, <2>3
    <2>4. CASE c # a /\ d # a
      <3>1. Creating(c) /\ Creating(d) /\ Dest(c) \notin doomed /\ Dest(d) = Dest(c)
        BY <1>2, <1>3, <2>4 DEF OneStep, Dest
      <3>2. QED
        BY <1>3, <3>1 DEF IInv, LockInv
    <2>5. QED
      BY <2>2, <2>3, <2>4
  <1>4. LockInv'
    <2>1. \A c \in Children : HasLock(c)'
      BY <1>2 DEF OneStep, HasLock
    <2>2. QED
      BY <1>3, <2>1 DEF LockInv, HasLock
  <1>5. QED
    BY <1>1, <1>4

(* What each operation of a child is to the others.                           *)
LEMMA NewPc ==
    ASSUME TypeInv, NEW a \in Children, NEW pc, NEW left, Become(a, pc, left)
    PROVE  /\ \A c \in Children \ {a} : job'[c] = job[c]
           /\ job'[a].pc = pc
           /\ job'[a].req = job[a].req
  BY DEF TypeInv, TypeOK, Become

(* And a child that exits.                                                    *)
LEMMA NowIdle ==
    ASSUME TypeInv, NEW a \in Children, Exit(a)
    PROVE  /\ \A c \in Children \ {a} : job'[c] = job[c]
           /\ job'[a] = IdleJob
  BY DEF TypeInv, TypeOK, Exit

(* mkdir finds no directory, and with it no files and no owner; what follows  *)
(* touches the creator's own group alone.                                     *)
LEMMA MakingIsOneStep ==
    ASSUME IInv, NEW a \in Children,
           Mkdir(a) \/ Groupadd(a) \/ OpenOwner(a) \/ WriteOwner(a) \/ Usermod(a)
    PROVE  OneStep(a)
  <1> DEFINE g == Dest(a)
  <1>0. TypeInv /\ DiskType
    BY TypeParts DEF IInv, TypeInv
  <1>1. CASE Mkdir(a)
    <2>1. /\ \A c \in Children \ {a} : job'[c] = job[c]
          /\ \/ job'[a] = IdleJob
             \/ /\ job'[a].req = job[a].req
                /\ job'[a].pc \in {"groupadd", "done", "refused"}
          /\ job'[a].pc = "groupadd" => Command(a) = "criar" /\ g \notin made
                                         /\ made' = made \cup {g}
          /\ made \subseteq made' /\ files' = files /\ owner' = owner
          /\ doomed' = doomed
      BY <1>0, <1>1, NewPc, NowIdle DEF Mkdir, Goto, disk, IdleJob
    <2>2. g \notin made /\ Command(a) = "criar" =>
              g \in Groups /\ files[g] = {} /\ owner[g] = None
      BY <1>0, <1>1, AtWork DEF Mkdir, At, DiskType, Folders
    <2>3. HasLock(a)'
      BY <2>1, <2>2 DEF HasLock, Creating, At, Dest, IdleJob
    <2>4. QED
      BY <2>1, <2>3 DEF OneStep, Spares, Creating, At, Cleared, IdleJob
  <1>2. CASE Groupadd(a)
    <2>0. Creating(a) /\ g \in Groups
      BY <1>0, <1>2, CreatorType DEF Groupadd, Creating
    <2>1. /\ \A c \in Children \ {a} : job'[c] = job[c]
          /\ \/ job'[a] = IdleJob
             \/ job'[a].pc = "owner" /\ job'[a].req = job[a].req /\ made' = made
          /\ files' = files /\ owner' = owner /\ doomed' = doomed
          /\ made \ {g} \subseteq made'
      BY <1>0, <1>2, NewPc, NowIdle DEF Groupadd, Goto, Rmdir
    <2>2. HasLock(a) /\ At(a, "groupadd")
      BY <1>2 DEF IInv, LockInv, HasLock, Groupadd
    <2>3. HasLock(a)'
      BY <2>0, <2>1, <2>2 DEF HasLock, Creating, At, Dest, IdleJob
    <2>4. QED
      BY <2>0, <2>1, <2>3 DEF OneStep, Spares, Creating, At, Cleared, IdleJob
  <1>3. CASE OpenOwner(a)
    <2>0. Creating(a) /\ g \in Groups
      BY <1>0, <1>3, CreatorType DEF OpenOwner, Creating
    <2>1. /\ \A c \in Children \ {a} : job'[c] = job[c]
          /\ \/ job'[a] = IdleJob
             \/ job'[a].pc = "write" /\ job'[a].req = job[a].req
                /\ g \in made' /\ owner'[g] = None
          /\ doomed' = doomed
          /\ made \ {g} \subseteq made'
          /\ \A h \in Groups \ {g} : owner'[h] = owner[h] /\ files'[h] = files[h]
      BY <1>0, <1>3, <2>0, NewPc, NowIdle
      DEF OpenOwner, Goto, Rmdir, DiskType, Folders
    <2>2. HasLock(a)'
      BY <2>1 DEF HasLock, Creating, At, Dest, IdleJob
    <2>3. QED
      BY <2>0, <2>1, <2>2 DEF OneStep, Spares, Creating, At, Cleared, IdleJob
  <1>4. CASE WriteOwner(a)
    <2>0. Creating(a) /\ g \in Groups
      BY <1>0, <1>4, CreatorType DEF WriteOwner, Creating
    <2>1. /\ \A c \in Children \ {a} : job'[c] = job[c]
          /\ job'[a].pc = "usermod"
          /\ made' = made /\ files' = files /\ doomed' = doomed
          /\ \A h \in Groups \ {g} : owner'[h] = owner[h]
      BY <1>0, <1>4, <2>0, NewPc DEF WriteOwner, Goto, DiskType
    <2>2. QED
      BY <2>0, <2>1 DEF OneStep, Spares, Creating, At, Cleared, HasLock
  <1>5. CASE Usermod(a)
    <2>1. /\ \A c \in Children \ {a} : job'[c] = job[c]
          /\ job'[a].pc \in {"done", "refused"}
          /\ made' = made /\ files' = files /\ owner' = owner /\ doomed' = doomed
      BY <1>0, <1>5, NewPc DEF Usermod, Goto, disk
    <2>2. QED
      BY <2>1 DEF OneStep, Spares, Creating, At, Cleared, HasLock
  <1>6. QED
    BY <1>1, <1>2, <1>3, <1>4, <1>5

(* remove_directory touches a group only for a remover, who was cleared to.   *)
LEMMA RemovingIsOneStep ==
    ASSUME IInv, NEW a \in Children,
           \/ Check(a) \/ Opendir(a) \/ Unlink(a) \/ RemoveDirectory(a)
           \/ Groupdel(a)
    PROVE  OneStep(a)
  <1> DEFINE f == Dest(a)
  <1>0. TypeInv /\ DiskType
    BY TypeParts DEF IInv, TypeInv
  <1>1. CASE Check(a)
    <2>1. /\ \A c \in Children \ {a} : job'[c] = job[c]
          /\ job'[a].req = job[a].req
          /\ job'[a].pc \in {"refused", "opendir", "usermod", "gpasswd"}
          /\ job'[a].pc = "opendir" /\ Command(a) = "remover" => f \in doomed'
          /\ made' = made /\ files' = files /\ owner' = owner
          /\ doomed \subseteq doomed'
      <3>1. Command(a) \in {"remover", "adicionar", "remover-user", "desativar"}
        BY <1>0, <1>1, AtWork DEF Check, At, CommandAt
      <3>2. QED
        BY <1>0, <1>1, <3>1, NewPc DEF Check, Goto, disk
    <2>2. QED
      BY <2>1 DEF OneStep, Spares, Creating, At, Cleared, HasLock, Command, Dest
  <1>w. (Opendir(a) \/ Unlink(a) \/ RemoveDirectory(a)) => f \notin Groups \ doomed
    <2> SUFFICES ASSUME Opendir(a) \/ Unlink(a) \/ RemoveDirectory(a)
                 PROVE  f \notin Groups \ doomed
      OBVIOUS
    <2>1. job[a].pc \in {"opendir", "unlink"}
      BY DEF Opendir, Unlink, RemoveDirectory, At
    <2>2. /\ Command(a) \in {"remover", "desativar"}
          /\ Command(a) = "desativar" => f \in Users
      BY <1>0, <2>1, AtWork DEF At, CommandAt
    <2>3. Command(a) = "remover" => f \in doomed
      BY <2>1 DEF IInv, RemoverInv
    <2>4. QED
      BY <2>2, <2>3, AccountsAssumption DEF AccountsAssumption
  <1>2. CASE Opendir(a)
    <2>1. /\ \A c \in Children \ {a} : job'[c] = job[c]
          /\ \/ job'[a] = IdleJob
             \/ job'[a].req = job[a].req /\ job'[a].pc = "unlink"
          /\ made' = made /\ files' = files /\ owner' = owner
          /\ doomed' = doomed
      BY <1>0, <1>2, NewPc, NowIdle DEF Opendir, disk
    <2>2. job[a].pc = "opendir" /\ Cleared(a)
      BY <1>2 DEF Opendir, At, IInv, RemoverInv, Cleared
    <2>3. QED
      BY <2>1, <2>2
      DEF OneStep, Spares, Creating, At, Cleared, HasLock, Command, Dest, IdleJob
  <1>3. CASE Unlink(a)
    <2>1. /\ \A c \in Children \ {a} : job'[c] = job[c]
          /\ \/ job'[a] = IdleJob
             \/ job'[a].req = job[a].req /\ job'[a].pc = "unlink"
          /\ made' = made /\ doomed' = doomed
          /\ \A h \in Groups \ {f} : owner'[h] = owner[h] /\ files'[h] = files[h]
      <3>1. PICK e \in job[a].left :
              IF e \in files[f]
              THEN /\ files' = [files EXCEPT ![f] = @ \ {e}]
                   /\ owner' = IF e = OwnerFile
                               THEN [owner EXCEPT ![f] = None] ELSE owner
                   /\ Become(a, "unlink", job[a].left \ {e})
              ELSE Exit(a) /\ UNCHANGED <<files, owner>>
        BY <1>3 DEF Unlink
      <3>2. UNCHANGED made /\ UNCHANGED doomed
        BY <1>3 DEF Unlink
      <3>3. \A h \in Groups \ {f} : owner'[h] = owner[h] /\ files'[h] = files[h]
        BY <1>0, <3>1 DEF DiskType, Folders
      <3>4. QED
        BY <1>0, <3>1, <3>2, <3>3, NewPc, NowIdle
    <2>2. job[a].pc = "unlink" /\ Cleared(a)
      BY <1>3 DEF Unlink, At, IInv, RemoverInv, Cleared
    <2>3. QED
      BY <1>3, <1>w, <2>1, <2>2
      DEF OneStep, Spares, Creating, At, Cleared, HasLock, Command, Dest, IdleJob
  <1>4. CASE RemoveDirectory(a)
    <2>1. /\ \A c \in Children \ {a} : job'[c] = job[c]
          /\ \/ job'[a] = IdleJob
             \/ job'[a].req = job[a].req /\ job'[a].pc \in {"groupdel", "leave"}
          /\ made \ {f} \subseteq made' /\ files' = files /\ owner' = owner
          /\ doomed' = doomed
      BY <1>0, <1>4, NewPc, NowIdle DEF RemoveDirectory, Rmdir, Goto
    <2>2. job[a].pc = "unlink" /\ Cleared(a)
      BY <1>4 DEF RemoveDirectory, At, IInv, RemoverInv, Cleared
    <2>3. QED
      BY <1>4, <1>w, <2>1, <2>2
      DEF OneStep, Spares, Creating, At, Cleared, HasLock, Command, Dest, IdleJob
  <1>5. CASE Groupdel(a)
    <2>1. /\ \A c \in Children \ {a} : job'[c] = job[c]
          /\ job'[a] = IdleJob \/ job'[a].pc = "done"
          /\ made' = made /\ files' = files /\ owner' = owner
          /\ doomed' = doomed
      BY <1>0, <1>5, NewPc, NowIdle DEF Groupdel, Goto, disk
    <2>2. QED
      BY <2>1 DEF OneStep, Spares, Creating, At, Cleared, HasLock, IdleJob
  <1>6. QED
    BY <1>1, <1>2, <1>3, <1>4, <1>5

(* The rest touch neither directories of groups nor owner files.              *)
LEMMA OthersAreOneStep ==
    ASSUME IInv, NEW a \in Children,
           \/ Gpasswd(a) \/ Leave(a) \/ LeaveOne(a) \/ LeftAll(a)
           \/ Deliver(a) \/ Reply(a)
    PROVE  OneStep(a)
  <1>0. TypeInv /\ DiskType
    BY TypeParts DEF IInv, TypeInv
  <1>1. /\ \A c \in Children \ {a} : job'[c] = job[c]
        /\ job'[a] = IdleJob \/ job'[a].pc \in {"done", "leaving"}
    BY <1>0, NewPc, NowIdle, LeaveShape DEF Gpasswd, Leave, LeftAll, Deliver, Reply, Goto
  <1>2. made' = made /\ owner' = owner /\ doomed' = doomed
    BY DEF Gpasswd, Leave, LeaveOne, LeftAll, Deliver, Reply, disk
  <1>3. \A h \in Groups : OwnerFile \in files'[h] => OwnerFile \in files[h]
    <2>1. CASE UNCHANGED files
      BY <2>1
    <2>2. CASE Deliver(a) /\ ~ UNCHANGED files
      <3>1. PICK m \in Mail : files' = [files EXCEPT ![Dest(a)] = @ \cup {m}]
        BY <2>2 DEF Deliver
      <3>2. QED
        BY <1>0, <3>1, AccountsAssumption DEF DiskType, Folders, AccountsAssumption
    <2>3. QED
      BY <2>1, <2>2 DEF Gpasswd, Leave, LeaveOne, LeftAll, Reply, disk
  <1>4. QED
    BY <1>1, <1>2, <1>3
    DEF OneStep, Spares, Creating, At, Cleared, HasLock, IdleJob

(* A new request starts at none of the steps between mkdir and the owner      *)
(* file.                                                                      *)
LEMMA BeginIsOneStep ==
    ASSUME IInv, NEW a \in Children, NEW r \in ClientRequests, Begin(a, r)
    PROVE  OneStep(a)
  <1>1. FirstStep(r.command) \in {"mkdir", "deliver", "check"}
    BY DEF FirstStep, ClientRequests, Request
  <1>2. /\ \A c \in Children \ {a} : job'[c] = job[c]
        /\ job'[a].pc \in {"mkdir", "deliver", "check"}
        /\ made' = made /\ files' = files /\ owner' = owner /\ doomed' = doomed
    BY <1>1 DEF Begin, IdleJob, disk, IInv, TypeInv, TypeOK
  <1>3. QED
    BY <1>2 DEF OneStep, Spares, Creating, At, Cleared, HasLock

------------------------------------------------------------------------------
(* The inductive invariant and what it is for.                                *)

(* No child is at work at the start.                                          *)
LEMMA IInvInit == Init => IInv
  <1> SUFFICES ASSUME Init PROVE IInv
    OBVIOUS
  <1>1. \A c \in Children : job[c].pc = "idle"
    BY DEF Init, IdleJob
  <1>2. QED
    BY <1>1, TypeInvInit DEF IInv, RemoverInv, LockInv, Creating, At

(* Every step is a child's, a kill, or none at all.                           *)
LEMMA StepKinds ==
    ASSUME IInv, [Next]_vars
    PROVE  (\E a \in Children : OneStep(a)) \/ Stop \/ UNCHANGED vars
  BY MakingIsOneStep, RemovingIsOneStep, OthersAreOneStep, BeginIsOneStep
  DEF Next, Handle, Wait

(* The inductive step.                                                        *)
LEMMA IInvNext == IInv /\ [Next]_vars => IInv'
  <1> SUFFICES ASSUME IInv, [Next]_vars PROVE IInv'
    OBVIOUS
  <1>1. TypeInv'
    BY TypeInvNext DEF IInv
  <1>2. RemoverInv' /\ LockInv'
    <2>1. CASE \E a \in Children : OneStep(a)
      BY <2>1, LockKept
    <2>2. CASE Stop
      <3>1. \A c \in Children : job'[c].pc = "idle"
        BY <2>2 DEF Stop, IdleJob
      <3>2. QED
        BY <3>1 DEF RemoverInv, LockInv, Creating, At
    <2>3. CASE UNCHANGED vars
      BY <2>3 DEF IInv, RemoverInv, LockInv, Creating, At, Command, Dest, vars
    <2>4. QED
      BY <2>1, <2>2, <2>3, StepKinds
  <1>3. QED
    BY <1>1, <1>2 DEF IInv

(* However many children run, and wherever they are killed, no two of them    *)
(* are between mkdir and the writing of the owner file for the same group,    *)
(* until somebody is cleared to remove that group.                            *)
THEOREM CreationIsSerial == Spec => []OneCreator
  <1>1. IInv => OneCreator
    BY DEF IInv, LockInv, OneCreator
  <1>2. QED
    BY IInvInit, IInvNext, <1>1, PTL DEF Spec

(* Nobody else's create_group, message or deactivation changes whom the owner *)
(* file names, until somebody is cleared to remove the group.                 *)
THEOREM OwnerNeverChanges == Spec => OwnerFixed
  <1> DEFINE Keeps == \A g \in Groups \ doomed :
                         owner[g] \in Users => owner'[g] = owner[g]
  <1>1. ASSUME IInv, [Next]_vars PROVE Keeps
    <2> SUFFICES ASSUME NEW g \in Groups \ doomed, owner[g] \in Users
                 PROVE  owner'[g] = owner[g]
      OBVIOUS
    <2>1. ASSUME NEW a \in Children, OneStep(a) PROVE owner'[g] = owner[g]
      <3>0. owner[g] # None
        BY AccountsAssumption DEF AccountsAssumption
      <3>1. ~ (Creating(a) /\ Dest(a) = g)
        BY <1>1, <3>0 DEF IInv, LockInv
      <3>2. QED
        BY <2>1, <3>1 DEF OneStep, Spares
    <2>2. CASE Stop \/ UNCHANGED vars
      BY <2>2 DEF Stop, disk, vars
    <2>3. QED
      BY <1>1, <2>1, <2>2, StepKinds
  <1>2. IInv /\ [Next]_vars => [Keeps]_vars
    BY <1>1
  <1>3. QED
    BY IInvInit, IInvNext, <1>2, PTL DEF Spec, OwnerFixed
------------------------------------------------------------------------------
(* Complete groups.  While nobody is cleared to remove a group and nobody     *)
(* kills a child, only its creator touches the directory, the owner file and  *)
(* the system group, and each of its steps finds what the one before left.    *)

Makes(c, g) == Creating(c) /\ Dest(c) = g

Whole(g) ==
    /\ g \in made =>
         \/ g \in sysgroup /\ owner[g] \in Users
         \/ \E c \in Children : Makes(c, g)
    /\ g \in sysgroup => g \in made
    /\ \A c \in Children : Makes(c, g) =>
          /\ At(c, "groupadd") <=> g \notin sysgroup
          /\ At(c, "write") => OwnerFile \in files[g]

WholeInv == IInv /\ (stops = 0 => \A g \in Groups \ doomed : Whole(g))

(* A step that is none of the creator's.                                      *)
Untouched(g) ==
    /\ g \in made' <=> g \in made
    /\ g \in sysgroup' <=> g \in sysgroup
    /\ owner'[g] = owner[g]
    /\ OwnerFile \in files'[g] <=> OwnerFile \in files[g]
    /\ \A c \in Children : \/ job'[c] = job[c]
                           \/ ~ Makes(c, g) /\ ~ Makes(c, g)'

(* Such a step leaves the group whole.                                        *)
LEMMA UntouchedWhole ==
    ASSUME NEW g, Whole(g), Untouched(g)
    PROVE  Whole(g)'
  <1>1. \A c \in Children :
           /\ Makes(c, g)' <=> Makes(c, g)
           /\ Makes(c, g) => job'[c] = job[c]
    BY DEF Untouched, Makes, Creating, At, Dest
  <1>2. QED
    BY <1>1 DEF Untouched, Whole, At

(* Two children never make one group that nobody is cleared to remove.        *)
LEMMA OnlyMaker ==
    ASSUME IInv, NEW g \in Groups \ doomed, NEW c \in Children, Makes(c, g)
    PROVE  /\ \A d \in Children : Makes(d, g) => d = c
           /\ g \in made
  BY DEF IInv, LockInv, Makes

(* mkdir finds neither directory nor system group, or is refused.             *)
LEMMA MkdirWhole ==
    ASSUME IInv, NEW a \in Children, Mkdir(a), NEW g \in Groups \ doomed,
           Whole(g)
    PROVE  Whole(g)'
  <1>1. /\ \A c \in Children \ {a} : job'[c] = job[c]
        /\ job'[a] = IdleJob \/ job'[a].req = job[a].req
        /\ owner' = owner /\ files' = files /\ sysgroup' = sysgroup
    BY NewPc, NowIdle DEF IInv, Mkdir, Goto, disk, system
  <1>2. ~ Makes(a, g)
    BY DEF Mkdir, Makes, Creating, At
  <1>3. CASE Dest(a) # g \/ Dest(a) \in made
    <2>1. g \in made' <=> g \in made
      BY <1>3 DEF Mkdir, disk
    <2>2. ~ Makes(a, g)'
      <3>1. CASE Dest(a) # g
        BY <1>1, <3>1 DEF Makes, Dest, Creating, At, IdleJob
      <3>2. CASE Dest(a) \in made
        <4>1. job'[a].pc = "refused"
          BY <3>2, NewPc DEF IInv, Mkdir, Goto
        <4>2. QED
          BY <4>1 DEF Makes, Creating, At
      <3>3. QED
        BY <1>3, <3>1, <3>2
    <2>3. Untouched(g)
      BY <1>1, <1>2, <2>1, <2>2 DEF Untouched
    <2>4. QED
      BY <2>3, UntouchedWhole
  <1>4. CASE Dest(a) = g /\ g \notin made
    <2>1. ~ At(a, "idle") /\ At(a, "mkdir")
      BY DEF Mkdir, At
    <2>2. Command(a) = "criar"
      <3>1. Command(a) \in {"criar", "ativar"}
        BY <2>1, AtWork DEF IInv, At, CommandAt
      <3>2. Command(a) = "ativar" => g \in Users
        BY <1>4, <2>1, AtWork DEF IInv
      <3>3. QED
        BY <3>1, <3>2, AccountsAssumption DEF AccountsAssumption
    <2>3. job'[a].pc = "groupadd" /\ g \in made'
      BY <1>4, <2>2, NewPc DEF IInv, Mkdir, Goto
    <2>4. Makes(a, g)' /\ At(a, "groupadd")' /\ ~ At(a, "write")'
      BY <1>1, <1>4, <2>3 DEF Makes, Creating, At, Dest, IdleJob
    <2>5. g \notin sysgroup'
      BY <1>1, <1>4 DEF Whole
    <2>6. ASSUME NEW c \in Children, Makes(c, g)' PROVE c = a
      <3>1. c # a => Makes(c, g)
        BY <1>1, <2>6 DEF Makes, Creating, At, Dest
      <3>2. QED
        BY <1>4, <3>1, OnlyMaker
    <2>7. QED
      BY <2>3, <2>4, <2>5, <2>6 DEF Whole
  <1>5. QED
    BY <1>3, <1>4

(* groupadd, fopen and fclose by the creator of g find what they need.        *)
LEMMA CreatorWhole ==
    ASSUME IInv, NEW a \in Children,
           Groupadd(a) \/ OpenOwner(a) \/ WriteOwner(a),
           NEW g \in Groups \ doomed, Makes(a, g), Whole(g)
    PROVE  Whole(g)'
  <1>1. /\ Dest(a) = g /\ g \in made
        /\ \A d \in Children : Makes(d, g) => d = a
    BY OnlyMaker DEF Makes
  <1>2. TypeInv /\ DiskType /\ User(a) \in Users
    BY TypeParts, AtWork DEF IInv, TypeInv, Makes, Creating, At
  <1>3. ASSUME NEW pc, Goto(a, pc)
        PROVE  /\ job'[a].pc = pc
               /\ Dest(a)' = g
               /\ \A d \in Children : Makes(d, g)' => d = a
    <2>1. /\ \A c \in Children \ {a} : job'[c] = job[c]
          /\ job'[a].pc = pc
          /\ job'[a].req = job[a].req
      BY <1>2, <1>3, NewPc DEF Goto
    <2>2. \A d \in Children : Makes(d, g)' => d = a
      <3>1. ASSUME NEW d \in Children, d # a PROVE Makes(d, g)' <=> Makes(d, g)
        BY <2>1, <3>1 DEF Makes, Creating, At, Dest
      <3>2. QED
        BY <1>1, <3>1
    <2>3. QED
      BY <1>1, <2>1, <2>2 DEF Dest
  <1>4. CASE Groupadd(a)
    <2>1. At(a, "groupadd") /\ g \notin sysgroup
      BY <1>4 DEF Groupadd, Whole
    <2>2. Goto(a, "owner") /\ g \in sysgroup' /\ made' = made
      BY <1>1, <1>4, <2>1 DEF Groupadd
    <2>3. Makes(a, g)' /\ ~ At(a, "groupadd")' /\ ~ At(a, "write")'
      BY <1>3, <2>2 DEF Makes, Creating, At
    <2>4. QED
      BY <1>1, <1>3, <2>2, <2>3 DEF Whole
  <1>5. CASE OpenOwner(a)
    <2>1. g \in sysgroup
      BY <1>5 DEF OpenOwner, Whole, At
    <2>2. /\ Goto(a, "write") /\ sysgroup' = sysgroup /\ made' = made
          /\ files' = [files EXCEPT ![g] = @ \cup {OwnerFile}]
      BY <1>1, <1>5, <2>1 DEF OpenOwner, system
    <2>3. OwnerFile \in files'[g]
      BY <1>2, <2>2 DEF DiskType, Folders
    <2>4. Makes(a, g)' /\ ~ At(a, "groupadd")'
      BY <1>3, <2>2 DEF Makes, Creating, At
    <2>5. QED
      BY <1>1, <1>3, <2>1, <2>2, <2>3, <2>4 DEF Whole
  <1>6. CASE WriteOwner(a)
    <2>1. OwnerFile \in files[g] /\ g \in sysgroup
      BY <1>6 DEF WriteOwner, Whole, At
    <2>2. /\ Goto(a, "usermod") /\ sysgroup' = sysgroup /\ made' = made
          /\ owner' = [owner EXCEPT ![g] = User(a)]
      BY <1>1, <1>6, <2>1 DEF WriteOwner, system
    <2>3. owner'[g] \in Users
      BY <1>2, <2>2 DEF DiskType
    <2>4. ~ Makes(a, g)'
      BY <1>3, <2>2 DEF Makes, Creating, At
    <2>5. \A d \in Children : ~ Makes(d, g)'
      BY <1>3, <2>2, <2>4
    <2>6. QED
      BY <1>1, <2>1, <2>2, <2>3, <2>5 DEF Whole
  <1>7. QED
    BY <1>4, <1>5, <1>6

(* A child that has a step of another group, or of no group, to do.           *)
LEMMA ElsewhereWhole ==
    ASSUME IInv, NEW a \in Children, Handle(a), ~ Mkdir(a),
           NEW g \in Groups \ doomed, ~ Makes(a, g), Whole(g)
    PROVE  Whole(g)'
  <1>1. TypeInv /\ DiskType
    BY TypeParts DEF IInv, TypeInv
  <1>2. ASSUME NEW pc \in Steps, NEW left, Become(a, pc, left)
        PROVE  /\ \A c \in Children \ {a} : job'[c] = job[c]
               /\ Makes(a, g)' => /\ pc \in {"groupadd", "owner", "write"}
                                  /\ Dest(a) = g
    BY <1>1, <1>2, NewPc DEF Makes, Creating, At, Dest
  <1>3. ASSUME Exit(a)
        PROVE  (\A c \in Children \ {a} : job'[c] = job[c]) /\ ~ Makes(a, g)'
    BY <1>1, <1>3, NowIdle DEF Makes, Creating, At, IdleJob
  <1>4. ASSUME NEW pc \in Steps, Goto(a, pc)
        PROVE  /\ \A c \in Children \ {a} : job'[c] = job[c]
               /\ Makes(a, g)' => /\ pc \in {"groupadd", "owner", "write"}
                                  /\ Dest(a) = g
    BY <1>2, <1>4 DEF Goto
  <1> DEFINE Quiet == /\ \A c \in Children \ {a} : job'[c] = job[c]
                      /\ ~ Makes(a, g)'
             Kept == /\ g \in made' <=> g \in made
                     /\ g \in sysgroup' <=> g \in sysgroup
                     /\ owner'[g] = owner[g]
                     /\ OwnerFile \in files'[g] <=> OwnerFile \in files[g]
  <1>5. CASE Groupadd(a) \/ OpenOwner(a) \/ WriteOwner(a)
    <2>1. Dest(a) # g /\ Dest(a) \in Groups
      BY <1>1, <1>5, CreatorType
      DEF Groupadd, OpenOwner, WriteOwner, Makes, Creating
    <2>2. Quiet
      BY <1>3, <1>4, <1>5, <2>1 DEF Groupadd, OpenOwner, WriteOwner, Steps
    <2>3. Kept
      BY <1>1, <1>5, <2>1
      DEF Groupadd, OpenOwner, WriteOwner, Rmdir, system, DiskType, Folders
    <2>4. QED
      BY <2>2, <2>3, UntouchedWhole DEF Untouched
  <1>6. CASE Usermod(a) \/ Gpasswd(a) \/ Leave(a) \/ LeaveOne(a) \/ LeftAll(a)
             \/ Reply(a)
    <2>1. Quiet
      <3>1. CASE LeaveOne(a)
        BY <1>1, <3>1, LeaveShape DEF Makes, Creating, At
      <3>2. CASE ~ LeaveOne(a)
        BY <1>2, <1>3, <1>4, <1>6, <3>2
        DEF Usermod, Gpasswd, Leave, LeftAll, Reply, Steps
      <3>3. QED
        BY <3>1, <3>2
    <2>2. Kept
      BY <1>6 DEF Usermod, Gpasswd, Leave, LeaveOne, LeftAll, Reply, disk, system
    <2>3. QED
      BY <2>1, <2>2, UntouchedWhole DEF Untouched
  <1>7. CASE Check(a)
    <2>1. Command(a) \in {"remover", "adicionar", "remover-user", "desativar"}
      BY <1>1, <1>7, AtWork DEF Check, At, CommandAt
    <2>2. Quiet
      BY <1>4, <1>7, <2>1 DEF Check, Steps
    <2>3. Kept
      BY <1>7 DEF Check, disk, system
    <2>4. QED
      BY <2>2, <2>3, UntouchedWhole DEF Untouched
  <1>8. CASE Opendir(a) \/ Unlink(a) \/ RemoveDirectory(a) \/ Groupdel(a)
    <2>1. Dest(a) # g
      <3>1. /\ job[a].pc \in {"opendir", "unlink", "groupdel"}
            /\ ~ At(a, "idle")
        BY <1>8 DEF Opendir, Unlink, RemoveDirectory, Groupdel, At
      <3>2. /\ Command(a) \in {"remover", "desativar"}
            /\ Command(a) = "desativar" => Dest(a) \in Users
        BY <1>1, <3>1, AtWork DEF CommandAt
      <3>3. Command(a) = "remover" => Dest(a) \in doomed
        BY <3>1 DEF IInv, RemoverInv
      <3>4. QED
        BY <3>2, <3>3, AccountsAssumption DEF AccountsAssumption
    <2>2. Quiet
      BY <1>2, <1>3, <1>4, <1>8
      DEF Opendir, Unlink, RemoveDirectory, Groupdel, Steps
    <2>3. Kept
      <3>1. CASE Opendir(a)
        BY <3>1 DEF Opendir, disk, system
      <3>2. CASE Unlink(a)
        BY <1>1, <2>1, <3>2 DEF Unlink, system, DiskType, Folders
      <3>3. CASE RemoveDirectory(a)
        BY <2>1, <3>3 DEF RemoveDirectory, Rmdir, system
      <3>4. CASE Groupdel(a)
        BY <2>1, <3>4 DEF Groupdel, disk, system
      <3>5. QED
        BY <1>8, <3>1, <3>2, <3>3, <3>4
    <2>4. QED
      BY <2>2, <2>3, UntouchedWhole DEF Untouched
  <1>9. CASE Deliver(a)
    <2>1. Quiet
      BY <1>3, <1>4, <1>9 DEF Deliver, Steps
    <2>2. Kept
      <3>1. \/ UNCHANGED files
            \/ \E m \in Mail : files' = [files EXCEPT ![Dest(a)] = @ \cup {m}]
        BY <1>9 DEF Deliver
      <3>2. OwnerFile \in files'[g] <=> OwnerFile \in files[g]
        BY <1>1, <3>1, AccountsAssumption DEF DiskType, Folders, AccountsAssumption
      <3>3. QED
        BY <1>9, <3>2 DEF Deliver, system
    <2>3. QED
      BY <2>1, <2>2, UntouchedWhole DEF Untouched
  <1>10. QED
    BY <1>5, <1>6, <1>7, <1>8, <1>9 DEF Handle

(* The inductive step: after a kill nothing is claimed.                       *)
LEMMA WholeInvNext == WholeInv /\ [Next]_vars => WholeInv'
  <1> SUFFICES ASSUME WholeInv, [Next]_vars PROVE WholeInv'
    OBVIOUS
  <1>1. IInv /\ IInv' /\ TypeInv
    BY IInvNext DEF WholeInv, IInv
  <1>2. doomed \subseteq doomed'
    BY <1>1, StepKinds DEF OneStep, Stop, vars
  <1> SUFFICES ASSUME stops' = 0, NEW g \in Groups \ doomed'
               PROVE  Whole(g)'
    BY <1>1 DEF WholeInv
  <1>3. g \in Groups \ doomed
    BY <1>2
  <1>4. ASSUME NEW a \in Children, NEW r \in ClientRequests, Begin(a, r)
        PROVE  Whole(g)'
    <2>1. /\ UNCHANGED <<disk, system, stops>>
          /\ job[a].pc = "idle"
          /\ job'[a].pc = FirstStep(r.command)
          /\ \A c \in Children \ {a} : job'[c] = job[c]
      BY <1>1, <1>4 DEF Begin, TypeInv, TypeOK, At
    <2>2. FirstStep(r.command) \in {"mkdir", "deliver", "check"}
      BY DEF FirstStep, ClientRequests, Request
    <2>3. ~ Makes(a, g) /\ ~ Makes(a, g)'
      BY <2>1, <2>2 DEF Makes, Creating, At
    <2>4. Untouched(g)
      BY <2>1, <2>3 DEF Untouched, disk, system
    <2>5. QED
      BY <1>3, <2>1, <2>4, UntouchedWhole DEF WholeInv
  <1>5. ASSUME NEW a \in Children, Handle(a)
        PROVE  Whole(g)'
    <2>1. stops' = stops
      BY <1>5
      DEF Handle, Mkdir, Groupadd, OpenOwner, WriteOwner, Usermod, Check, Gpasswd,
          Opendir, Unlink, RemoveDirectory, Groupdel, Leave, LeaveOne, LeftAll,
          Deliver, Reply, counters
    <2>2. Whole(g)
      BY <1>3, <2>1 DEF WholeInv
    <2>3. CASE Mkdir(a)
      BY <1>1, <1>3, <2>2, <2>3, MkdirWhole
    <2>4. CASE ~ Mkdir(a) /\ ~ Makes(a, g)
      BY <1>1, <1>3, <1>5, <2>2, <2>4, ElsewhereWhole
    <2>5. CASE Makes(a, g)
      <3>1. job[a].pc \in {"groupadd", "owner", "write"}
        BY <2>5 DEF Makes, Creating, At
      <3>2. Groupadd(a) \/ OpenOwner(a) \/ WriteOwner(a)
        BY <1>5, <3>1
        DEF Handle, Mkdir, Usermod, Check, Gpasswd, Opendir, Unlink,
            RemoveDirectory, Groupdel, Leave, LeaveOne, LeftAll, Deliver, Reply, At
      <3>3. QED
        BY <1>1, <1>3, <2>2, <2>5, <3>2, CreatorWhole
    <2>6. QED
      BY <2>3, <2>4, <2>5
  <1>6. CASE Stop
    BY <1>1, <1>6 DEF Stop, TypeInv, TypeOK
  <1>7. CASE UNCHANGED vars
    <2>1. Untouched(g) /\ stops' = stops
      BY <1>7 DEF Untouched, vars
    <2>2. QED
      BY <1>3, <2>1, UntouchedWhole DEF WholeInv
  <1>8. QED
    BY <1>4, <1>5, <1>6, <1>7 DEF Next, Wait

(* However many children work on it, until somebody is cleared to remove it a *)
(* group that create_group has left is complete, directory, owner file and    *)
(* system group, as long as no child is killed half way.                      *)
THEOREM GroupsAreComplete == Spec => []CompleteGroups
  <1>1. Init => WholeInv
    <2> SUFFICES ASSUME Init PROVE WholeInv
      OBVIOUS
    <2>1. \A c \in Children : job[c].pc = "idle"
      BY DEF Init, IdleJob
    <2>2. \A g \in Groups : Whole(g)
      BY <2>1 DEF Init, Whole, Makes, Creating, At
    <2>3. QED
      BY <2>2, IInvInit DEF WholeInv
  <1>2. WholeInv => CompleteGroups
    BY DEF WholeInv, Whole, Makes, CompleteGroups
  <1>3. QED
    BY <1>1, <1>2, WholeInvNext, PTL DEF Spec

------------------------------------------------------------------------------
(* One child at a time: what it read or made in one step is still so in the   *)
(* next, however often the daemon is killed in between requests.              *)

Walk(c) ==
    /\ Creating(c) => Dest(c) \in made
    /\ job[c].pc \in {"owner", "write"} => Dest(c) \in sysgroup
    /\ At(c, "write") => OwnerFile \in files[Dest(c)]
    /\ job[c].pc \in {"usermod", "gpasswd"} => owner[Dest(c)] = User(c)
    /\ At(c, "unlink") => Dest(c) \in made /\ job[c].left = files[Dest(c)]
    /\ At(c, "groupdel") => Dest(c) \notin made
    /\ job[c].pc \in {"leave", "leaving", "done"} /\ Command(c) = "desativar" =>
          User(c) \notin made
    /\ At(c, "leaving") =>
          \A g \in Groups \cap made :
             User(c) \in member[g] => g \in job[c].left \cup job[c].kept
    /\ At(c, "done") /\ Command(c) = "desativar" =>
          \A g \in Groups \cap made : User(c) \in member[g] => g \in job[c].kept

(* Directory, owner file and system group, as long as nobody was killed.      *)
Agrees(c, g) ==
    /\ g \in made \ sysgroup => At(c, "groupadd") /\ Dest(c) = g
    /\ g \in sysgroup \ made => At(c, "groupdel") /\ Dest(c) = g
    /\ g \in made => \/ owner[g] \in Users
                     \/ (Creating(c) \/ At(c, "unlink")) /\ Dest(c) = g

Unkilled(c) ==
    /\ At(c, "groupadd") => Dest(c) \notin sysgroup
    /\ \A g \in Groups : Agrees(c, g)

OneInv(c) == TypeInv /\ Walk(c) /\ (stops = 0 => Unkilled(c))

(* A child that is idle, or at a step that makes and removes nothing.         *)
Elsewhere(pc) ==
    pc \in {"idle", "mkdir", "usermod", "check", "gpasswd", "opendir", "leave",
            "leaving", "deliver", "done", "refused"}

(* From one such step to another nothing has to be said again.                *)
LEMMA StillAgree ==
    ASSUME NEW c \in Children, Unkilled(c), Elsewhere(job[c].pc),
           Elsewhere(job'[c].pc),
           \A g \in Groups : /\ g \in made' <=> g \in made
                             /\ g \in sysgroup' <=> g \in sysgroup
                             /\ owner'[g] = owner[g]
    PROVE  Unkilled(c)'
  BY DEF Unkilled, Agrees, Elsewhere, Creating, At

(* criar and adicionar, each step with what it finds.                         *)
LEMMA OneMaking ==
    ASSUME NEW c \in Children, OneInv(c),
           Mkdir(c) \/ Groupadd(c) \/ OpenOwner(c) \/ WriteOwner(c) \/ Usermod(c)
    PROVE  Walk(c)' /\ (stops = 0 => Unkilled(c)')
  <1> DEFINE f == Dest(c)
  <1>1. TypeInv /\ DiskType /\ Walk(c) /\ ~ At(c, "idle")
    BY TypeParts
    DEF OneInv, TypeInv, At, Mkdir, Groupadd, OpenOwner, WriteOwner, Usermod
  <1>2. /\ User(c) \in Users
        /\ f \in Folders
        /\ Command(c) = "ativar" => f \in Users
        /\ Command(c) \in {"criar", "adicionar"} => f \in Groups
        /\ CommandAt(job[c].pc, Command(c))
    BY <1>1, AtWork
  <1>3. ASSUME NEW pc, Goto(c, pc)
        PROVE  /\ job'[c].pc = pc
               /\ Dest(c)' = f /\ User(c)' = User(c) /\ Command(c)' = Command(c)
    <2>1. job'[c].pc = pc /\ job'[c].req = job[c].req
      BY <1>1, <1>3, NewPc DEF Goto
    <2>2. QED
      BY <2>1 DEF Dest, User, Command
  <1>4. Exit(c) => job'[c].pc = "idle"
    BY <1>1, NowIdle DEF IdleJob
  <1>5. job'[c].pc \in {"idle", "refused"} => Walk(c)'
    BY DEF Walk, Creating, At
  <1>6. stops = 0 => Unkilled(c)
    BY DEF OneInv
  <1>7. CASE Mkdir(c)
    <2>1. job[c].pc = "mkdir" /\ UNCHANGED <<owner, sysgroup>>
      BY <1>7 DEF Mkdir, At, disk, system
    <2>2. CASE f \in made
      <3>1. job'[c].pc = "refused" /\ made' = made
        BY <1>3, <1>7, <2>2 DEF Mkdir, disk
      <3>2. stops = 0 => Unkilled(c)'
        BY <1>6, <2>1, <3>1, StillAgree DEF Elsewhere
      <3>3. QED
        BY <1>5, <3>1, <3>2
    <2>3. CASE f \notin made /\ Command(c) = "ativar"
      <3>1. /\ \/ job'[c].pc = "done" /\ Command(c)' = "ativar"
               \/ job'[c].pc = "idle"
            /\ made' = made \cup {f} /\ f \notin Groups
        BY <1>2, <1>3, <1>4, <1>7, <2>3, AccountsAssumption
        DEF Mkdir, AccountsAssumption
      <3>2. stops = 0 => Unkilled(c)'
        BY <1>6, <2>1, <3>1, StillAgree DEF Elsewhere
      <3>3. Walk(c)'
        BY <3>1 DEF Walk, Creating, At
      <3>4. QED
        BY <3>2, <3>3
    <2>4. CASE f \notin made /\ Command(c) = "criar"
      <3>1. /\ job'[c].pc = "groupadd" /\ Dest(c)' = f
            /\ made' = made \cup {f}
        BY <1>3, <1>7, <2>4 DEF Mkdir
      <3>2. stops = 0 => Unkilled(c)'
        <4>1. ASSUME stops = 0 PROVE f \notin sysgroup /\ \A g \in Groups : Agrees(c, g)
          BY <1>2, <1>6, <2>1, <2>4, <4>1 DEF Unkilled, Agrees, At
        <4>2. ASSUME stops = 0, NEW g \in Groups PROVE Agrees(c, g)'
          BY <2>1, <3>1, <4>1, <4>2 DEF Agrees, Creating, At
        <4>3. QED
          BY <2>1, <3>1, <4>1, <4>2 DEF Unkilled, At
      <3>3. Walk(c)'
        BY <3>1 DEF Walk, Creating, At
      <3>4. QED
        BY <3>2, <3>3
    <2>5. QED
      BY <1>2, <2>1, <2>2, <2>3, <2>4 DEF CommandAt
  <1>8. CASE Groupadd(c)
    <2>1. /\ job[c].pc = "groupadd" /\ f \in Groups /\ f \in made
          /\ UNCHANGED <<owner, files>>
      BY <1>1, <1>2, <1>8 DEF Groupadd, At, CommandAt, Walk, Creating
    <2>2. CASE f \in sysgroup
      <3>1. job'[c].pc = "idle"
        BY <1>4, <1>8, <2>2 DEF Groupadd
      <3>2. stops # 0
        BY <1>6, <2>1, <2>2 DEF Unkilled, At
      <3>3. QED
        BY <1>5, <3>1, <3>2
    <2>3. CASE f \notin sysgroup
      <3>1. /\ job'[c].pc = "owner" /\ Dest(c)' = f
            /\ made' = made /\ sysgroup' = sysgroup \cup {f}
        BY <1>3, <1>8, <2>3 DEF Groupadd
      <3>2. Walk(c)'
        BY <2>1, <3>1 DEF Walk, Creating, At
      <3>3. ASSUME stops = 0, NEW g \in Groups PROVE Agrees(c, g)'
        BY <1>6, <2>1, <3>1, <3>3 DEF Unkilled, Agrees, Creating, At
      <3>4. QED
        BY <3>1, <3>2, <3>3 DEF Unkilled, At
    <2>4. QED
      BY <2>2, <2>3
  <1>9. CASE OpenOwner(c)
    <2>1. job[c].pc = "owner" /\ f \in Groups /\ f \in made /\ f \in sysgroup
      BY <1>1, <1>2, <1>9 DEF OpenOwner, At, CommandAt, Walk, Creating
    <2>2. /\ job'[c].pc = "write" /\ Dest(c)' = f
          /\ made' = made /\ sysgroup' = sysgroup
          /\ files' = [files EXCEPT ![f] = @ \cup {OwnerFile}]
          /\ owner' = [owner EXCEPT ![f] = None]
      BY <1>3, <1>9, <2>1 DEF OpenOwner, system
    <2>3. OwnerFile \in files'[f] /\ \A g \in Groups \ {f} : owner'[g] = owner[g]
      BY <1>1, <1>2, <2>2 DEF DiskType
    <2>4. Walk(c)'
      BY <2>1, <2>2, <2>3 DEF Walk, Creating, At
    <2>5. ASSUME stops = 0, NEW g \in Groups PROVE Agrees(c, g)'
      <3>1. Agrees(c, g) /\ ~ At(c, "unlink") /\ Creating(c)'
        BY <1>6, <2>1, <2>2, <2>5 DEF Unkilled, Creating, At
      <3>2. CASE g = f
        BY <2>1, <2>2, <3>1, <3>2 DEF Agrees
      <3>3. CASE g # f
        BY <2>1, <2>2, <2>3, <3>1, <3>3 DEF Agrees, At
      <3>4. QED
        BY <3>2, <3>3
    <2>6. QED
      BY <2>2, <2>4, <2>5 DEF Unkilled, At
  <1>10. CASE WriteOwner(c)
    <2>1. /\ job[c].pc = "write" /\ f \in Groups /\ f \in made /\ f \in sysgroup
          /\ OwnerFile \in files[f]
      BY <1>1, <1>2, <1>10 DEF WriteOwner, At, CommandAt, Walk, Creating
    <2>2. /\ job'[c].pc = "usermod" /\ Dest(c)' = f /\ User(c)' = User(c)
          /\ made' = made /\ sysgroup' = sysgroup
          /\ owner' = [owner EXCEPT ![f] = User(c)]
      BY <1>3, <1>10, <2>1 DEF WriteOwner, system
    <2>3. owner'[f] = User(c) /\ \A g \in Groups \ {f} : owner'[g] = owner[g]
      BY <1>1, <2>1, <2>2 DEF DiskType
    <2>4. Walk(c)'
      BY <2>2, <2>3 DEF Walk, Creating, At
    <2>5. ASSUME stops = 0, NEW g \in Groups PROVE Agrees(c, g)'
      <3>1. Agrees(c, g)
        BY <1>6, <2>5 DEF Unkilled
      <3>2. CASE g = f
        BY <1>2, <2>1, <2>2, <2>3, <3>1, <3>2 DEF Agrees
      <3>3. CASE g # f
        BY <2>1, <2>2, <2>3, <3>1, <3>3 DEF Agrees, At
      <3>4. QED
        BY <3>2, <3>3
    <2>6. QED
      BY <2>2, <2>4, <2>5 DEF Unkilled, At
  <1>11. CASE Usermod(c)
    <2>1. /\ job[c].pc = "usermod" /\ Command(c) # "desativar"
          /\ UNCHANGED <<made, owner, sysgroup>>
      BY <1>2, <1>11 DEF Usermod, At, CommandAt, disk
    <2>2. job'[c].pc \in {"done", "refused"} /\ Command(c)' # "desativar"
      BY <1>3, <1>11, <2>1 DEF Usermod
    <2>3. stops = 0 => Unkilled(c)'
      BY <1>6, <2>1, <2>2, StillAgree DEF Elsewhere
    <2>4. Walk(c)'
      BY <2>2 DEF Walk, Creating, At
    <2>5. QED
      BY <2>3, <2>4
  <1>12. QED
    BY <1>7, <1>8, <1>9, <1>10, <1>11

(* remove_directory finds the names it has read, and the directory empty when *)
(* it has removed them.                                                       *)
LEMMA OneRemoving ==
    ASSUME NEW c \in Children, OneInv(c),
           \/ Check(c) \/ Opendir(c) \/ Unlink(c) \/ RemoveDirectory(c)
           \/ Groupdel(c)
    PROVE  Walk(c)' /\ (stops = 0 => Unkilled(c)')
  <1> DEFINE f == Dest(c)
  <1>1. TypeInv /\ DiskType /\ Walk(c) /\ ~ At(c, "idle")
    BY TypeParts
    DEF OneInv, TypeInv, At, Check, Opendir, Unlink, RemoveDirectory, Groupdel
  <1>2. /\ User(c) \in Users
        /\ f \in Folders
        /\ Command(c) = "desativar" => f = User(c)
        /\ Command(c) = "remover" => f \in Groups
        /\ CommandAt(job[c].pc, Command(c))
    BY <1>1, AtWork
  <1>3. ASSUME NEW pc, NEW left, Become(c, pc, left)
        PROVE  /\ job'[c].pc = pc /\ job'[c].left = left
               /\ Dest(c)' = f /\ User(c)' = User(c) /\ Command(c)' = Command(c)
    <2>1. job'[c].pc = pc /\ job'[c].req = job[c].req /\ job'[c].left = left
      BY <1>1, <1>3 DEF TypeInv, TypeOK, Become
    <2>2. QED
      BY <2>1 DEF Dest, User, Command
  <1>4. Exit(c) => job'[c].pc = "idle"
    BY <1>1, NowIdle DEF IdleJob
  <1>5. job'[c].pc \in {"idle", "refused", "opendir"} => Walk(c)'
    BY DEF Walk, Creating, At
  <1>6. stops = 0 => Unkilled(c)
    BY DEF OneInv
  <1>7. CASE Check(c)
    <2>1. /\ job[c].pc = "check" /\ UNCHANGED <<made, owner, sysgroup, member>>
          /\ Command(c) \in {"remover", "adicionar", "remover-user", "desativar"}
      BY <1>2, <1>7 DEF Check, At, CommandAt, disk, system
    <2>2. /\ job'[c].pc \in {"refused", "opendir", "usermod", "gpasswd"}
          /\ job'[c].pc \in {"usermod", "gpasswd"} => IsOwner(f, User(c))
          /\ Dest(c)' = f /\ User(c)' = User(c)
      BY <1>3, <1>7, <2>1 DEF Check, Goto
    <2>3. stops = 0 => Unkilled(c)'
      BY <1>6, <2>1, <2>2, StillAgree DEF Elsewhere
    <2>4. Walk(c)'
      BY <2>1, <2>2 DEF Walk, Creating, At, IsOwner
    <2>5. QED
      BY <2>3, <2>4
  <1>8. CASE Opendir(c)
    <2>1. job[c].pc = "opendir" /\ UNCHANGED <<made, files, owner, sysgroup>>
      BY <1>8 DEF Opendir, At, disk, system
    <2>2. CASE f \in made
      <3>1. job'[c].pc = "unlink" /\ job'[c].left = files[f] /\ Dest(c)' = f
        BY <1>3, <1>8, <2>2 DEF Opendir
      <3>2. Walk(c)'
        BY <2>1, <2>2, <3>1 DEF Walk, Creating, At
      <3>3. ASSUME stops = 0, NEW g \in Groups PROVE Agrees(c, g)'
        BY <1>6, <2>1, <3>1, <3>3 DEF Unkilled, Agrees, Creating, At
      <3>4. QED
        BY <3>1, <3>2, <3>3 DEF Unkilled, At
    <2>3. CASE f \notin made
      <3>1. job'[c].pc = "idle"
        BY <1>4, <1>8, <2>3 DEF Opendir
      <3>2. stops = 0 => Unkilled(c)'
        BY <1>6, <2>1, <3>1, StillAgree DEF Elsewhere
      <3>3. QED
        BY <1>5, <3>1, <3>2
    <2>4. QED
      BY <2>2, <2>3
  <1>9. CASE Unlink(c)
    <2>1. /\ job[c].pc = "unlink" /\ f \in made /\ job[c].left = files[f]
          /\ UNCHANGED <<made, sysgroup>>
      BY <1>1, <1>9 DEF Unlink, At, Walk, system
    <2>2. PICK e \in files[f] :
            /\ files' = [files EXCEPT ![f] = @ \ {e}]
            /\ owner' = IF e = OwnerFile
                        THEN [owner EXCEPT ![f] = None] ELSE owner
            /\ Become(c, "unlink", job[c].left \ {e})
      BY <1>9, <2>1 DEF Unlink
    <2>3. /\ files'[f] = files[f] \ {e}
          /\ \A g \in Groups \ {f} : owner'[g] = owner[g]
      BY <1>1, <1>2, <2>2 DEF DiskType
    <2>4. job'[c].pc = "unlink" /\ job'[c].left = files'[f] /\ Dest(c)' = f
      BY <1>3, <2>1, <2>2, <2>3
    <2>5. Walk(c)'
      BY <2>1, <2>4 DEF Walk, Creating, At
    <2>6. ASSUME stops = 0, NEW g \in Groups PROVE Agrees(c, g)'
      <3>1. Agrees(c, g)
        BY <1>6, <2>6 DEF Unkilled
      <3>2. QED
        BY <2>1, <2>3, <2>4, <3>1 DEF Agrees, Creating, At
    <2>7. QED
      BY <2>4, <2>5, <2>6 DEF Unkilled, At
  <1>10. CASE RemoveDirectory(c)
    <2>1. /\ job[c].pc = "unlink" /\ f \in made /\ files[f] = {}
          /\ UNCHANGED <<owner, sysgroup, member>>
          /\ Command(c) \in {"remover", "desativar"}
      BY <1>1, <1>2, <1>10 DEF RemoveDirectory, At, Walk, CommandAt, system
    <2>2. /\ made' = made \ {f}
          /\ job'[c].pc = IF Command(c) = "remover" THEN "groupdel" ELSE "leave"
          /\ Dest(c)' = f /\ User(c)' = User(c) /\ Command(c)' = Command(c)
      BY <1>3, <1>10, <2>1 DEF RemoveDirectory, Rmdir, CanRmdir, Goto
    <2>3. Walk(c)'
      BY <1>2, <2>1, <2>2 DEF Walk, Creating, At
    <2>4. ASSUME stops = 0, NEW g \in Groups PROVE Agrees(c, g)'
      <3>1. Agrees(c, g)
        BY <1>6, <2>4 DEF Unkilled
      <3>2. Command(c) = "desativar" => g # f
        BY <1>2, AccountsAssumption DEF AccountsAssumption
      <3>3. CASE g = f
        BY <2>1, <2>2, <3>1, <3>2, <3>3 DEF Agrees, Creating, At
      <3>4. CASE g # f
        BY <2>1, <2>2, <3>1, <3>4 DEF Agrees, Creating, At
      <3>5. QED
        BY <3>3, <3>4
    <2>5. QED
      BY <2>1, <2>2, <2>3, <2>4 DEF Unkilled, At
  <1>11. CASE Groupdel(c)
    <2>1. /\ job[c].pc = "groupdel" /\ f \notin made /\ Command(c) = "remover"
          /\ UNCHANGED <<made, owner>>
      BY <1>1, <1>2, <1>11 DEF Groupdel, At, Walk, CommandAt, disk
    <2>2. /\ job'[c].pc \in {"idle", "done"}
          /\ job'[c].pc = "done" => Command(c)' = "remover"
          /\ sysgroup' = sysgroup \ {f}
      BY <1>3, <1>4, <1>11, <2>1 DEF Groupdel, Goto, system
    <2>3. Walk(c)'
      BY <2>2 DEF Walk, Creating, At
    <2>4. ASSUME stops = 0, NEW g \in Groups PROVE Agrees(c, g)'
      <3>1. Agrees(c, g)
        BY <1>6, <2>4 DEF Unkilled
      <3>2. QED
        BY <2>1, <2>2, <3>1 DEF Agrees, Creating, At
    <2>5. QED
      BY <2>2, <2>3, <2>4 DEF Unkilled, At
  <1>12. QED
    BY <1>7, <1>8, <1>9, <1>10, <1>11

(* deactivate_user leaves every group it finds, and nobody puts the user back *)
(* meanwhile; a message only adds a file to a directory.                      *)
LEMMA OneOthers ==
    ASSUME NEW c \in Children, OneInv(c),
           \/ Gpasswd(c) \/ Leave(c) \/ LeaveOne(c) \/ LeftAll(c)
           \/ Deliver(c) \/ Reply(c)
    PROVE  Walk(c)' /\ (stops = 0 => Unkilled(c)')
  <1>1. TypeInv /\ DiskType /\ Walk(c) /\ ~ At(c, "idle")
    BY TypeParts
    DEF OneInv, TypeInv, At, Gpasswd, Leave, LeaveOne, LeftAll, Deliver, Reply
  <1>2. /\ CommandAt(job[c].pc, Command(c))
        /\ UNCHANGED <<made, owner, sysgroup>>
    BY <1>1, AtWork
    DEF Gpasswd, Leave, LeaveOne, LeftAll, Deliver, Reply, disk, system
  <1>3. ASSUME NEW pc, NEW left, Become(c, pc, left)
        PROVE  /\ job'[c].pc = pc /\ job'[c].left = left
               /\ job'[c].kept = job[c].kept
               /\ User(c)' = User(c) /\ Command(c)' = Command(c)
    <2>1. /\ job'[c].pc = pc /\ job'[c].req = job[c].req /\ job'[c].left = left
          /\ job'[c].kept = job[c].kept
      BY <1>1, <1>3 DEF TypeInv, TypeOK, Become
    <2>2. QED
      BY <2>1 DEF User, Command
  <1>4. Exit(c) => job'[c].pc = "idle"
    BY <1>1, NowIdle DEF IdleJob
  <1>5. /\ Elsewhere(job[c].pc)
        /\ Elsewhere(job'[c].pc)
    BY <1>1, <1>3, <1>4, LeaveShape
    DEF Gpasswd, Leave, LeftAll, Deliver, Reply, Goto, At, Elsewhere
  <1>6. stops = 0 => Unkilled(c)'
    BY <1>2, <1>5, StillAgree DEF OneInv
  <1>7. job'[c].pc = "idle" => Walk(c)'
    BY DEF Walk, Creating, At
  <1>8. job'[c].pc = "done" /\ Command(c)' # "desativar" => Walk(c)'
    BY DEF Walk, Creating, At
  <1>9. CASE Gpasswd(c) \/ Deliver(c) \/ Reply(c)
    <2>1. Gpasswd(c) \/ Deliver(c) => Command(c) # "desativar"
      BY <1>2 DEF Gpasswd, Deliver, At, CommandAt
    <2>2. \/ job'[c].pc = "idle"
          \/ job'[c].pc = "done" /\ Command(c)' # "desativar"
      BY <1>3, <1>4, <1>9, <2>1 DEF Gpasswd, Deliver, Reply, Goto
    <2>3. QED
      BY <1>6, <1>7, <1>8, <2>2
  <1>10. CASE Leave(c)
    <2>1. /\ job'[c].pc = "leaving" /\ job'[c].left = made \cap Groups
          /\ User(c)' = User(c)
      BY <1>3, <1>10 DEF Leave
    <2>2. User(c) \notin made
      BY <1>1, <1>2, <1>10 DEF Leave, At, CommandAt, Walk
    <2>3. Walk(c)'
      BY <1>2, <2>1, <2>2 DEF Walk, Creating, At
    <2>4. QED
      BY <1>6, <2>3
  <1>11. CASE LeaveOne(c)
    <2>1. PICK g \in Groups :
              /\ job'[c].left = job[c].left \ {g}
              /\ \/ /\ member' = [member EXCEPT ![g] = @ \ {User(c)}]
                    /\ job'[c].kept = job[c].kept
                 \/ member' = member /\ job'[c].kept = job[c].kept \cup {g}
      BY <1>1, <1>11, LeaveShape
    <2>2. job[c].pc = "leaving" /\ job'[c].pc = "leaving" /\ User(c)' = User(c)
      BY <1>1, <1>11, LeaveShape DEF User
    <2>3. /\ User(c) \notin made
          /\ \A h \in Groups \cap made :
                User(c) \in member[h] => h \in job[c].left \cup job[c].kept
      BY <1>1, <1>2, <2>2 DEF At, CommandAt, Walk
    <2>4. \A h \in Groups : User(c) \in member'[h] =>
             /\ User(c) \in member[h]
             /\ h = g => h \in job'[c].kept
      BY <1>1, <2>1 DEF DiskType
    <2>5. \A h \in Groups \cap made :
             User(c) \in member'[h] => h \in job'[c].left \cup job'[c].kept
      BY <2>1, <2>3, <2>4
    <2>6. Walk(c)'
      BY <1>2, <2>2, <2>3, <2>5 DEF Walk, Creating, At
    <2>7. QED
      BY <1>6, <2>6
  <1>12. CASE LeftAll(c)
    <2>1. /\ job'[c].pc = "done" /\ User(c)' = User(c) /\ member' = member
          /\ job'[c].kept = job[c].kept
      BY <1>3, <1>12 DEF LeftAll, Goto, system
    <2>2. /\ User(c) \notin made
          /\ \A h \in Groups \cap made : User(c) \in member[h] => h \in job[c].kept
      BY <1>1, <1>2, <1>12 DEF LeftAll, At, CommandAt, Walk
    <2>3. Walk(c)'
      BY <1>2, <2>1, <2>2 DEF Walk, Creating, At
    <2>4. QED
      BY <1>6, <2>3
  <1>13. QED
    BY <1>9, <1>10, <1>11, <1>12

(* The inductive step for the only child.                                     *)
LEMMA OneInvNext ==
    ASSUME NEW k, Children = {k}, OneInv(k), [Next]_vars
    PROVE  OneInv(k)'
  <1>1. TypeInv /\ TypeInv' /\ k \in Children
    BY TypeInvNext DEF OneInv
  <1>2. ASSUME NEW r \in ClientRequests, Begin(k, r)
        PROVE  Walk(k)' /\ (stops' = 0 => Unkilled(k)')
    <2>1. FirstStep(r.command) \in {"mkdir", "deliver", "check"}
      BY DEF FirstStep, ClientRequests, Request
    <2>2. /\ job[k].pc = "idle" /\ job'[k].pc \in {"mkdir", "deliver", "check"}
          /\ UNCHANGED <<made, owner, sysgroup, stops>>
      BY <1>1, <1>2, <2>1 DEF Begin, IdleJob, TypeInv, TypeOK, At, disk, system
    <2>3. Walk(k)'
      BY <2>2 DEF Walk, Creating, At
    <2>4. stops' = 0 => Unkilled(k)'
      BY <1>1, <2>2, StillAgree DEF OneInv, Elsewhere
    <2>5. QED
      BY <2>3, <2>4
  <1>3. ASSUME Handle(k)
        PROVE  Walk(k)' /\ (stops' = 0 => Unkilled(k)')
    <2>1. stops' = stops
      BY <1>3
      DEF Handle, Mkdir, Groupadd, OpenOwner, WriteOwner, Usermod, Check, Gpasswd,
          Opendir, Unlink, RemoveDirectory, Groupdel, Leave, LeaveOne, LeftAll,
          Deliver, Reply, counters
    <2>2. QED
      BY <1>1, <1>3, <2>1, OneMaking, OneRemoving, OneOthers DEF Handle
  <1>4. CASE Stop
    <2>1. job'[k].pc = "idle" /\ stops' # 0
      BY <1>1, <1>4 DEF Stop, IdleJob, TypeInv, TypeOK
    <2>2. Walk(k)'
      BY <2>1 DEF Walk, Creating, At
    <2>3. QED
      BY <1>1, <2>1, <2>2 DEF OneInv
  <1>5. CASE UNCHANGED vars
    BY <1>1, <1>5
    DEF vars, OneInv, Walk, Unkilled, Agrees, Creating, At, Dest, User, Command
  <1>6. QED
    BY <1>1, <1>2, <1>3, <1>4, <1>5 DEF Next, Wait, OneInv

(* And at the start.                                                          *)
LEMMA OneInvInit ==
    ASSUME NEW k, Children = {k}, Init
    PROVE  OneInv(k)
  <1>1. job[k].pc = "idle"
    BY DEF Init, IdleJob
  <1>2. Walk(k)
    BY <1>1 DEF Walk, Creating, At
  <1>3. Unkilled(k)
    BY <1>1 DEF Init, Unkilled, Agrees, At
  <1>4. QED
    BY <1>2, <1>3, TypeInvInit DEF OneInv

(* With one child at a time that nobody kills, directory and system group of  *)
(* a group go together, except between two steps of create_group or of        *)
(* remove_group: no failed attempt leaves one without the other.              *)
THEOREM FolderAndGroupOneChild ==
    ASSUME NEW k, Children = {k}
    PROVE  Spec => []FolderAndGroupAgree
  <1>1. OneInv(k) => FolderAndGroupAgree
    BY DEF OneInv, Unkilled, Agrees, FolderAndGroupAgree
  <1>2. Init => OneInv(k)
    BY OneInvInit
  <1>3. OneInv(k) /\ [Next]_vars => OneInv(k)'
    BY OneInvNext
  <1>4. QED
    BY <1>1, <1>2, <1>3, PTL DEF Spec

(* Nor does any of them leave a group without an owner.                       *)
THEOREM OwnerOneChild ==
    ASSUME NEW k, Children = {k}
    PROVE  Spec => []GroupHasOwner
  <1>1. OneInv(k) => GroupHasOwner
    BY DEF OneInv, Unkilled, Agrees, GroupHasOwner, Creating, At
  <1>2. Init => OneInv(k)
    BY OneInvInit
  <1>3. OneInv(k) /\ [Next]_vars => OneInv(k)'
    BY OneInvNext
  <1>4. QED
    BY <1>1, <1>2, <1>3, PTL DEF Spec

(* A confirmed deactivation is complete, wherever earlier requests were       *)
(* killed, but for the groups gpasswd failed for: the user has no folder and  *)
(* is a member of no other group that has one.                                *)
THEOREM DeactivationOneChild ==
    ASSUME NEW k, Children = {k}
    PROVE  Spec => []DeactivateComplete
  <1>1. OneInv(k) => DeactivateComplete
    BY DEF OneInv, Walk, DeactivateComplete, At
  <1>2. Init => OneInv(k)
    BY OneInvInit
  <1>3. OneInv(k) /\ [Next]_vars => OneInv(k)'
    BY OneInvNext
  <1>4. QED
    BY <1>1, <1>2, <1>3, PTL DEF Spec

(* Only a request of the group's present owner adds somebody to it or removes *)
(* another user: is_owner is still right when usermod and gpasswd run.        *)
THEOREM MembersOneChild ==
    ASSUME NEW k, Children = {k}
    PROVE  Spec => OnlyOwnerChangesMembers
  <1> DEFINE Allowed ==
        \A g \in Groups : \A u \in Users :
          (g \in sysgroup' /\ (u \in member[g] <=> u \notin member'[g])) =>
              \E c \in Children :
                  \/ User(c) = owner[g]
                  \/ User(c) = u /\ Command(c) = "desativar"
  <1>1. ASSUME OneInv(k), [Next]_vars PROVE Allowed
    <2> SUFFICES ASSUME NEW g \in Groups, NEW u \in Users, g \in sysgroup',
                        u \in member[g] <=> u \notin member'[g]
                 PROVE  \/ User(k) = owner[g]
                        \/ User(k) = u /\ Command(k) = "desativar"
      OBVIOUS
    <2>1. TypeInv /\ DiskType /\ Walk(k) /\ k \in Children
      BY <1>1, TypeParts DEF OneInv, TypeInv
    <2>2. member' # member
      OBVIOUS
    <2>3. CASE Groupadd(k)
      <3>1. g \notin sysgroup => member[g] = {}
        BY <2>1 DEF DiskType
      <3>2. QED
        BY <2>1, <2>3, <3>1 DEF Groupadd, system, DiskType
    <2>4. CASE Groupdel(k)
      BY <2>1, <2>4 DEF Groupdel, system, DiskType
    <2>5. CASE Usermod(k) \/ Gpasswd(k)
      <3>1. owner[Dest(k)] = User(k)
        BY <2>1, <2>5 DEF Usermod, Gpasswd, At, Walk
      <3>2. g = Dest(k)
        BY <2>1, <2>5 DEF Usermod, Gpasswd, DiskType
      <3>3. QED
        BY <3>1, <3>2
    <2>6. CASE LeaveOne(k)
      <3>1. Command(k) = "desativar"
        BY <2>1, <2>6, AtWork DEF LeaveOne, At, CommandAt
      <3>2. User(k) = u
        <4>1. PICK h \in Groups : \/ member' = [member EXCEPT ![h] = @ \ {User(k)}]
                                  \/ member' = member
          BY <2>1, <2>6, LeaveShape
        <4>2. QED
          BY <2>1, <2>2, <4>1 DEF DiskType
      <3>3. QED
        BY <3>1, <3>2
    <2>7. ASSUME Handle(k)
          PROVE  Groupadd(k) \/ Groupdel(k) \/ Usermod(k) \/ Gpasswd(k) \/ LeaveOne(k)
      BY <2>2, <2>7
      DEF Handle, Mkdir, OpenOwner, WriteOwner, Check, Opendir, Unlink,
          RemoveDirectory, Leave, LeftAll, Deliver, Reply, system
    <2>8. CASE \/ \E r \in ClientRequests : Begin(k, r)
               \/ Stop \/ UNCHANGED vars
      BY <2>2, <2>8 DEF Begin, Stop, vars, system
    <2>9. QED
      BY <1>1, <2>3, <2>4, <2>5, <2>6, <2>7, <2>8 DEF Next, Wait
  <1>2. Init => OneInv(k)
    BY OneInvInit
  <1>3. OneInv(k) /\ [Next]_vars => OneInv(k)'
    BY OneInvNext
  <1>4. OneInv(k) /\ [Next]_vars => [Allowed]_vars
    BY <1>1
  <1>5. QED
    BY <1>2, <1>3, <1>4, PTL DEF Spec, OnlyOwnerChangesMembers

==============================================================================
