------------------------------ MODULE Accounts ------------------------------
(* Users and groups of the Concordia daemon.  A group is three things that no *)
(* transaction holds together: a directory, a file "owner" in it, and a group *)
(* of the operating system.  Each request is handled by a child process of    *)
(* its own, one system call or system command after the other, with the calls *)
(* of other children in between; a kill leaves whatever was done so far.      *)
EXTENDS Naturals, FiniteSets

CONSTANTS
    Users,       \* users of the system
    Groups,      \* names a group may be given
    Children,    \* the daemon's child processes that may run at one time
    Mail,        \* names of message files that may be delivered
    OwnerFile,   \* the name "owner"
    MaxRequests, \* bound: requests the daemon serves
    MaxStops,    \* bound: times the daemon and its children are killed
    None         \* no name

ASSUME AccountsAssumption ==
    /\ Users \cap Groups = {}
    /\ None \notin Users \cup Groups
    /\ OwnerFile \notin Mail
    /\ MaxRequests \in Nat
    /\ MaxStops \in Nat

Folders == Users \cup Groups
Entries == Mail \cup {OwnerFile}

Request == [command : {"criar", "remover", "adicionar", "remover-user",
                       "ativar", "desativar", "enviar"},
            user : Users, dest : Folders, other : Users \cup {None}]

(* What the clients build: group commands name a group, the two membership    *)
(* commands another user too, and ativar and desativar only the user.         *)
ClientRequests ==
    {r \in Request :
        /\ r.command \in {"ativar", "desativar"} => r.dest = r.user
        /\ r.command \notin {"ativar", "desativar", "enviar"} => r.dest \in Groups
        /\ r.other # None <=> r.command \in {"adicionar", "remover-user"}}

VARIABLES
    made,     \* directories that exist
    files,    \* files[f]: the names in directory f
    owner,    \* owner[g]: the user the owner file of g names
    sysgroup, \* groups the operating system knows
    member,   \* member[g]: their members
    served,   \* requests taken so far
    stops,    \* kills so far
    job,      \* job[c]: what child c is doing
    doomed    \* history: groups some remover was cleared to remove

disk == <<made, files, owner>>
system == <<sysgroup, member>>
counters == <<served, stops>>
vars == <<made, files, owner, sysgroup, member, served, stops, job, doomed>>

IdleJob == [pc |-> "idle", req |-> None, left |-> {}, kept |-> {}]

Init ==
    /\ made = {}
    /\ files = [f \in Folders |-> {}]
    /\ owner = [g \in Groups |-> None]
    /\ sysgroup = {}
    /\ member = [g \in Groups |-> {}]
    /\ served = 0
    /\ stops = 0
    /\ job = [c \in Children |-> IdleJob]
    /\ doomed = {}

------------------------------------------------------------------------------
Become(c, pc, left) ==
    job' = [job EXCEPT ![c].pc = pc, ![c].left = left]
Goto(c, pc) == Become(c, pc, job[c].left)
Exit(c) == job' = [job EXCEPT ![c] = IdleJob]

At(c, pc) == job[c].pc = pc
Dest(c) == job[c].req.dest
User(c) == job[c].req.user
Command(c) == job[c].req.command

FirstStep(command) ==
    CASE command \in {"criar", "ativar"} -> "mkdir"
      [] command = "enviar" -> "deliver"
      [] OTHER -> "check"

Begin(c, r) ==
    /\ At(c, "idle")
    /\ served < MaxRequests
    /\ served' = served + 1
    /\ job' = [job EXCEPT ![c] =
                 [IdleJob EXCEPT !.pc = FirstStep(r.command), !.req = r]]
    /\ UNCHANGED <<disk, system, stops, doomed>>

(* returnListToClient.  "done" stands for the confirmation, "refused" for any *)
(* of the refusals; an Exit elsewhere leaves the client without an answer.    *)
Reply(c) ==
    /\ At(c, "done") \/ At(c, "refused")
    /\ Exit(c)
    /\ UNCHANGED <<disk, system, counters, doomed>>

------------------------------------------------------------------------------
(* Making a directory: create_group and activate_user.                        *)

(* Variant: takes an existing directory for the one it was to make.           *)
MkdirParents(c) ==
    /\ At(c, "mkdir")
    /\ made' = made \cup {Dest(c)}
    /\ Goto(c, IF Command(c) = "criar" THEN "groupadd" ELSE "done")
    /\ UNCHANGED <<files, owner, system, counters, doomed>>

(* activate_user has its chown and chmod here: failing one of them, it leaves *)
(* the directory and answers nothing.                                         *)
Mkdir(c) ==
    /\ At(c, "mkdir")
    /\ IF Dest(c) \in made
       THEN Goto(c, "refused") /\ UNCHANGED disk
       ELSE /\ made' = made \cup {Dest(c)}
            /\ \/ Goto(c, IF Command(c) = "criar" THEN "groupadd" ELSE "done")
               \/ Command(c) = "ativar" /\ Exit(c)
            /\ UNCHANGED <<files, owner>>
    /\ UNCHANGED <<system, counters, doomed>>

(* rmdir(2): nothing happens to a directory that is not there or not empty.   *)
CanRmdir(f) == f \in made /\ files[f] = {}

Rmdir(f) == made' = IF CanRmdir(f) THEN made \ {f} ELSE made

(* groupadd refuses a name the system has; the new directory is given up.     *)
Groupadd(c) ==
    LET g == Dest(c)
    IN  /\ At(c, "groupadd")
        /\ IF g \in sysgroup
           THEN Rmdir(g) /\ Exit(c) /\ UNCHANGED system
           ELSE /\ sysgroup' = sysgroup \cup {g}
                /\ member' = [member EXCEPT ![g] = {}]
                /\ Goto(c, "owner")
                /\ UNCHANGED made
        /\ UNCHANGED <<files, owner, counters, doomed>>

(* getgrnam, chown and setfacl of the directory, and fopen of the owner file  *)
(* with "w".  Failing any of them, the directory is given up, the system      *)
(* group is not, and the client hears nothing.                                *)
OpenOwner(c) ==
    LET g == Dest(c)
    IN  /\ At(c, "owner")
        /\ IF g \in sysgroup /\ g \in made
           THEN /\ files' = [files EXCEPT ![g] = @ \cup {OwnerFile}]
                /\ owner' = [owner EXCEPT ![g] = None]
                /\ Goto(c, "write")
                /\ UNCHANGED made
           ELSE Rmdir(g) /\ Exit(c) /\ UNCHANGED <<files, owner>>
        /\ UNCHANGED <<system, counters, doomed>>

(* Variant: the buffer is never written.                                      *)
WriteOwnerLost(c) ==
    /\ At(c, "write")
    /\ Goto(c, "usermod")
    /\ UNCHANGED <<disk, system, counters, doomed>>

(* Variant: writes the name of the group.                                     *)
WriteOwnerGroup(c) ==
    LET g == Dest(c)
    IN  /\ At(c, "write")
        /\ owner' = IF OwnerFile \in files[g]
                    THEN [owner EXCEPT ![g] = g] ELSE owner
        /\ Goto(c, "usermod")
        /\ UNCHANGED <<made, files, system, counters, doomed>>

(* fclose writes the name that fprintf left in the buffer.                    *)
WriteOwner(c) ==
    LET g == Dest(c)
    IN  /\ At(c, "write")
        /\ owner' = IF OwnerFile \in files[g]
                    THEN [owner EXCEPT ![g] = User(c)] ELSE owner
        /\ Goto(c, "usermod")
        /\ UNCHANGED <<made, files, system, counters, doomed>>

(* usermod -aG, for the creator of a group and for adicionar.                 *)
Usermod(c) ==
    LET g == Dest(c)
        newcomer == IF Command(c) = "criar" THEN User(c) ELSE job[c].req.other
    IN  /\ At(c, "usermod")
        /\ IF g \in sysgroup
           THEN /\ member' = [member EXCEPT ![g] = @ \cup {newcomer}]
                /\ Goto(c, "done")
           ELSE Goto(c, "refused") /\ UNCHANGED member
        /\ UNCHANGED <<disk, sysgroup, counters, doomed>>

------------------------------------------------------------------------------
(* is_owner and verify_user: the answer may be stale by the time it is used.  *)

(* Variant: any owner will do.                                                *)
IsOwnerAny(g, u) == OwnerFile \in files[g] /\ owner[g] \in Users

IsOwner(g, u) == OwnerFile \in files[g] /\ owner[g] = u

(* Variant: looks who the owner is only for the two membership commands.      *)
CheckSkipped(c) ==
    /\ At(c, "check")
    /\ Goto(c, CASE Command(c) \in {"remover", "desativar"} -> "opendir"
                 [] ~ IsOwner(Dest(c), User(c)) -> "refused"
                 [] Command(c) = "adicionar" -> "usermod"
                 [] Command(c) = "remover-user" -> "gpasswd")
    /\ UNCHANGED <<disk, system, counters, doomed>>

Check(c) ==
    LET allowed == IF Command(c) = "desativar" THEN User(c) \in made
                   ELSE IsOwner(Dest(c), User(c))
    IN  /\ At(c, "check")
        /\ Goto(c, IF ~ allowed THEN "refused"
                   ELSE CASE Command(c) \in {"remover", "desativar"} -> "opendir"
                          [] Command(c) = "adicionar" -> "usermod"
                          [] Command(c) = "remover-user" -> "gpasswd")
        /\ doomed' = IF allowed /\ Command(c) = "remover"
                     THEN doomed \cup {Dest(c)} ELSE doomed
        /\ UNCHANGED <<disk, system, counters>>

(* gpasswd -d fails for somebody who is not a member, and may fail for        *)
(* others; nobody is told.                                                    *)
Gpasswd(c) ==
    LET g == Dest(c)
        leaver == job[c].req.other
    IN  /\ At(c, "gpasswd")
        /\ \/ /\ leaver \in member[g]
              /\ member' = [member EXCEPT ![g] = @ \ {leaver}]
              /\ Goto(c, "done")
           \/ Exit(c) /\ UNCHANGED member
        /\ UNCHANGED <<disk, sysgroup, counters, doomed>>

------------------------------------------------------------------------------
(* remove_directory: nftw reads the directory, removes each name it has read, *)
(* and the directory last.  It stops at the first name it cannot remove.      *)

(* Variant: leaves the owner file alone.                                      *)
OpendirMailOnly(c) ==
    /\ At(c, "opendir")
    /\ IF Dest(c) \in made
       THEN Become(c, "unlink", files[Dest(c)] \ {OwnerFile})
       ELSE Exit(c)
    /\ UNCHANGED <<disk, system, counters, doomed>>

Opendir(c) ==
    /\ At(c, "opendir")
    /\ IF Dest(c) \in made
       THEN Become(c, "unlink", files[Dest(c)])
       ELSE Exit(c)
    /\ UNCHANGED <<disk, system, counters, doomed>>

Unlink(c) ==
    LET f == Dest(c)
    IN  /\ At(c, "unlink")
        /\ \E e \in job[c].left :
              IF e \in files[f]
              THEN /\ files' = [files EXCEPT ![f] = @ \ {e}]
                   /\ owner' = IF e = OwnerFile
                               THEN [owner EXCEPT ![f] = None] ELSE owner
                   /\ Become(c, "unlink", job[c].left \ {e})
              ELSE Exit(c) /\ UNCHANGED <<files, owner>>
        /\ UNCHANGED <<made, system, counters, doomed>>

RemoveDirectory(c) ==
    LET f == Dest(c)
    IN  /\ At(c, "unlink")
        /\ job[c].left = {}
        /\ Rmdir(f)
        /\ IF ~ CanRmdir(f) THEN Exit(c)
           ELSE Goto(c, IF Command(c) = "remover" THEN "groupdel" ELSE "leave")
        /\ UNCHANGED <<files, owner, system, counters, doomed>>

(* Variant: the system group is forgotten.                                    *)
GroupdelSkipped(c) ==
    /\ At(c, "groupdel")
    /\ Goto(c, "done")
    /\ UNCHANGED <<disk, system, counters, doomed>>

(* groupdel: the last step of remove_group.                                   *)
Groupdel(c) ==
    LET g == Dest(c)
    IN  /\ At(c, "groupdel")
        /\ IF g \in sysgroup
           THEN /\ sysgroup' = sysgroup \ {g}
                /\ member' = [member EXCEPT ![g] = {}]
                /\ Goto(c, "done")
           ELSE Exit(c) /\ UNCHANGED system
        /\ UNCHANGED <<disk, counters, doomed>>

(* Variant: only the groups the user owns are left.                           *)
LeaveOwned(c) ==
    /\ At(c, "leave")
    /\ Become(c, "leaving", {g \in made \cap Groups : owner[g] = User(c)})
    /\ UNCHANGED <<disk, system, counters, doomed>>

(* The rest of deactivate_user: read the directory of groups, and leave each  *)
(* group found there that the system knows and the user belongs to.  The      *)
(* groups the user owns keep their owner.                                     *)
Leave(c) ==
    /\ At(c, "leave")
    /\ Become(c, "leaving", made \cap Groups)
    /\ UNCHANGED <<disk, system, counters, doomed>>

(* gpasswd may fail: the user stays in the group, and the loop goes on.  kept *)
(* (not in the code) holds the groups it failed for.                          *)
LeaveOne(c) ==
    /\ At(c, "leaving")
    /\ \E g \in job[c].left :
          \/ /\ member' = [member EXCEPT ![g] = @ \ {User(c)}]
             /\ job' = [job EXCEPT ![c].left = @ \ {g}]
          \/ /\ User(c) \in member[g]
             /\ job' = [job EXCEPT ![c].left = @ \ {g}, ![c].kept = @ \cup {g}]
             /\ UNCHANGED member
    /\ UNCHANGED <<disk, sysgroup, counters, doomed>>

LeftAll(c) ==
    /\ At(c, "leaving")
    /\ job[c].left = {}
    /\ Goto(c, "done")
    /\ UNCHANGED <<disk, system, counters, doomed>>

(* enviar_message, as far as directories are concerned: one new name in a     *)
(* directory that is there.                                                   *)
Deliver(c) ==
    LET f == Dest(c)
    IN  /\ At(c, "deliver")
        /\ \/ /\ f \in made
              /\ \E m \in Mail \ files[f] :
                    files' = [files EXCEPT ![f] = @ \cup {m}]
              /\ Goto(c, "done")
           \/ /\ f \notin made \/ Mail \subseteq files[f]
              /\ Exit(c)
              /\ UNCHANGED files
        /\ UNCHANGED <<made, owner, system, counters, doomed>>

------------------------------------------------------------------------------
(* "pkill -f ./daemon" kills the children too, wherever they are.             *)
Stop ==
    /\ stops < MaxStops
    /\ \E c \in Children : ~ At(c, "idle")
    /\ stops' = stops + 1
    /\ job' = [c \in Children |-> IdleJob]
    /\ UNCHANGED <<disk, system, served, doomed>>

(* The daemon waits for more requests: there is nothing left within bounds.   *)
Wait ==
    /\ served = MaxRequests
    /\ \A c \in Children : At(c, "idle")
    /\ UNCHANGED vars

Handle(c) ==
    \/ Mkdir(c) \/ Groupadd(c) \/ OpenOwner(c) \/ WriteOwner(c) \/ Usermod(c)
    \/ Check(c) \/ Gpasswd(c)
    \/ Opendir(c) \/ Unlink(c) \/ RemoveDirectory(c) \/ Groupdel(c)
    \/ Leave(c) \/ LeaveOne(c) \/ LeftAll(c) \/ Deliver(c) \/ Reply(c)

Next ==
    \/ \E c \in Children : (\E r \in ClientRequests : Begin(c, r)) \/ Handle(c)
    \/ Stop
    \/ Wait

Spec == Init /\ [][Next]_vars

(* A child that was scheduled runs on: every call it makes returns.           *)
FairSpec == Spec /\ \A c \in Children : WF_vars(Handle(c))

------------------------------------------------------------------------------
(* Properties.                                                                *)

Steps == {"idle", "mkdir", "groupadd", "owner", "write", "usermod", "check",
          "gpasswd", "opendir", "unlink", "groupdel", "leave", "leaving",
          "deliver", "done", "refused"}

(* The types, and: only directories that exist hold files, only the owner     *)
(* file names an owner, and only groups of the system have members.           *)
TypeOK ==
    /\ made \in SUBSET Folders
    /\ files \in [Folders -> SUBSET Entries]
    /\ owner \in [Groups -> Users \cup {None}]
    /\ sysgroup \in SUBSET Groups
    /\ member \in [Groups -> SUBSET Users]
    /\ served \in Nat
    /\ stops \in Nat
    /\ doomed \in SUBSET Groups
    /\ job \in [Children -> [pc : Steps, req : Request \cup {None},
                             left : SUBSET (Entries \cup Groups),
                             kept : SUBSET Groups]]
    /\ \A f \in Folders : files[f] # {} => f \in made
    /\ \A g \in Groups : owner[g] # None => OwnerFile \in files[g]
    /\ \A g \in Groups : member[g] # {} => g \in sysgroup

Creating(c) == At(c, "groupadd") \/ At(c, "owner") \/ At(c, "write")

(* mkdir is the lock of create_group: until its first removal, two children   *)
(* are never both between mkdir and the writing of the owner file of a group. *)
OneCreator ==
    \A c, d \in Children :
        (/\ Creating(c) /\ Creating(d)
         /\ Dest(c) = Dest(d) /\ Dest(c) \notin doomed) => c = d

(* Until its first removal a group that is there for the others to use is     *)
(* complete: a directory nobody is still making has its system group and an   *)
(* owner, and a system group has its directory.                               *)
CompleteGroups ==
    stops = 0 =>
        \A g \in Groups \ doomed :
            /\ g \in made =>
                 \/ g \in sysgroup /\ owner[g] \in Users
                 \/ \E c \in Children : Creating(c) /\ Dest(c) = g
            /\ g \in sysgroup => g \in made

(* Until its first removal a group is never taken over: the owner the file    *)
(* names once is the owner it names from then on.                             *)
OwnerFixed ==
    [][\A g \in Groups \ doomed :
          owner[g] \in Users => owner'[g] = owner[g]]_vars

(* While nobody kills the daemon, directory and system group of a group go    *)
(* together, except while some child is between the two.  A leftover of       *)
(* either would make the name unusable for create_group from then on.         *)
FolderAndGroupAgree ==
    stops = 0 =>
        \A g \in Groups :
            /\ g \in made \ sysgroup =>
                 \E c \in Children : At(c, "groupadd") /\ Dest(c) = g
            /\ g \in sysgroup \ made =>
                 \E c \in Children : At(c, "groupdel") /\ Dest(c) = g

(* "cria o folder para o grupo ... e coloca o seu nome no ficheiro owner para *)
(* o indentificar como criador": when no request is under way and nobody was  *)
(* killed, every group has an owner, without whom nobody can change or remove *)
(* it any more.                                                               *)
GroupHasOwner ==
    (stops = 0 /\ \A c \in Children : At(c, "idle")) =>
        \A g \in Groups \cap made : owner[g] \in Users

(* With one child at a time, only a request of the group's present owner adds *)
(* somebody to a group or removes another user from it.                       *)
OnlyOwnerChangesMembers ==
    [][\A g \in Groups : \A u \in Users :
          (g \in sysgroup' /\ (u \in member[g] <=> u \notin member'[g])) =>
              \E c \in Children :
                  \/ User(c) = owner[g]
                  \/ User(c) = u /\ Command(c) = "desativar"]_vars

(* When deactivate_user confirms, the user has no folder, and belongs to no   *)
(* group that has one but those that gpasswd failed for.                      *)
DeactivateComplete ==
    \A c \in Children :
        (At(c, "done") /\ Command(c) = "desativar") =>
            /\ User(c) \notin made
            /\ \A g \in Groups \cap made :
                  User(c) \in member[g] => g \in job[c].kept

(* An owner's request to remove a group ends with neither directory nor       *)
(* system group, if the daemon is not killed.                                 *)
RemoveCompletes ==
    \A c \in Children : \A g \in Groups :
        (/\ At(c, "check") /\ Command(c) = "remover" /\ Dest(c) = g
         /\ IsOwner(g, User(c)))
        ~> (stops > 0 \/ g \notin made \cup sysgroup)
==============================================================================
