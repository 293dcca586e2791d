------------------------------ MODULE Concordia ------------------------------
(* The message store of Inbox and the users and groups of Accounts, on the    *)
(* same directories and system groups: while one child lists, reads, renames  *)
(* or delivers messages, another makes or removes the directory they are in   *)
(* and changes who belongs to the group.  Directories (exists), messages      *)
(* (dir) and members (member) are Inbox's; each step of a user or group       *)
(* command is the one of Accounts, with what it does to the messages added.   *)
EXTENDS Inbox

CONSTANTS OwnerFile,     \* the name "owner"
          MailOffered,   \* bound: requests for messages that are made
          GroupOffered   \* bound: requests for users and groups that are made

VARIABLES owned,    \* directories that hold a file named owner
          owner,    \* the user it names
          sysgroup, \* groups the operating system knows
          task,     \* task[c]: what child c does of a user or group command
          doomed,   \* history of Accounts: groups somebody was cleared to remove
          expelled, \* history: requests taken when members of g last left
          gone      \* history: folders that were removed at some time

ASSUME ConcordiaAssumption ==
    /\ Users \cap Groups = {}
    /\ None \notin Users \cup Groups
    /\ OwnerFile \notin FileInfo

(* All the names in a directory.                                              *)
files == [f \in Folders |->
            {x.info : x \in dir[f]} \cup (IF f \in owned THEN {OwnerFile} ELSE {})]

Acc == INSTANCE Accounts WITH Mail <- FileInfo, made <- exists, job <- task

ASSUME OfferedAssumption ==
    /\ MailOffered \subseteq ClientRequests
    /\ GroupOffered \subseteq Acc!ClientRequests
    /\ \A r \in GroupOffered : r.command # "enviar"

past == <<doomed, expelled, gone>>
accounts == <<owned, owner, sysgroup, task, past>>
cvars == <<vars, accounts>>

(* Any set of directories and groups that go together may be there.           *)
CInit ==
    /\ Init
    /\ sysgroup = exists \cap Groups
    /\ \A g \in Groups : member[g] # {} => g \in sysgroup
    /\ owned = sysgroup
    /\ owner \in [Groups -> Users \cup {None}]
    /\ \A g \in Groups : owner[g] # None <=> g \in owned
    /\ task = [c \in Children |-> Acc!IdleJob]
    /\ doomed = {}
    /\ expelled = [g \in Groups |-> 0]
    /\ gone = {}

------------------------------------------------------------------------------
(* A child that is idle in both respects takes a request of either kind.      *)

BeginMail(c, r) ==
    /\ task[c].pc = "idle"
    /\ Begin(c, r)
    /\ UNCHANGED accounts

BeginGroup(c, r) ==
    /\ job[c].pc = "idle"
    /\ UNCHANGED <<dir, now, job, history, owned, expelled, gone>>
    /\ Acc!Begin(c, r)

HandleMail(c) == Handle(c) /\ UNCHANGED accounts

(* getUserGroups: the list of group ids is read first, then the name of each. *)
(* An id whose group was removed in between leaves its place in the list      *)
(* uninitialised: the child does without the folder, or is killed by it.      *)
Unnamed(c) ==
    LET lost == (job[c].folders \cap Groups) \ sysgroup
    IN  /\ job[c].pc \in {"resolve", "count"}
        /\ lost # {}
        /\ Become(c, [job[c] EXCEPT !.folders = @ \ lost]) \/ Exit(c)
        /\ UNCHANGED <<store, dir, counters, history, accounts>>

(* What the histories keep of a step of Accounts.                             *)
Remember ==
    /\ expelled' = [g \in Groups |->
                      IF member[g] \subseteq member'[g] THEN expelled[g] ELSE served]
    /\ gone' = gone \cup (exists \ exists')

(* The steps that leave every file alone.                                     *)
Keep(c) ==
    \/ Acc!Mkdir(c) \/ Acc!Groupadd(c) \/ Acc!WriteOwner(c) \/ Acc!Usermod(c)
    \/ Acc!Check(c) \/ Acc!Gpasswd(c) \/ Acc!Opendir(c)
    \/ Acc!RemoveDirectory(c) \/ Acc!Groupdel(c)
    \/ Acc!Leave(c) \/ Acc!LeaveOne(c) \/ Acc!LeftAll(c) \/ Acc!Reply(c)

KeepFiles(c) ==
    /\ UNCHANGED <<dir, owned, now, job, history>>
    /\ Keep(c)
    /\ Remember

OpenOwner(c) ==
    /\ task[c].pc = "owner"
    /\ UNCHANGED <<dir, now, job, history>>
    /\ owned' \in {owned, owned \cup {task[c].req.dest}}
    /\ Acc!OpenOwner(c)
    /\ Remember

(* remove_directory: a name that was read when the directory was opened.      *)
UnlinkEntry(c) ==
    LET f == task[c].req.dest
    IN  /\ task[c].pc = "unlink"
        /\ \E e \in task[c].left :
              /\ dir' = [dir EXCEPT ![f] = {x \in @ : x.info # e}]
              /\ owned' = IF e = OwnerFile THEN owned \ {f} ELSE owned
        /\ UNCHANGED <<now, job, history>>
        /\ Acc!Unlink(c)
        /\ Remember

CTick == Tick /\ UNCHANGED accounts

(* "pkill -f ./daemon" kills all children.                                    *)
CStop ==
    /\ stops < MaxStops
    /\ \E c \in Children : job[c].pc # "idle" \/ task[c].pc # "idle"
    /\ stops' = stops + 1
    /\ job' = [c \in Children |-> IdleJob]
    /\ task' = [c \in Children |-> Acc!IdleJob]
    /\ UNCHANGED <<store, dir, now, served, history, owned, owner, sysgroup, past>>

CWait ==
    /\ Wait
    /\ \A c \in Children : task[c].pc = "idle"
    /\ UNCHANGED accounts

CNext ==
    \/ \E c \in Children :
          \/ \E r \in MailOffered : BeginMail(c, r)
          \/ \E r \in GroupOffered : BeginGroup(c, r)
          \/ HandleMail(c) \/ Unnamed(c)
          \/ KeepFiles(c) \/ OpenOwner(c) \/ UnlinkEntry(c)
    \/ CTick \/ CStop \/ CWait

CSpec == CInit /\ [][CNext]_cvars

------------------------------------------------------------------------------
(* The types of both: the identifier that responder or enviar goes on with is *)
(* a number even when the folder it scanned was removed under it.             *)
CTypeOK ==
    /\ TypeOK
    /\ owned \in SUBSET Groups
    /\ owner \in [Groups -> Users \cup {None}]
    /\ sysgroup \in SUBSET Groups
    /\ doomed \in SUBSET Groups
    /\ expelled \in [Groups -> Nat]
    /\ gone \in SUBSET Folders

(* A text that was written disappears only when remover deletes it, when a    *)
(* message with the same id, sender, second and length takes its name, or     *)
(* when remove_directory removes the folder and had read the name it has now. *)
LossIsKnown ==
    [][\A f \in Folders : \A x \in dir[f] : x.text # 0 =>
          \/ \E y \in dir'[f] : y.text = x.text
          \/ x.text \in removed'
          \/ \E y \in dir'[f] : SameHeader(x.info, y.info)
          \/ \E c \in Children :
                /\ task[c].pc = "unlink"
                /\ task[c].req.dest = f
                /\ x.info \in task[c].left]_cvars

(* A child may go on with a group its user has been removed from, but only if *)
(* its request was taken before: a later request never sees the group.        *)
RemovedSeesNothing ==
    \A c \in Children : \A g \in job[c].folders \cap Groups :
        \/ job[c].req.user \in member[g]
        \/ job[c].num <= expelled[g]

(* A message gets the identifier 0, which isReply uses for "no reply", only   *)
(* in a folder that was removed while its child was about to deliver.         *)
ZeroOnlyAfterRemoval ==
    \A f \in Folders \ gone : \A x \in dir[f] : x.info.id > 0
==============================================================================
