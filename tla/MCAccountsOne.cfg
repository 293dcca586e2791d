SPECIFICATION FairSpec
CONSTANTS
    None = None
    OwnerFile = OwnerFile
    Users = {alice, bob}
    Groups = {friends}
    Children = {c1}
    Mail = {m1}
    MaxRequests = 5
    MaxStops = 1
INVARIANTS
    TypeOK
    DeactivateComplete
    GroupHasOwner
    FolderAndGroupAgree
PROPERTIES
    OnlyOwnerChangesMembers
    RemoveCompletes
