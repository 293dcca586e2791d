SPECIFICATION Spec
SYMMETRY Symmetry
CONSTANTS
    None = None
    OwnerFile = OwnerFile
    Users = {alice, bob}
    Groups = {friends}
    Children = {c1, c2}
    Mail = {m1}
    MaxRequests = 5
    MaxStops = 0
INVARIANTS
    OneCreator
    CompleteGroups
PROPERTIES
    OwnerFixed
