SPECIFICATION MCSpec
CONSTANTS
    alice = alice
    bob = bob
    friends = friends
    c1 = c1
    c2 = c2
    None = None
    Users = {alice, bob}
    Groups = {friends}
    Occurs <- OwnPath
    NameLen <- Len3
    NameRank <- Rank
    Children = {c1, c2}
    Lengths = {1}
    Mids = {1}
    MaxRequests = 3
    MaxTime = 0
    MaxStops = 0
INVARIANT
    ConfirmedIsGone
