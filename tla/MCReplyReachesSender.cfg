SPECIFICATION MCSpec
CONSTANTS
    alice = alice
    bob = bob
    friends = friends
    c1 = c1
    c2 = c2
    None = None
    Users = {alice, bob}
    Groups = {friends}
    Occurs <- OwnPath
    NameLen <- Len3
    NameRank <- Rank
    Children = {c1}
    Lengths = {1}
    Mids = {0, 1, 2}
    MaxRequests = 4
    MaxTime = 1
    MaxStops = 1
INVARIANT
    ReplyReachesSender
