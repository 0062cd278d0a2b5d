SPECIFICATION ConnectionsSpec
CONSTANTS
    Peers = {p1, p2, p3}
    Names = {n1, n2}
    Passwords = {w1, w2}
    PeerObjects = {p1, p2, p3}
    Ids = {n1, n2}
    Addresses = {w1, w2}
    None = None
    MaxUsers = 2
    MaxPlayers = 4
    MaxEvents = 1
SYMMETRY Symmetry
INVARIANTS
    ConnectionsTypeOK
    PlayersAreClients
    UserLimitHeld
    NothingUnexpected
    RegisteredOnce
    OnePlayerUnlessHasty
    PeersOutliveTheirUse
    SessionsFollowPeers
