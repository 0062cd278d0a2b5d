SPECIFICATION Spec
CONSTANTS
    Peers = {p1, p2, p3}
    Names = {n1}
    Passwords = {w1}
    None = None
    MaxUsers = 3
    MaxPlayers = 4
CHECK_DEADLOCK FALSE
INVARIANTS
    OnePlayerPerName
