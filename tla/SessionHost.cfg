SPECIFICATION Spec
CONSTANTS
    Slots = {s1}
    Conns = {c1, c2}
    MaxSessions = 2
    Poller = poller
    Users = {user1, user2}
    HostConns <- AllConns
    Remover = poller
INVARIANTS
    ActiveIsTold
