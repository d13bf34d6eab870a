SPECIFICATION Spec
CONSTANTS
    Slots = {s1}
    Conns = {c1}
    MaxSessions = 2
    Poller = poller
    Users = {user}
    HostConns = {}
    Remover = user
INVARIANT
    NoOrphanSession
