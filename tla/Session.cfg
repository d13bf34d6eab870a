SPECIFICATION Spec
CONSTANTS
    Slots = {s1, s2}
    Conns = {c1}
    MaxSessions = 3
    Poller = poller
    Users = {user}
    HostConns = {}
    Remover = poller
INVARIANTS
    TypeInv
    ToldWhatIsActive
    NoOrphanSession
