CONSTANTS
    u1 = u1
    u2 = u2
    u3 = u3
    e1 = e1
    t1 = t1
    Free = Free
    Reserved = Reserved
    NoUser = NoUser
    Users = {u1, u2, u3}
    Endpoints = {e1}
    Owner <- MCOwner1
    UDPThreads = {t1}
    MaxID = 3
SPECIFICATION Spec
INVARIANT
    MaxUserCount
