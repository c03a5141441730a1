CONSTANTS
    Clients = {c1}
    Users = {u1}
    UserOf <- OneUser
    Projects = {p1}
    SendCap = 1
    BroadcastCap = 1
    RegisterCap = 1
    ReplayLimit = 2
    NoSince = NoSince
    SinceIds = {0}
    MaxEvents = 2
    MaxMessages = 1
    MaxFailures = 1
    MaxGCs = 0
SPECIFICATION Spec
CHECK_DEADLOCK FALSE
INVARIANT DroppingIsHarmless
