CONSTANTS
    Clients = {c1, c2}
    Users = {u1}
    UserOf <- OneUser
    Projects = {p1}
    SendCap = 1
    BroadcastCap = 1
    RegisterCap = 1
    ReplayLimit = 2
    NoSince = NoSince
    SinceIds = {}
    MaxEvents = 1
    MaxMessages = 1
    MaxFailures = 0
    MaxGCs = 0
SPECIFICATION FairSpec
CHECK_DEADLOCK FALSE
PROPERTIES
    EventsAreTaken
    ClosedConnectionsEnd
