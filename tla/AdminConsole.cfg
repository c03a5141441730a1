CONSTANTS
    Reqs = {q1, q2, q3, q4}
    Fourth = q4
    WebSessions = {w1}
    NativeSessions = {n1}
    MaxTokens = 3
    Users = {u1}
    Projects = {p1}
    Ops <- MCOps
    NoUser = NoUser
    NoProject = NoProject
    NoSession = NoSession
    PageSize = 2
    FirstRows = 3
    MaxRows = 5
SPECIFICATION TopicSpec
CHECK_DEADLOCK FALSE
SYMMETRY Symmetry
INVARIANTS
    TypeOK
    RevokedIsFinal
    AccessWasHeld
    RemovedAreTold
    WalkSkipsNothing
    WalkIsComplete
PROPERTY SpentIsFinal
