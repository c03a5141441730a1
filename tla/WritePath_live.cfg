CONSTANTS
    Reqs = {r1, r2}
    NoReq = NoReq
    Issues = {i1}
    Attachments = {a1}
    ProjectFiles = {pj}
    Bodies = {b1, b2}
    NoBody = NoBody
    NoETag = NoETag
    AnyETag = AnyETag
    Sha256 <- MCSha256
    Quote <- MCQuote
    Inputs <- MixedWrites
    BroadcastCap = 1
    MaxCrashes = 1
SPECIFICATION LiveSpec
CHECK_DEADLOCK FALSE
PROPERTIES
    EveryRequestEnds
    CommitsAreAnnounced
    ImplementsRegister
INVARIANTS
    RefusedLeavesNoTrace
