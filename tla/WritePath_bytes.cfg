CONSTANTS
    Reqs = {r1, r2}
    NoReq = NoReq
    Issues = {i1}
    Attachments = {}
    ProjectFiles = {}
    Bodies = {b1, b2}
    NoBody = NoBody
    NoETag = NoETag
    AnyETag = AnyETag
    Sha256 <- MCSha256
    Quote <- MCQuote
    Inputs <- IssueWrites
    BroadcastCap = 1
    MaxCrashes = 0
SPECIFICATION Spec
CHECK_DEADLOCK FALSE
INVARIANT RowMatchesBytes
