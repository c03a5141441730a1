CONSTANTS
    Reqs = {r1, r2, r3}
    NoReq = NoReq
    Issues = {i1}
    Attachments = {}
    ProjectFiles = {}
    Bodies = {b1, b2}
    NoBody = NoBody
    NoETag = NoETag
    AnyETag = AnyETag
    Sha256 <- MCSha256
    Quote <- MCQuote
    Inputs <- IssueInputs
    BroadcastCap = 1
    MaxCrashes = 0
SPECIFICATION Spec
CHECK_DEADLOCK FALSE
SYMMETRY Symmetry
INVARIANTS
    TypeOK
    NoLostUpdate
    SuccessIsCommitted
    RefusedLeavesNoTrace
    AnnouncedWasCommitted
    VersionsWereUploaded
    AuditedWasCommitted
