CONSTANTS
    Reqs = {r1, r2}
    Readers = {g1}
    NoReq = NoReq
    Issues = {i1}
    Attachments = {a1}
    ProjectFiles = {pj}
    Bodies = {b1, b2}
    NoBody = NoBody
    CutBody = CutBody
    NoETag = NoETag
    AnyETag = AnyETag
    Sha256 <- MCSha256
    S3ETag <- MCS3ETag
    Quote <- MCQuote
    Inputs <- RacingWrites
    BroadcastCap = 1
    MaxCrashes = 1
SPECIFICATION MCSpec
CHECK_DEADLOCK FALSE
CONSTRAINT OneFile
SYMMETRY Symmetry
INVARIANTS
    NoLostUpdate
    SuccessIsCommitted
    AnnouncedWasCommitted
    VersionsWereUploaded
    AuditedWasCommitted
    ReadsWereWritten
