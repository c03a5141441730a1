CONSTANTS
    Emails = {admin, e1}
    AdminEmail = admin
    Tokens = {t1, t2}
    NoToken = NoToken
    Begins = {b1, b2, b3}
    Finishes = {f1, f2}
    Migrations = 2
    MaxCrashes = 1
SPECIFICATION Spec
CHECK_DEADLOCK FALSE
SYMMETRY Symmetry
INVARIANTS
    TypeOK
    CeremonyCompletesOnce
    PasskeysWereInvited
    SessionsHavePasskeys
    BootstrapMintsOnce
    MigrationsRunOnce
