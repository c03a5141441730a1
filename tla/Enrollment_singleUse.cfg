CONSTANTS
    Emails = {admin, e1}
    AdminEmail = admin
    Tokens = {t1, t2}
    NoToken = NoToken
    Begins = {b1, b2}
    Finishes = {f1}
    Migrations = 2
    MaxCrashes = 0
SPECIFICATION Spec
CHECK_DEADLOCK FALSE
INVARIANT InviteIsSingleUse
