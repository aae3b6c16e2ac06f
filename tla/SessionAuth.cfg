CONSTANTS
    Sid = {s1, s2}
    Caller = {c1, c2}
    Boot = boot
    MaxSessions = 1
    Lifetime = 2
    MaxNow = 3
    MaxEpoch = 2
SPECIFICATION AuthSpec
INVARIANTS GrantedDurable RevokedGone MemoryMatchesDisk CookieSurvives
PROPERTY CallsSettle
