CONSTANTS
    Sid = {s1, s2}
    Caller = {c1}
    Boot = boot
    MaxSessions = 1
    Lifetime = 2
    MaxNow = 3
    MaxEpoch = 2
SPECIFICATION AuthSpec
INVARIANT LogoutIsFinal
