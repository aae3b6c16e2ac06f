CONSTANTS
    Caller = {c1, c2}
    Shared = shared
    MaxRetries = 2
    Budget = 1
    After <- MCAfter
    Video = {v1, v2}
    NoVideo = novideo
    MaxPos = 2
SPECIFICATION ClientSpec
INVARIANTS NobodyForgotten Classified PlaceKept
PROPERTIES PostsNotRepeated CallsEnd ErrorsAnswered
