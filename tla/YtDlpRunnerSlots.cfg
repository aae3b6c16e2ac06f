CONSTANTS
    Flight = {f1, f2}
    Caller = {c1}
    Key = {}
    NoKey = nokey
    Options <- MCOptions
    Child = {h1, h2}
    Probe = probe
    Nobody = nobody
SPECIFICATION RunnerSpec
INVARIANT LiveChildrenBounded
CHECK_DEADLOCK FALSE
