CONSTANTS
    Releases = 3
    Path = {p1, p2}
    Client = {tab}
    MaxPuts = 1
SPECIFICATION ShellSpec
INVARIANT NeverMixed
