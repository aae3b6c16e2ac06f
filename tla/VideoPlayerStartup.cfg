CONSTANTS
    Video = {v1, v2}
    NoVideo = novideo
    MaxPos = 2
SPECIFICATION PlayerSpec
PROPERTY StartupOnly
