\* One setup over every file: what the warning of setup-default promises.
SPECIFICATION Spec
CONSTANTS
    Setups = {s1}
    Loopback = "loopback"
    URLs <- MCURLs
    DefaultPorts = {2, 4}
    AllowLists <- MCAllowLists
    MaxEdits = 0
    Bits = 4
    MaxPort = 4
    privateRanges <- MCPrivateRanges
    hostLoopbackRange <- MCHostLoopback
    clearDNSPorts = {1}
    hostLoopbackBlockedPorts = {1, 3}
INVARIANT
    SavedDefaultServes
