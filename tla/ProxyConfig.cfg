\* Two setups over every file, and an edit by hand; three proxies that can be saved
\* and one for each reason a proxy is refused; ports up to 4, of which 1 is clear
\* DNS and 1 and 3 are refused on the host's loopback.
SPECIFICATION Spec
CONSTANTS
    Setups = {s1, s2}
    Loopback = "loopback"
    URLs <- MCURLs
    DefaultPorts = {2, 4}
    AllowLists <- MCAllowLists
    MaxEdits = 2
    Bits = 4
    MaxPort = 4
    privateRanges <- MCPrivateRanges
    hostLoopbackRange <- MCHostLoopback
    clearDNSPorts = {1}
    hostLoopbackBlockedPorts = {1, 3}
SYMMETRY Symmetry
VIEW View
INVARIANTS
    SavedIsStrict
    AllowListKept
    TornOnlyByWriter
    NoSilentFallback
    NoDialToOwnProxy
    AllowExact
