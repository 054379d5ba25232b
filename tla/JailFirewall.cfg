\* Every proxy place, every allowlist of up to two entries, every interleaving of script and probes.
SPECIFICATION Spec
CONSTANTS
    lan1 = lan1
    lan2 = lan2
    link = link
    Loopback4 = {lo4}
    Loopback6 = {lo6}
    MapAddr = map
    Private = {lan1, lan2, link}
    Public = {pub4}
    Remote6 = {pub6}
    DropRanges <- MCDropRanges
    Nets <- MCNets
    Ports = {53, 80, 1080}
    ClearDNSPorts = {53}
    MaxAllow = 2
INVARIANT ProbeExact
INVARIANT OnlyLoopbackUDP
INVARIANT DirectOnlyNamed
INVARIANT NamedReachable
INVARIANT ProxyReachable
PROPERTY NetnsSpec
