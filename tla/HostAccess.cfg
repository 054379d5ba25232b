\* Two forwards that contend for the host port with two connections, or a listing
\* over three sockets, while the sidecar may stop and start twice.
SPECIFICATION Spec
CONSTANTS
    Fwds = {f1, f2}
    Conns = {c1, c2}
    Socks <- MCSocks
    MaxRestarts = 2
CONSTRAINT OneVerb
INVARIANTS
    NoResidue
    ListingSound
    ListingComplete
PROPERTY
    InterruptUnbinds
