\* Two datagrams, which share the read buffer, and a connection of two messages.
\* Six sockets would be open if all ran at once; four are allowed, so that the
\* accept and every dial can fail for want of a descriptor.
SPECIFICATION FairSpec
CONSTANTS
    UdpQueries = {q1, q2}
    TcpConns = {c1}
    MaxMsgs = 2
    MaxFds = 4
INVARIANTS
    OwnAnswers
    NoLeakedSocket
PROPERTY
    NoStall
    Served
