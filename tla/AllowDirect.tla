---------------------------- MODULE AllowDirect -----------------------------
(* The parser of one --allow value, internal/cli/allowdirect.go: which
   destinations the jail may reach directly.  Addresses have Bits bits; a value
   is a host literal and a port literal.  Parsing is what the code does, with
   network addresses, masks and last addresses; Permitted says what the values
   ought to be, with sets of addresses.  That the two agree is AllowExact of
   ProxyConfig. *)
EXTENDS Integers, FiniteSets

CONSTANTS
    Bits,               \* the width of an address
    MaxPort,            \* the largest port
    privateRanges,      \* a set of networks: RFC1918 and link-local
    hostLoopbackRange,  \* a network: 127.0.0.0/8
    clearDNSPorts,      \* refused for any private destination
    hostLoopbackBlockedPorts    \* refused on the host's loopback

Addresses == 0 .. 2^Bits - 1
Networks == [ip : Addresses, len : 0 .. Bits]
Block(len) == 2^(Bits - len)        \* addresses in a network of that prefix

(* Port literals beside the numbers: left out; empty or not a number. *)
Omitted == -1
Garbled == -2
PortLiterals == {Omitted, Garbled} \union (0 .. MaxPort + 1)

(* "name" is a hostname or a bracketed IPv6 address, neither of which parses as
   an IP or a CIDR; "v6" an unbracketed IPv6 address, colons and all. *)
HostLiterals ==
    [kind : {"name", "v6"}, ip : {0}, len : {Bits}]
      \union [kind : {"ip"}, ip : Addresses, len : {Bits}]
      \union [kind : {"cidr"}, ip : Addresses, len : 0 .. Bits]

RawAllows == [host : HostLiterals, port : PortLiterals]

ASSUME AllowAssumption ==
    /\ Bits \in Nat /\ MaxPort \in Nat \ {0}
    /\ privateRanges \subseteq Networks
    /\ hostLoopbackRange \in Networks
    /\ \A r \in privateRanges \union {hostLoopbackRange} : r.ip % Block(r.len) = 0

-----------------------------------------------------------------------------
(* splitAllowDirectPort: the port after the last colon; an unbracketed IPv6
   address counts as one without a port. *)
SplitPort(raw) == IF raw.host.kind = "v6" THEN Omitted ELSE raw.port

(* parseHostToNetwork: a bare address is a host route, a CIDR loses its host
   bits (net.ParseCIDR). *)
ToNetwork(host) ==
    [ip |-> host.ip - (host.ip % Block(host.len)), len |-> host.len]

Contains(r, a) == a - (a % Block(r.len)) = r.ip         \* net.IPNet.Contains

LastAddr(n) == n.ip + Block(n.len) - 1

RangeContainsNetwork_FirstOnly(r, n) == Contains(r, n.ip)
RangeContainsNetwork(r, n) == Contains(r, n.ip) /\ Contains(r, LastAddr(n))

WithinHostLoopback(n) == RangeContainsNetwork(hostLoopbackRange, n)
WithinPrivateRanges(n) == \E r \in privateRanges : RangeContainsNetwork(r, n)

(* parseAllowDirect: a port first, then an address, then the class of the
   destination, and each class refuses ports of its own. *)
Parses(raw) ==
    /\ SplitPort(raw) \in 1 .. MaxPort
    /\ raw.host.kind \in {"ip", "cidr"}
    /\ LET n == ToNetwork(raw.host)
       IN  IF WithinHostLoopback(n)
           THEN raw.port \notin hostLoopbackBlockedPorts
           ELSE WithinPrivateRanges(n) /\ raw.port \notin clearDNSPorts

(* The entry a value parses to. *)
Entry(raw) ==
    [network |-> ToNetwork(raw.host), port |-> raw.port,
     hostLoopback |-> WithinHostLoopback(ToNetwork(raw.host))]

-----------------------------------------------------------------------------
(* The addresses a network has, and those a literal means. *)
AddressesOf(n) == {a \in Addresses : a \div Block(n.len) = n.ip \div Block(n.len)}
Private == UNION {AddressesOf(r) : r \in privateRanges}
HostLoopback == AddressesOf(hostLoopbackRange)

(* The ranges of the code: none continues another (after 10.0.0.0/8, 172.16.0.0/12,
   192.168.0.0/16 and 169.254.0.0/16 comes a public address), and the host's
   loopback is not one of them. *)
ASSUME RangesAssumption ==
    /\ \A r \in privateRanges : LastAddr(r) + 1 \notin Private
    /\ HostLoopback \intersect Private = {}

(* What may be allowed: one port of addresses that are all private, or all on
   the host's loopback, and not a port that is refused there. *)
Permitted(raw) ==
    /\ raw.host.kind \in {"ip", "cidr"}
    /\ raw.port \in 1 .. MaxPort
    /\ \/ /\ AddressesOf(raw.host) \subseteq HostLoopback
          /\ raw.port \notin hostLoopbackBlockedPorts
       \/ /\ AddressesOf(raw.host) \subseteq Private
          /\ raw.port \notin clearDNSPorts
=============================================================================
