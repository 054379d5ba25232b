---------------------------- MODULE JailFirewall ----------------------------
(***************************************************************************)
(* The firewall and the routes of a jail, rule by rule: the script baked   *)
(* into the sidecar's EXTRA_COMMANDS, the entrypoint that runs it line by  *)
(* line while netcage probes the chains, and what the chains then let out. *)
(*                                                                         *)
(* Sources: internal/jail/jail.go (firewallScript, firewallVerifyRules,    *)
(* checkRulesPresent, excludedRoutes) and run.go (verifyFirewall).         *)
(*                                                                         *)
(* The proxy is on the host's loopback or has an IPv4 address.  ParseProxy *)
(* also takes host names and IPv6 addresses (cli.go:66-72), which go into  *)
(* the excluded routes as they are, with /32 behind (jail.go:692-696,      *)
(* 775): what the entrypoint's `ip rule` makes of such a route is not in   *)
(* this repository, and these configurations are left out.                 *)
(***************************************************************************)
EXTENDS Naturals, Sequences

CONSTANTS
    Loopback4, Loopback6,   \* 127.0.0.0/8 and ::1 inside the netns
    MapAddr,                \* mappedHostLoopback, the host's loopback seen from the jail
    Private, Public,        \* the other IPv4 hosts
    Remote6,                \* IPv6 hosts
    DropRanges,             \* rfc1918DropRanges, a sequence of sets of hosts
    Nets,                   \* what a LAN --allow may name, sets of hosts
    Ports,
    ClearDNSPorts,          \* the ports no --allow may name
    MaxAllow                \* bound on the length of the allowlist

Hosts4 == Loopback4 \cup {MapAddr} \cup Private \cup Public
Hosts6 == Loopback6 \cup Remote6
Hosts  == Hosts4 \cup Hosts6

ASSUME FirewallAssumption ==
    /\ MapAddr \notin Private \cup Public \cup Loopback4
    /\ Private \cap Public = {}
    /\ Loopback4 \cap (Private \cup Public) = {}
    /\ Hosts4 \cap Hosts6 = {}
    /\ DropRanges \in Seq(SUBSET Hosts4)
    /\ UNION {DropRanges[i] : i \in DOMAIN DropRanges} = Private \cup {MapAddr}
    /\ \A i \in DOMAIN DropRanges : DropRanges[i] # {MapAddr}
    /\ DropRanges # <<>>
    /\ \A i, j \in DOMAIN DropRanges : DropRanges[i] = DropRanges[j] => i = j
    /\ Nets \subseteq SUBSET (Private \cup {MapAddr})   \* networkWithinPrivateRanges
    /\ MaxAllow \in Nat

Protos == {"tcp", "udp"}
AllowPorts == Ports \ ClearDNSPorts

Allow == [loop : {TRUE}, net : {{}}, port : AllowPorts]
             \cup [loop : {FALSE}, net : Nets, port : AllowPorts]

Allowlists == UNION {[1..k -> Allow] : k \in 0..MaxAllow}

\* What the command line lets through: a host-loopback --allow may not name the
\* port of a proxy on the host's loopback (refuseHostLoopbackProxyPort).
Accepts(c) ==
    c.proxyLoop => \A i \in DOMAIN c.allow : c.allow[i].loop => c.allow[i].port # c.proxyPort

\* The fields of a jail's configuration that the script and the routes depend on.
Config == {c \in [proxyLoop : BOOLEAN, proxyHost : Private \cup Public,
                  proxyPort : Ports, allow : Allowlists] : Accepts(c)}

-----------------------------------------------------------------------------
(***************************************************************************)
(* The script, as the sequence of its rules.                               *)
(***************************************************************************)
Rule(f, protos, dst, ports, target) ==
    [fam |-> f, protos |-> protos, dst |-> dst, ports |-> ports, target |-> target]

UdpDrop(f) == Rule(f, {"udp"}, Hosts, Ports, "DROP")

\* Query and reply: the reply goes to the tool's ephemeral port.
LoopbackAccepts_QueryOnly ==
    << Rule("v4", {"udp"}, Loopback4, Ports \cap ClearDNSPorts, "ACCEPT"),
       Rule("v6", {"udp"}, Loopback6, Ports \cap ClearDNSPorts, "ACCEPT") >>
LoopbackAccepts ==
    << Rule("v4", {"udp"}, Loopback4, Ports, "ACCEPT"),
       Rule("v6", {"udp"}, Loopback6, Ports, "ACCEPT") >>

HasHostLoopbackAllow(c) == \E i \in DOMAIN c.allow : c.allow[i].loop
HasLANAllow(c) == \E i \in DOMAIN c.allow : ~c.allow[i].loop

\* mapExists: the pasta map and everything that comes with it.
MapExists_ProxyOnly(c) == c.proxyLoop
MapExists(c) == c.proxyLoop \/ HasHostLoopbackAllow(c)

\* allowDest: a host-loopback entry is rewritten to the map address.
AllowDest(a) == IF a.loop THEN {MapAddr} ELSE a.net

ReachbackRule(c) == Rule("v4", {"tcp"}, {MapAddr}, {c.proxyPort}, "ACCEPT")
AllowRule(a) == Rule("v4", {"tcp"}, AllowDest(a), {a.port}, "ACCEPT")
MapDrop == Rule("v4", Protos, {MapAddr}, Ports, "DROP")
RangeDrop(i) == Rule("v4", Protos, DropRanges[i], Ports, "DROP")

If(b, s) == IF b THEN s ELSE <<>>

ProxyAccepts(c) == If(c.proxyLoop, << ReachbackRule(c) >>)
SplitTunnelAccepts(c) == [i \in 1..Len(c.allow) |-> AllowRule(c.allow[i])]
MapDrops(c) == If(MapExists(c), << MapDrop >>)
SplitTunnelDrops(c) ==
    If(HasLANAllow(c), [i \in 1..Len(DropRanges) |-> RangeDrop(i)])

\* firewallScript: the enabling accepts, then the broad drops.
FirewallScript_DropsShadow(c) ==
    LoopbackAccepts \o ProxyAccepts(c) \o SplitTunnelDrops(c) \o SplitTunnelAccepts(c)
        \o << UdpDrop("v4"), UdpDrop("v6") >> \o MapDrops(c)
FirewallScript(c) ==
    LoopbackAccepts \o ProxyAccepts(c) \o SplitTunnelAccepts(c)
        \o << UdpDrop("v4"), UdpDrop("v6") >> \o MapDrops(c) \o SplitTunnelDrops(c)

\* firewallVerifyRules: the rules that must be there, per family.
VerifyRules_NoMapDrop(c, f) ==
    LET ranges == {RangeDrop(i) : i \in DOMAIN DropRanges} IN
    IF f = "v6" THEN {LoopbackAccepts[2], UdpDrop("v6")}
    ELSE {LoopbackAccepts[1], UdpDrop("v4")}
         \cup (IF c.proxyLoop THEN {ReachbackRule(c), MapDrop} ELSE {})
         \cup {AllowRule(c.allow[i]) : i \in DOMAIN c.allow}
         \cup (IF HasLANAllow(c) THEN ranges ELSE {})
VerifyRules(c, f) ==
    LET ranges == {RangeDrop(i) : i \in DOMAIN DropRanges} IN
    IF f = "v6" THEN {LoopbackAccepts[2], UdpDrop("v6")}
    ELSE {LoopbackAccepts[1], UdpDrop("v4")}
         \cup (IF c.proxyLoop THEN {ReachbackRule(c)} ELSE {})
         \cup {AllowRule(c.allow[i]) : i \in DOMAIN c.allow}
         \cup (IF MapExists(c) THEN {MapDrop} ELSE {})
         \cup (IF HasLANAllow(c) THEN ranges ELSE {})

\* proxyReachbackAddr and excludedRoutes: what does not go into the TUN.
ReachbackAddr(c) == IF c.proxyLoop THEN MapAddr ELSE c.proxyHost
ExcludedRoutes_NoProxy(c) == UNION {AllowDest(c.allow[i]) : i \in DOMAIN c.allow}
ExcludedRoutes(c) ==
    {ReachbackAddr(c)} \cup UNION {AllowDest(c.allow[i]) : i \in DOMAIN c.allow}

-----------------------------------------------------------------------------
(***************************************************************************)
(* The entrypoint applies the script while verifyFirewall looks.           *)
(***************************************************************************)
VARIABLES
    cfg,        \* the configuration baked into the sidecar
    applied,    \* how many rules of the script are in the chains of the netns
    running,    \* the EXTRA_COMMANDS subshell still runs
    probe,      \* verifyFirewall: the family it reads next, or its answer
    restarted   \* history: the sidecar restarted after the IPv4 chain was read

vars == <<cfg, applied, running, probe, restarted>>

Script == FirewallScript(cfg)

TypeOK ==
    /\ cfg \in Config
    /\ applied \in 0..Len(Script)
    /\ running \in BOOLEAN
    /\ probe \in {"v4", "v6", "ok", "failed"}
    /\ restarted \in BOOLEAN

Init ==
    /\ cfg \in Config
    /\ applied = 0
    /\ running = TRUE
    /\ probe = "v4"
    /\ restarted = FALSE

\* The next line of the script; the subshell ends after the last one.
ApplyRule ==
    /\ running
    /\ applied' = applied + 1
    /\ running' = (applied' < Len(Script))
    /\ UNCHANGED <<cfg, probe, restarted>>

\* `set -e`: a rule that fails ends the subshell, and nobody looks at its exit.
RuleFails ==
    /\ running
    /\ running' = FALSE
    /\ UNCHANGED <<cfg, applied, probe, restarted>>

\* The sidecar starts again, by whatever hand: a new netns, the same script,
\* because it is baked into EXTRA_COMMANDS and not run by a podman exec.
Restart_NotBaked ==
    /\ applied' = 0
    /\ running' = FALSE
    /\ restarted' = (probe \in {"v6", "ok"})
    /\ UNCHANGED <<cfg, probe>>
Restart ==
    /\ applied' = 0
    /\ running' = TRUE
    /\ restarted' = (probe \in {"v6", "ok"})
    /\ UNCHANGED <<cfg, probe>>

\* checkRulesPresent, on what `iptables -S` prints: presence, not order.
RulesPresent(f) == \A w \in VerifyRules(cfg, f) : \E i \in 1..applied : Script[i] = w

ProbeV4 ==
    /\ probe = "v4"
    /\ probe' = IF RulesPresent("v4") THEN "v6" ELSE "failed"
    /\ UNCHANGED <<cfg, applied, running, restarted>>

ProbeV6 ==
    /\ probe = "v6"
    /\ probe' = IF RulesPresent("v6") THEN "ok" ELSE "failed"
    /\ UNCHANGED <<cfg, applied, running, restarted>>

Next == ApplyRule \/ RuleFails \/ Restart \/ ProbeV4 \/ ProbeV6

Spec == Init /\ [][Next]_vars

-----------------------------------------------------------------------------
(***************************************************************************)
(* What the chains and the routes let out.                                 *)
(***************************************************************************)
Packet == [proto : Protos, dst : Hosts, port : Ports]

FamilyOf(k) == IF k.dst \in Hosts4 THEN "v4" ELSE "v6"

Matches(i, k) ==
    LET rule == Script[i] IN
    /\ rule.fam = FamilyOf(k)
    /\ k.proto \in rule.protos
    /\ k.dst \in rule.dst
    /\ k.port \in rule.ports

\* The first rule that matches decides; the policy of OUTPUT is ACCEPT.
Accepted(k) ==
    \A i \in 1..applied :
        Matches(i, k) /\ (\A j \in 1..(i - 1) : ~Matches(j, k)) => Script[i].target = "ACCEPT"

\* It leaves through the real interface, not through the TUN and the proxy.
Direct(k) == k.dst \in ExcludedRoutes(cfg)

\* Some --allow entry names the destination and the port.
Named(k) == \E i \in DOMAIN cfg.allow : k.dst \in AllowDest(cfg.allow[i]) /\ k.port = cfg.allow[i].port

\* The chains that verifyFirewall passed are the ones of this netns.
Trusted == probe = "ok" /\ ~restarted

ChainComplete(f) == \A i \in 1..Len(Script) : Script[i].fam = f => i <= applied

-----------------------------------------------------------------------------
(***************************************************************************)
(* Properties.                                                             *)
(***************************************************************************)

\* verifyFirewall looks for the presence of rules only; still a probe passes
\* exactly when the whole chain has been applied, for every allowlist, whatever
\* rules it repeats, and however far the script has got.  This is what makes
\* "family complete" in JailLifecycle the right abstraction.
ProbeExact == \A f \in {"v4", "v6"} : RulesPresent(f) <=> ChainComplete(f)

\* In a verified netns UDP reaches the netns' own loopback, with any port, and
\* nothing else, in both families (ADR-0003).
OnlyLoopbackUDP ==
    Trusted => \A k \in Packet : k.proto = "udp" =>
                   (Accepted(k) <=> k.dst \in Loopback4 \cup Loopback6)

\* In a verified netns what leaves around the proxy is TCP to a destination and
\* port that an --allow names, or to the proxy: on the host's loopback to its
\* port only, on another host to that host.
DirectOnlyNamed ==
    Trusted => \A k \in Packet : Direct(k) /\ Accepted(k) =>
        /\ k.proto = "tcp"
        /\ \/ Named(k)
           \/ IF cfg.proxyLoop THEN k.dst = MapAddr /\ k.port = cfg.proxyPort
              ELSE k.dst = cfg.proxyHost

\* What an --allow names is reachable, and around the proxy: no broad drop
\* shadows it, whatever else is on the allowlist.
NamedReachable ==
    Trusted => \A k \in Packet : k.proto = "tcp" /\ Named(k) => Accepted(k) /\ Direct(k)

\* The chains of the netns, as JailLifecycle sees them.
Netns == INSTANCE NetnsFirewall
    WITH complete <- {f \in {"v4", "v6"} : ChainComplete(f)}, applying <- running

\* The script implements the abstract firewall of a netns.
NetnsSpec == Netns!Spec

ProxyDial == [proto |-> "tcp", dst |-> ReachbackAddr(cfg), port |-> cfg.proxyPort]

\* The sidecar's own dial to the proxy is let out, with one exception: a proxy at a
\* private address with a LAN --allow, whose range drops catch it.  jail.go:446-447
\* says of every proxy that the enabling accepts precede these drops.
ProxyReachable ==
    Trusted /\ (cfg.proxyLoop \/ ~HasLANAllow(cfg) \/ cfg.proxyHost \in Public)
        => Accepted(ProxyDial) /\ Direct(ProxyDial)
=============================================================================
