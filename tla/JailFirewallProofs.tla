-------------------------- MODULE JailFirewallProofs --------------------------
(***************************************************************************)
(* The firewall of a jail, for any hosts, ports, private ranges and         *)
(* allowlists: a probe for the presence of rules is a probe for the whole   *)
(* chain, a verified netns lets out what it should and nothing else, and    *)
(* the script implements the chains that JailLifecycle takes for granted.   *)
(***************************************************************************)
EXTENDS JailFirewall, SequenceTheorems, WellFoundedInduction, TLAPS

(***************************************************************************)
(* The script as a function of the position.                               *)
(***************************************************************************)
Reachbacks(c) == IF c.proxyLoop THEN 1 ELSE 0
Accepts4(c) == 2 + Reachbacks(c) + Len(c.allow)     \* the accepts end here
MapDropped(c) == IF MapExists(c) THEN 1 ELSE 0
RangesDropped(c) == IF HasLANAllow(c) THEN Len(DropRanges) ELSE 0
Total(c) == Accepts4(c) + 2 + MapDropped(c) + RangesDropped(c)

AnyRule == [fam : {"v4", "v6"}, protos : SUBSET Protos, dst : SUBSET Hosts,
            ports : SUBSET Ports, target : {"ACCEPT", "DROP"}]

\* An allowlist is a sequence of entries.
LEMMA AllowTyped ==
    ASSUME NEW c \in Config
    PROVE  /\ c.allow \in Seq(Allow) /\ Len(c.allow) \in Nat
           /\ DOMAIN c.allow = 1 .. Len(c.allow)
           /\ \A i \in DOMAIN c.allow : c.allow[i] \in Allow
           /\ c.proxyLoop \in BOOLEAN
           /\ c.proxyHost \in Private \cup Public
           /\ c.proxyPort \in Ports
<1>1. c.allow \in Allowlists
  BY DEF Config
<1>2. PICK k \in 0 .. MaxAllow : c.allow \in [1 .. k -> Allow]
  BY <1>1 DEF Allowlists
<1>3. k \in Nat /\ c.allow \in Seq(Allow)
  BY <1>2, FirewallAssumption DEF FirewallAssumption
<1> QED BY <1>3, LenProperties DEF Config

\* What an entry lets through is IPv4, private or the map.
LEMMA DestTyped ==
    ASSUME NEW a \in Allow
    PROVE  /\ AllowDest(a) \subseteq Private \cup {MapAddr} /\ a.port \in Ports
           /\ a.loop \in BOOLEAN /\ (a.loop => AllowDest(a) = {MapAddr})
BY FirewallAssumption DEF Allow, AllowDest, AllowPorts, FirewallAssumption

LEMMA RulesTyped ==
    ASSUME NEW c \in Config
    PROVE  /\ LoopbackAccepts \in Seq(AnyRule) /\ Len(LoopbackAccepts) = 2
           /\ ReachbackRule(c) \in AnyRule /\ MapDrop \in AnyRule
           /\ \A f \in {"v4", "v6"} : UdpDrop(f) \in AnyRule
           /\ \A i \in DOMAIN c.allow : AllowRule(c.allow[i]) \in AnyRule
           /\ \A i \in DOMAIN DropRanges : RangeDrop(i) \in AnyRule
<1>1. /\ Rule("v4", {"udp"}, Loopback4, Ports, "ACCEPT") \in AnyRule
      /\ Rule("v6", {"udp"}, Loopback6, Ports, "ACCEPT") \in AnyRule
  BY DEF AnyRule, Rule, Protos, Hosts, Hosts4, Hosts6
<1>2. ReachbackRule(c) \in AnyRule /\ MapDrop \in AnyRule
  BY AllowTyped DEF ReachbackRule, MapDrop, AnyRule, Rule, Protos, Hosts, Hosts4, Hosts6
<1>3. \A f \in {"v4", "v6"} : UdpDrop(f) \in AnyRule
  BY DEF UdpDrop, AnyRule, Rule, Protos
<1>4. ASSUME NEW i \in DOMAIN c.allow PROVE AllowRule(c.allow[i]) \in AnyRule
  BY AllowTyped, DestTyped DEF AllowRule, AnyRule, Rule, Protos, Hosts, Hosts4
<1>5. ASSUME NEW i \in DOMAIN DropRanges PROVE RangeDrop(i) \in AnyRule
  <2>1. DropRanges[i] \subseteq Hosts
    BY FirewallAssumption DEF FirewallAssumption, Hosts
  <2> QED BY <2>1 DEF RangeDrop, AnyRule, Rule, Protos
<1> QED BY <1>1, <1>2, <1>3, <1>4, <1>5 DEF LoopbackAccepts

\* The pieces of the script and how long they are.
LEMMA PiecesTyped ==
    ASSUME NEW c \in Config
    PROVE  /\ ProxyAccepts(c) \in Seq(AnyRule) /\ Len(ProxyAccepts(c)) = Reachbacks(c)
           /\ SplitTunnelAccepts(c) \in Seq(AnyRule)
           /\ Len(SplitTunnelAccepts(c)) = Len(c.allow)
           /\ << UdpDrop("v4"), UdpDrop("v6") >> \in Seq(AnyRule)
           /\ Len(<< UdpDrop("v4"), UdpDrop("v6") >>) = 2
           /\ MapDrops(c) \in Seq(AnyRule) /\ Len(MapDrops(c)) = MapDropped(c)
           /\ SplitTunnelDrops(c) \in Seq(AnyRule)
           /\ Len(SplitTunnelDrops(c)) = RangesDropped(c)
<1>1. /\ ProxyAccepts(c) \in Seq(AnyRule) /\ Len(ProxyAccepts(c)) = Reachbacks(c)
  BY RulesTyped DEF ProxyAccepts, If, Reachbacks
<1>2. /\ SplitTunnelAccepts(c) \in Seq(AnyRule)
      /\ Len(SplitTunnelAccepts(c)) = Len(c.allow)
  BY AllowTyped, RulesTyped DEF SplitTunnelAccepts
<1>3. /\ << UdpDrop("v4"), UdpDrop("v6") >> \in Seq(AnyRule)
      /\ Len(<< UdpDrop("v4"), UdpDrop("v6") >>) = 2
  BY RulesTyped
<1>4. MapDrops(c) \in Seq(AnyRule) /\ Len(MapDrops(c)) = MapDropped(c)
  BY RulesTyped DEF MapDrops, If, MapDropped
<1>5. /\ SplitTunnelDrops(c) \in Seq(AnyRule)
      /\ Len(SplitTunnelDrops(c)) = RangesDropped(c)
  <2>1. Len(DropRanges) \in Nat /\ DOMAIN DropRanges = 1 .. Len(DropRanges)
    BY FirewallAssumption DEF FirewallAssumption
  <2> QED BY <2>1, RulesTyped DEF SplitTunnelDrops, If, RangesDropped
<1> QED BY <1>1, <1>2, <1>3, <1>4, <1>5

\* The parts of a concatenation, each at its offset.
LEMMA Concat2 ==
    ASSUME NEW a \in Seq(AnyRule), NEW b \in Seq(AnyRule)
    PROVE  /\ a \o b \in Seq(AnyRule) /\ Len(a \o b) = Len(a) + Len(b)
           /\ \A i \in 1 .. Len(a) : (a \o b)[i] = a[i]
           /\ \A i \in 1 .. Len(b) : (a \o b)[Len(a) + i] = b[i]
<1>1. Len(a) \in Nat /\ Len(b) \in Nat
  BY LenProperties
<1>2. /\ a \o b \in Seq(AnyRule) /\ Len(a \o b) = Len(a) + Len(b)
      /\ \A i \in 1 .. Len(a) + Len(b) :
            (a \o b)[i] = IF i <= Len(a) THEN a[i] ELSE b[i - Len(a)]
  BY ConcatProperties, Zenon
<1> QED BY <1>1, <1>2

LEMMA Concat3 ==
    ASSUME NEW a \in Seq(AnyRule), NEW b \in Seq(AnyRule), NEW c \in Seq(AnyRule)
    PROVE  /\ a \o b \o c \in Seq(AnyRule) /\ Len(a \o b \o c) = Len(a) + Len(b) + Len(c)
           /\ \A i \in 1 .. Len(a) : (a \o b \o c)[i] = a[i]
           /\ \A i \in 1 .. Len(b) : (a \o b \o c)[Len(a) + i] = b[i]
           /\ \A i \in 1 .. Len(c) : (a \o b \o c)[Len(a) + Len(b) + i] = c[i]
<1> DEFINE t == a \o b
           s == t \o c
<1>1. /\ t \in Seq(AnyRule) /\ Len(t) = Len(a) + Len(b)
      /\ \A i \in 1 .. Len(a) : t[i] = a[i]
      /\ \A i \in 1 .. Len(b) : t[Len(a) + i] = b[i]
  BY Concat2
<1>0. \A u \in Seq(AnyRule) :
          /\ u \o c \in Seq(AnyRule) /\ Len(u \o c) = Len(u) + Len(c)
          /\ \A i \in 1 .. Len(u) : (u \o c)[i] = u[i]
          /\ \A i \in 1 .. Len(c) : (u \o c)[Len(u) + i] = c[i]
  BY Concat2
<1> HIDE DEF t
<1>2. /\ s \in Seq(AnyRule) /\ Len(s) = Len(t) + Len(c)
      /\ \A i \in 1 .. Len(t) : s[i] = t[i]
      /\ \A i \in 1 .. Len(c) : s[Len(t) + i] = c[i]
  BY <1>0, <1>1, Zenon
<1> HIDE DEF s
<1>3. Len(a) \in Nat /\ Len(b) \in Nat /\ Len(c) \in Nat
  BY LenProperties
<1>4. \A i \in 1 .. Len(a) : s[i] = a[i]
  BY <1>1, <1>2, <1>3
<1>5. \A i \in 1 .. Len(b) : s[Len(a) + i] = b[i]
  BY <1>1, <1>2, <1>3
<1>6. \A i \in 1 .. Len(c) : s[Len(a) + Len(b) + i] = c[i]
  BY <1>1, <1>2, <1>3
<1>7. Len(s) = Len(a) + Len(b) + Len(c)
  BY <1>1, <1>2
<1> QED BY <1>2, <1>4, <1>5, <1>6, <1>7, Zenon DEF s, t

\* Where the rules stand.
LEMMA ScriptShape ==
    ASSUME NEW c \in Config
    PROVE  /\ FirewallScript(c) \in Seq(AnyRule) /\ Len(FirewallScript(c)) = Total(c)
           /\ FirewallScript(c)[1] = LoopbackAccepts[1]
           /\ FirewallScript(c)[2] = LoopbackAccepts[2]
           /\ c.proxyLoop => FirewallScript(c)[3] = ReachbackRule(c)
           /\ \A j \in 1 .. Len(c.allow) :
                FirewallScript(c)[2 + Reachbacks(c) + j] = AllowRule(c.allow[j])
           /\ FirewallScript(c)[Accepts4(c) + 1] = UdpDrop("v4")
           /\ FirewallScript(c)[Accepts4(c) + 2] = UdpDrop("v6")
           /\ MapExists(c) => FirewallScript(c)[Accepts4(c) + 3] = MapDrop
           /\ \A j \in 1 .. RangesDropped(c) :
                FirewallScript(c)[Accepts4(c) + 2 + MapDropped(c) + j] = RangeDrop(j)
<1> DEFINE udp == << UdpDrop("v4"), UdpDrop("v6") >>
           s1 == LoopbackAccepts \o ProxyAccepts(c) \o SplitTunnelAccepts(c)
           s2 == s1 \o udp \o MapDrops(c)
           s3 == s2 \o SplitTunnelDrops(c)
           r == Reachbacks(c)
           n == Len(c.allow)
           m == MapDropped(c)
           d == RangesDropped(c)
<1>1. r \in {0, 1} /\ n \in Nat /\ m \in {0, 1} /\ d \in Nat
  BY AllowTyped, PiecesTyped, FirewallAssumption
     DEF Reachbacks, MapDropped, RangesDropped, FirewallAssumption
<1>2. /\ s1 \in Seq(AnyRule)
      /\ Len(s1) = Len(LoopbackAccepts) + Len(ProxyAccepts(c)) + Len(SplitTunnelAccepts(c))
      /\ \A i \in 1 .. Len(LoopbackAccepts) : s1[i] = LoopbackAccepts[i]
      /\ \A i \in 1 .. Len(ProxyAccepts(c)) :
            s1[Len(LoopbackAccepts) + i] = ProxyAccepts(c)[i]
      /\ \A i \in 1 .. Len(SplitTunnelAccepts(c)) :
            s1[Len(LoopbackAccepts) + Len(ProxyAccepts(c)) + i] = SplitTunnelAccepts(c)[i]
  BY RulesTyped, PiecesTyped, Concat3, SMTT(30)
<1>3. /\ Len(LoopbackAccepts) = 2 /\ Len(ProxyAccepts(c)) = r
      /\ Len(SplitTunnelAccepts(c)) = n /\ Len(MapDrops(c)) = m
      /\ Len(SplitTunnelDrops(c)) = d /\ Len(udp) = 2
  BY RulesTyped, PiecesTyped, Zenon
<1> HIDE DEF s1, udp
<1> HIDE DEF s2, s3
<1>4. /\ s2 \in Seq(AnyRule) /\ Len(s2) = Len(s1) + Len(udp) + Len(MapDrops(c))
      /\ \A i \in 1 .. Len(s1) : s2[i] = s1[i]
      /\ \A i \in 1 .. Len(udp) : s2[Len(s1) + i] = udp[i]
      /\ \A i \in 1 .. Len(MapDrops(c)) : s2[Len(s1) + Len(udp) + i] = MapDrops(c)[i]
  <2>1. s1 \in Seq(AnyRule) /\ udp \in Seq(AnyRule) /\ MapDrops(c) \in Seq(AnyRule)
    BY <1>2, PiecesTyped DEF udp
  <2>2. \A u, v, w \in Seq(AnyRule) :
            /\ u \o v \o w \in Seq(AnyRule) /\ Len(u \o v \o w) = Len(u) + Len(v) + Len(w)
            /\ \A i \in 1 .. Len(u) : (u \o v \o w)[i] = u[i]
            /\ \A i \in 1 .. Len(v) : (u \o v \o w)[Len(u) + i] = v[i]
            /\ \A i \in 1 .. Len(w) : (u \o v \o w)[Len(u) + Len(v) + i] = w[i]
    BY Concat3, Zenon
  <2> QED BY <2>1, <2>2, ZenonT(30) DEF s2
<1>5. /\ s3 \in Seq(AnyRule) /\ Len(s3) = Len(s2) + Len(SplitTunnelDrops(c))
      /\ \A i \in 1 .. Len(s2) : s3[i] = s2[i]
      /\ \A i \in 1 .. Len(SplitTunnelDrops(c)) :
            s3[Len(s2) + i] = SplitTunnelDrops(c)[i]
  <2>1. \A u, v \in Seq(AnyRule) :
            /\ u \o v \in Seq(AnyRule) /\ Len(u \o v) = Len(u) + Len(v)
            /\ \A i \in 1 .. Len(u) : (u \o v)[i] = u[i]
            /\ \A i \in 1 .. Len(v) : (u \o v)[Len(u) + i] = v[i]
    BY Concat2
  <2> QED BY <1>4, <2>1, PiecesTyped, Zenon DEF s3
<1>6. /\ FirewallScript(c) = s3 /\ Accepts4(c) = 2 + r + n
      /\ Total(c) = 2 + r + n + 2 + m + d
  BY DEF FirewallScript, Accepts4, Total, s3, s2, s1, udp
<1>7. udp[1] = UdpDrop("v4") /\ udp[2] = UdpDrop("v6")
  BY DEF udp
<1>8. /\ c.proxyLoop => r = 1 /\ ProxyAccepts(c)[1] = ReachbackRule(c)
      /\ MapExists(c) => m = 1 /\ MapDrops(c)[1] = MapDrop
  BY DEF Reachbacks, ProxyAccepts, If, MapDropped, MapDrops
<1>9. \A j \in 1 .. n : SplitTunnelAccepts(c)[j] = AllowRule(c.allow[j])
  BY DEF SplitTunnelAccepts
<1>10. \A j \in 1 .. d : SplitTunnelDrops(c)[j] = RangeDrop(j)
  BY DEF RangesDropped, SplitTunnelDrops, If
<1> HIDE DEF r, n, m, d
<1>11. /\ Len(s1) = 2 + r + n /\ Len(s2) = 2 + r + n + 2 + m
       /\ Len(s3) = 2 + r + n + 2 + m + d
  BY <1>2, <1>3, <1>4, <1>5
<1>12. /\ \A i \in 1 .. 2 + r + n : s3[i] = s1[i]
       /\ \A i \in 1 .. 2 + r + n + 2 + m : s3[i] = s2[i]
  BY <1>1, <1>4, <1>5, <1>11
<1>13. /\ \A i \in 1 .. 2 : s1[i] = LoopbackAccepts[i]
       /\ \A i \in 1 .. r : s1[2 + i] = ProxyAccepts(c)[i]
       /\ \A i \in 1 .. n : s1[2 + r + i] = SplitTunnelAccepts(c)[i]
       /\ \A i \in 1 .. 2 : s2[2 + r + n + i] = udp[i]
       /\ \A i \in 1 .. m : s2[2 + r + n + 2 + i] = MapDrops(c)[i]
       /\ \A i \in 1 .. d : s3[2 + r + n + 2 + m + i] = SplitTunnelDrops(c)[i]
  BY <1>2, <1>3, <1>4, <1>5, <1>11, ZenonT(60)
<1>14. s3[1] = LoopbackAccepts[1] /\ s3[2] = LoopbackAccepts[2]
  BY <1>1, <1>12, <1>13
<1>15. ASSUME c.proxyLoop PROVE s3[3] = ReachbackRule(c)
  <2>1. r = 1 /\ ProxyAccepts(c)[1] = ReachbackRule(c)
    BY <1>8, <1>15
  <2>2. s1[2 + 1] = ProxyAccepts(c)[1] /\ s3[3] = s1[3]
    BY <1>1, <1>12, <1>13, <2>1
  <2> QED BY <2>1, <2>2
<1>16. ASSUME NEW j \in 1 .. n PROVE s3[2 + r + j] = AllowRule(c.allow[j])
  <2>1. 2 + r + j \in 1 .. 2 + r + n
    BY <1>1
  <2> QED BY <1>9, <1>12, <1>13, <2>1
<1>17. s3[2 + r + n + 1] = UdpDrop("v4") /\ s3[2 + r + n + 2] = UdpDrop("v6")
  <2>1. 2 + r + n + 1 \in 1 .. 2 + r + n + 2 + m /\ 2 + r + n + 2 \in 1 .. 2 + r + n + 2 + m
    BY <1>1
  <2>2. s2[2 + r + n + 1] = udp[1] /\ s2[2 + r + n + 2] = udp[2]
    BY <1>13
  <2> QED BY <1>7, <1>12, <2>1, <2>2
<1>18. ASSUME MapExists(c) PROVE s3[2 + r + n + 3] = MapDrop
  <2>1. m = 1 /\ MapDrops(c)[1] = MapDrop
    BY <1>8, <1>18
  <2>2. 2 + r + n + 3 \in 1 .. 2 + r + n + 2 + m
    BY <1>1, <2>1
  <2>3. s2[2 + r + n + 2 + 1] = MapDrops(c)[1]
    BY <1>13, <2>1
  <2>4. 2 + r + n + 2 + 1 = 2 + r + n + 3
    BY <1>1
  <2> QED BY <1>12, <2>1, <2>2, <2>3, <2>4
<1>19. ASSUME NEW j \in 1 .. d PROVE s3[2 + r + n + 2 + m + j] = RangeDrop(j)
  BY <1>10, <1>13
<1> QED
  BY <1>5, <1>6, <1>14, <1>15, <1>16, <1>17, <1>18, <1>19, <1>11, Zenon DEF r, n, m, d

\* How long the parts are.
LEMMA Lengths ==
    ASSUME NEW c \in Config
    PROVE  /\ Len(c.allow) \in Nat /\ Reachbacks(c) \in {0, 1} /\ MapDropped(c) \in {0, 1}
           /\ Accepts4(c) = 2 + Reachbacks(c) + Len(c.allow)
           /\ RangesDropped(c) = (IF HasLANAllow(c) THEN Len(DropRanges) ELSE 0)
           /\ Len(DropRanges) \in Nat \ {0} /\ DOMAIN DropRanges = 1 .. Len(DropRanges)
           /\ RangesDropped(c) \in Nat /\ Accepts4(c) \in Nat
           /\ Total(c) = Accepts4(c) + 2 + MapDropped(c) + RangesDropped(c)
<1>1. Len(DropRanges) \in Nat \ {0} /\ DOMAIN DropRanges = 1 .. Len(DropRanges)
  <2>1. DropRanges \in Seq(SUBSET Hosts4) /\ DropRanges # << >>
    BY FirewallAssumption DEF FirewallAssumption
  <2>2. Len(DropRanges) \in Nat \ {0}
    BY <2>1, EmptySeq, Zenon
  <2>3. DOMAIN DropRanges = 1 .. Len(DropRanges)
    BY <2>1, LenProperties, Zenon
  <2> QED BY <2>2, <2>3, Zenon
<1>2. Len(c.allow) \in Nat
  BY AllowTyped
<1>3. Reachbacks(c) \in {0, 1} /\ MapDropped(c) \in {0, 1}
  BY DEF Reachbacks, MapDropped
<1>4. RangesDropped(c) = (IF HasLANAllow(c) THEN Len(DropRanges) ELSE 0)
  BY Zenon DEF RangesDropped
<1>5. RangesDropped(c) \in Nat
  BY <1>1, <1>4
<1>6. /\ Accepts4(c) = 2 + Reachbacks(c) + Len(c.allow) /\ Accepts4(c) \in Nat
      /\ Total(c) = Accepts4(c) + 2 + MapDropped(c) + RangesDropped(c)
  BY <1>2, <1>3 DEF Accepts4, Total
<1> QED BY <1>1, <1>2, <1>3, <1>4, <1>5, <1>6, Zenon

\* Every position holds one of the rules, and there are no others.
LEMMA Positions ==
    ASSUME NEW c \in Config, NEW i \in 1 .. Total(c)
    PROVE  \/ i = 1 \/ i = 2
           \/ i = 3 /\ c.proxyLoop
           \/ \E j \in 1 .. Len(c.allow) : i = 2 + Reachbacks(c) + j
           \/ i = Accepts4(c) + 1 \/ i = Accepts4(c) + 2
           \/ i = Accepts4(c) + 3 /\ MapExists(c)
           \/ \E j \in 1 .. RangesDropped(c) : i = Accepts4(c) + 2 + MapDropped(c) + j
<1> DEFINE r == Reachbacks(c)
           n == Len(c.allow)
           a == Accepts4(c)
           m == MapDropped(c)
           d == RangesDropped(c)
<1>1. /\ n \in Nat /\ r \in {0, 1} /\ m \in {0, 1} /\ d \in Nat /\ a = 2 + r + n
      /\ Total(c) = a + 2 + m + d
  BY Lengths
<1>2. (r = 1 => c.proxyLoop) /\ (m = 1 => MapExists(c))
  BY DEF Reachbacks, MapDropped
<1> HIDE DEF r, n, a, m, d
<1>3. CASE i <= 2 + r
  BY <1>1, <1>2, <1>3
<1>4. CASE i > 2 + r /\ i <= a
  <2>1. i - 2 - r \in 1 .. n /\ i = 2 + r + (i - 2 - r)
    BY <1>1, <1>4
  <2> QED BY <2>1 DEF r, n
<1>5. CASE i > a /\ i <= a + 2 + m
  BY <1>1, <1>2, <1>5 DEF a
<1>6. CASE i > a + 2 + m
  <2>1. i - a - 2 - m \in 1 .. d /\ i = a + 2 + m + (i - a - 2 - m)
    BY <1>1, <1>6
  <2> QED BY <2>1 DEF a, m, d
<1> QED BY <1>1, <1>3, <1>4, <1>5, <1>6

\* The fields of the rules.
Is(rule, f, protos, dst, ports, target) ==
    /\ rule.fam = f /\ rule.protos = protos /\ rule.dst = dst
    /\ rule.ports = ports /\ rule.target = target

LEMMA RuleIs ==
    ASSUME NEW f, NEW protos, NEW dst, NEW ports, NEW target
    PROVE  Is(Rule(f, protos, dst, ports, target), f, protos, dst, ports, target)
BY Zenon DEF Is, Rule

LEMMA RuleFields ==
    ASSUME NEW c \in Config
    PROVE  /\ Is(FirewallScript(c)[1], "v4", {"udp"}, Loopback4, Ports, "ACCEPT")
           /\ Is(FirewallScript(c)[2], "v6", {"udp"}, Loopback6, Ports, "ACCEPT")
           /\ c.proxyLoop =>
                Is(FirewallScript(c)[3], "v4", {"tcp"}, {MapAddr}, {c.proxyPort}, "ACCEPT")
           /\ \A j \in 1 .. Len(c.allow) :
                Is(FirewallScript(c)[2 + Reachbacks(c) + j], "v4", {"tcp"},
                   AllowDest(c.allow[j]), {c.allow[j].port}, "ACCEPT")
           /\ Is(FirewallScript(c)[Accepts4(c) + 1], "v4", {"udp"}, Hosts, Ports, "DROP")
           /\ Is(FirewallScript(c)[Accepts4(c) + 2], "v6", {"udp"}, Hosts, Ports, "DROP")
           /\ MapExists(c) =>
                Is(FirewallScript(c)[Accepts4(c) + 3], "v4", Protos, {MapAddr}, Ports, "DROP")
           /\ \A j \in 1 .. RangesDropped(c) :
                Is(FirewallScript(c)[Accepts4(c) + 2 + MapDropped(c) + j], "v4", Protos,
                   DropRanges[j], Ports, "DROP")
<1>1. /\ LoopbackAccepts[1] = Rule("v4", {"udp"}, Loopback4, Ports, "ACCEPT")
      /\ LoopbackAccepts[2] = Rule("v6", {"udp"}, Loopback6, Ports, "ACCEPT")
  BY DEF LoopbackAccepts
<1>2. /\ Is(FirewallScript(c)[1], "v4", {"udp"}, Loopback4, Ports, "ACCEPT")
      /\ Is(FirewallScript(c)[2], "v6", {"udp"}, Loopback6, Ports, "ACCEPT")
  BY <1>1, ScriptShape, RuleIs
<1>3. c.proxyLoop =>
        Is(FirewallScript(c)[3], "v4", {"tcp"}, {MapAddr}, {c.proxyPort}, "ACCEPT")
  BY ScriptShape, RuleIs DEF ReachbackRule
<1>4. ASSUME NEW j \in 1 .. Len(c.allow)
      PROVE  Is(FirewallScript(c)[2 + Reachbacks(c) + j], "v4", {"tcp"},
                AllowDest(c.allow[j]), {c.allow[j].port}, "ACCEPT")
  <2>1. FirewallScript(c)[2 + Reachbacks(c) + j] = AllowRule(c.allow[j])
    BY ScriptShape
  <2> QED BY <2>1, RuleIs, Zenon DEF AllowRule
<1>5. /\ Is(FirewallScript(c)[Accepts4(c) + 1], "v4", {"udp"}, Hosts, Ports, "DROP")
      /\ Is(FirewallScript(c)[Accepts4(c) + 2], "v6", {"udp"}, Hosts, Ports, "DROP")
  BY ScriptShape, RuleIs DEF UdpDrop
<1>6. MapExists(c) =>
        Is(FirewallScript(c)[Accepts4(c) + 3], "v4", Protos, {MapAddr}, Ports, "DROP")
  <2>1. MapExists(c) => FirewallScript(c)[Accepts4(c) + 3] = MapDrop
    BY ScriptShape
  <2>2. Is(MapDrop, "v4", Protos, {MapAddr}, Ports, "DROP")
    BY RuleIs, Zenon DEF MapDrop
  <2> QED BY <2>1, <2>2, Zenon
<1>7. ASSUME NEW j \in 1 .. RangesDropped(c)
      PROVE  Is(FirewallScript(c)[Accepts4(c) + 2 + MapDropped(c) + j], "v4", Protos,
                DropRanges[j], Ports, "DROP")
  BY ScriptShape, RuleIs DEF RangeDrop
<1> QED BY <1>2, <1>3, <1>4, <1>5, <1>6, <1>7

-----------------------------------------------------------------------------
(***************************************************************************)
(* The last rule of each chain.                                            *)
(***************************************************************************)
Last(c, f) ==
    IF f = "v6" THEN Accepts4(c) + 2
    ELSE IF MapExists(c) \/ HasLANAllow(c) THEN Total(c) ELSE Accepts4(c) + 1

\* The two chains end at two rules, and one of them ends the script.
LEMMA LastRules ==
    ASSUME NEW c \in Config
    PROVE  /\ \A f \in {"v4", "v6"} : Last(c, f) \in 3 .. Total(c)
           /\ Last(c, "v4") # Last(c, "v6")
           /\ Last(c, "v4") = Total(c) \/ Last(c, "v6") = Total(c)
<1>1. MapDropped(c) = (IF MapExists(c) THEN 1 ELSE 0)
  BY DEF MapDropped
<1>2. CASE MapExists(c) \/ HasLANAllow(c)
  <2>1. Last(c, "v4") = Total(c) /\ Last(c, "v6") = Accepts4(c) + 2
    BY <1>2 DEF Last
  <2> QED BY <1>1, <1>2, <2>1, Lengths
<1>3. CASE ~(MapExists(c) \/ HasLANAllow(c))
  <2>1. Last(c, "v4") = Accepts4(c) + 1 /\ Last(c, "v6") = Accepts4(c) + 2
    BY <1>3 DEF Last
  <2> QED BY <1>1, <1>3, <2>1, Lengths
<1> QED BY <1>2, <1>3

\* The family of a rule tells where it may stand.
LEMMA FamilyAt ==
    ASSUME NEW c \in Config, NEW i \in 1 .. Total(c)
    PROVE  FirewallScript(c)[i].fam = (IF i \in {2, Accepts4(c) + 2} THEN "v6" ELSE "v4")
<1> DEFINE s == FirewallScript(c)
<1>1. s[1].fam = "v4" /\ s[2].fam = "v6"
  BY RuleFields DEF Is
<1>2. c.proxyLoop => s[3].fam = "v4"
  BY RuleFields DEF Is
<1>3. \A j \in 1 .. Len(c.allow) : s[2 + Reachbacks(c) + j].fam = "v4"
  BY RuleFields DEF Is
<1>4. s[Accepts4(c) + 1].fam = "v4" /\ s[Accepts4(c) + 2].fam = "v6"
  BY RuleFields DEF Is
<1>5. MapExists(c) => s[Accepts4(c) + 3].fam = "v4"
  BY RuleFields DEF Is
<1>6. \A j \in 1 .. RangesDropped(c) : s[Accepts4(c) + 2 + MapDropped(c) + j].fam = "v4"
  BY RuleFields DEF Is
<1> SUFFICES s[i].fam = (IF i \in {2, Accepts4(c) + 2} THEN "v6" ELSE "v4")
  OBVIOUS
<1> HIDE DEF s
<1>7. CASE i = 1 \/ i = 2
  BY <1>1, <1>7, Lengths
<1>8. CASE i = 3 /\ c.proxyLoop
  <2>1. Reachbacks(c) = 1
    BY <1>8 DEF Reachbacks
  <2>2. i \notin {2, Accepts4(c) + 2}
    BY <1>8, <2>1, Lengths
  <2> QED BY <1>2, <1>8, <2>2
<1>9. CASE \E j \in 1 .. Len(c.allow) : i = 2 + Reachbacks(c) + j
  BY <1>3, <1>9, Lengths, SMTT(30)
<1>10. CASE i = Accepts4(c) + 1 \/ i = Accepts4(c) + 2
  BY <1>4, <1>10, Lengths
<1>11. CASE i = Accepts4(c) + 3 /\ MapExists(c)
  BY <1>5, <1>11, Lengths
<1>12. CASE \E j \in 1 .. RangesDropped(c) : i = Accepts4(c) + 2 + MapDropped(c) + j
  <2>1. PICK j \in 1 .. RangesDropped(c) : i = Accepts4(c) + 2 + MapDropped(c) + j
    BY <1>12
  <2>2. i \notin {2, Accepts4(c) + 2}
    BY <2>1, Lengths
  <2> QED BY <1>6, <2>1, <2>2
<1> QED BY <1>7, <1>8, <1>9, <1>10, <1>11, <1>12, Positions

\* Every rule of a family stands at or before the last one, which is of the family.
LEMMA LastOfFamily ==
    ASSUME NEW c \in Config, NEW f \in {"v4", "v6"}
    PROVE  /\ FirewallScript(c)[Last(c, f)].fam = f
           /\ \A i \in 1 .. Total(c) : FirewallScript(c)[i].fam = f => i <= Last(c, f)
<1> DEFINE s == FirewallScript(c)
<1>0. MapDropped(c) = (IF MapExists(c) THEN 1 ELSE 0)
  BY DEF MapDropped
<1>1. \A i \in 1 .. Total(c) : s[i].fam = (IF i \in {2, Accepts4(c) + 2} THEN "v6" ELSE "v4")
  BY FamilyAt
<1> HIDE DEF s
<1>2. CASE f = "v6"
  <2>1. Last(c, f) = Accepts4(c) + 2 /\ Last(c, f) \in 1 .. Total(c)
    BY <1>2, Lengths DEF Last
  <2>2. \A i \in {2, Accepts4(c) + 2} : i <= Last(c, f)
    BY <2>1, Lengths
  <2> QED BY <1>1, <1>2, <2>1, <2>2 DEF s
<1>3. CASE f = "v4" /\ (MapExists(c) \/ HasLANAllow(c))
  <2>1. /\ Last(c, f) = Total(c) /\ Last(c, f) \in 1 .. Total(c)
        /\ Last(c, f) \notin {2, Accepts4(c) + 2}
    BY <1>0, <1>3, Lengths DEF Last
  <2>2. \A i \in 1 .. Total(c) : i <= Total(c)
    BY Lengths
  <2> QED BY <1>1, <1>3, <2>1, <2>2 DEF s
<1>4. CASE f = "v4" /\ ~(MapExists(c) \/ HasLANAllow(c))
  <2>1. /\ Last(c, f) = Accepts4(c) + 1 /\ Last(c, f) \in 1 .. Total(c)
        /\ Last(c, f) \notin {2, Accepts4(c) + 2}
        /\ Total(c) = Accepts4(c) + 2
    BY <1>0, <1>4, Lengths DEF Last
  <2>2. \A i \in 1 .. Total(c) : i \notin {2, Accepts4(c) + 2} => i <= Last(c, f)
    BY <2>1, Lengths
  <2> QED BY <1>1, <1>4, <2>1, <2>2 DEF s
<1> QED BY <1>2, <1>3, <1>4

\* The rules a probe wants are rules of that chain.
LEMMA VerifiedAreThere ==
    ASSUME NEW c \in Config, NEW f \in {"v4", "v6"}, NEW w \in VerifyRules(c, f)
    PROVE  \E i \in 1 .. Total(c) : FirewallScript(c)[i] = w /\ FirewallScript(c)[i].fam = f
<1> DEFINE s == FirewallScript(c)
           a == Accepts4(c)
<1>1. /\ s[1] = LoopbackAccepts[1] /\ s[2] = LoopbackAccepts[2]
      /\ c.proxyLoop => s[3] = ReachbackRule(c)
      /\ \A j \in 1 .. Len(c.allow) : s[2 + Reachbacks(c) + j] = AllowRule(c.allow[j])
      /\ s[a + 1] = UdpDrop("v4") /\ s[a + 2] = UdpDrop("v6")
      /\ MapExists(c) => s[a + 3] = MapDrop
      /\ \A j \in 1 .. RangesDropped(c) : s[a + 2 + MapDropped(c) + j] = RangeDrop(j)
  BY ScriptShape
<1>2. \A i \in 1 .. Total(c) : s[i].fam = (IF i \in {2, a + 2} THEN "v6" ELSE "v4")
  BY FamilyAt
<1>3. /\ 1 \in 1 .. Total(c) /\ 2 \in 1 .. Total(c)
      /\ a + 1 \in 1 .. Total(c) /\ a + 2 \in 1 .. Total(c)
      /\ 1 \notin {2, a + 2} /\ a + 1 \notin {2, a + 2}
  BY Lengths
<1> HIDE DEF s, a
<1>4. CASE f = "v6"
  <2>1. w = LoopbackAccepts[2] \/ w = UdpDrop("v6")
    BY <1>4 DEF VerifyRules
  <2> QED BY <1>1, <1>2, <1>3, <1>4, <2>1 DEF s
<1>5. CASE f = "v4"
  <2>1. \/ w = LoopbackAccepts[1] \/ w = UdpDrop("v4")
        \/ c.proxyLoop /\ w = ReachbackRule(c)
        \/ \E j \in DOMAIN c.allow : w = AllowRule(c.allow[j])
        \/ MapExists(c) /\ w = MapDrop
        \/ HasLANAllow(c) /\ \E j \in DOMAIN DropRanges : w = RangeDrop(j)
    BY <1>5, Zenon DEF VerifyRules
  <2>2. CASE w = LoopbackAccepts[1] \/ w = UdpDrop("v4")
    BY <1>1, <1>2, <1>3, <1>5, <2>2 DEF s
  <2>3. CASE c.proxyLoop /\ w = ReachbackRule(c)
    <3>1. Reachbacks(c) = 1
      BY <2>3 DEF Reachbacks
    <3>2. 3 \in 1 .. Total(c) /\ 3 \notin {2, a + 2}
      BY <3>1, Lengths DEF a
    <3> QED BY <1>1, <1>2, <1>5, <2>3, <3>2 DEF s
  <2>4. CASE \E j \in DOMAIN c.allow : w = AllowRule(c.allow[j])
    <3>1. PICK j \in 1 .. Len(c.allow) : w = AllowRule(c.allow[j])
      BY <2>4, AllowTyped
    <3>2. /\ 2 + Reachbacks(c) + j \in 1 .. Total(c)
          /\ 2 + Reachbacks(c) + j \notin {2, a + 2}
      BY Lengths, SMTT(30) DEF a
    <3> QED BY <1>1, <1>2, <1>5, <3>1, <3>2 DEF s
  <2>5. CASE MapExists(c) /\ w = MapDrop
    <3>1. MapDropped(c) = 1
      BY <2>5 DEF MapDropped
    <3>2. a + 3 \in 1 .. Total(c) /\ a + 3 \notin {2, a + 2}
      BY <3>1, Lengths DEF a
    <3> QED BY <1>1, <1>2, <1>5, <2>5, <3>2 DEF s
  <2>6. CASE HasLANAllow(c) /\ \E j \in DOMAIN DropRanges : w = RangeDrop(j)
    <3>1. PICK j \in 1 .. RangesDropped(c) : w = RangeDrop(j)
      BY <2>6, Lengths
    <3>2. /\ a + 2 + MapDropped(c) + j \in 1 .. Total(c)
          /\ a + 2 + MapDropped(c) + j \notin {2, a + 2}
      BY Lengths DEF a
    <3> QED BY <1>1, <1>2, <1>5, <3>1, <3>2 DEF s
  <2> QED BY <2>1, <2>2, <2>3, <2>4, <2>5, <2>6
<1> QED BY <1>4, <1>5

\* The last rule of a chain is one the probe wants, and stands there only: this
\* is why the presence of the rules tells how far the script has got.
LEMMA LastIsVerified ==
    ASSUME NEW c \in Config, NEW f \in {"v4", "v6"}
    PROVE  /\ FirewallScript(c)[Last(c, f)] \in VerifyRules(c, f)
           /\ \A i \in 1 .. Total(c) :
                FirewallScript(c)[i] = FirewallScript(c)[Last(c, f)] => i = Last(c, f)
<1> DEFINE s == FirewallScript(c)
           a == Accepts4(c)
           r == Reachbacks(c)
           m == MapDropped(c)
           d == RangesDropped(c)
<1>1. /\ s[1].target = "ACCEPT" /\ s[2].target = "ACCEPT"
      /\ c.proxyLoop => s[3].target = "ACCEPT"
      /\ \A j \in 1 .. Len(c.allow) : s[2 + r + j].target = "ACCEPT"
      /\ s[a + 1].target = "DROP" /\ s[a + 2].target = "DROP"
      /\ MapExists(c) => s[a + 3].target = "DROP"
      /\ \A j \in 1 .. d : s[a + 2 + m + j].target = "DROP"
  BY RuleFields DEF Is
<1>2. /\ s[a + 1].protos = {"udp"} /\ s[a + 1].fam = "v4" /\ s[a + 2].fam = "v6"
      /\ MapExists(c) => /\ s[a + 3].fam = "v4"
                         /\ s[a + 3].protos = Protos /\ s[a + 3].dst = {MapAddr}
      /\ \A j \in 1 .. d : /\ s[a + 2 + m + j].fam = "v4"
                           /\ s[a + 2 + m + j].protos = Protos
                           /\ s[a + 2 + m + j].dst = DropRanges[j]
  BY RuleFields DEF Is
<1>3. Protos # {"udp"}
  BY DEF Protos
<1>4. /\ s[a + 1] = UdpDrop("v4") /\ s[a + 2] = UdpDrop("v6")
      /\ MapExists(c) => s[a + 3] = MapDrop
      /\ \A j \in 1 .. d : s[a + 2 + m + j] = RangeDrop(j)
  BY ScriptShape
<1>5. ASSUME NEW i \in 1 .. Total(c), s[i].target = "DROP"
      PROVE  \/ i = a + 1 \/ i = a + 2 \/ (i = a + 3 /\ MapExists(c))
             \/ \E j \in 1 .. d : i = a + 2 + m + j
  BY <1>1, <1>5, Positions
<1> HIDE DEF s, a, r, m, d
<1>6. CASE f = "v6"
  <2>1. Last(c, f) = a + 2 /\ a + 2 \in 1 .. Total(c)
    BY <1>6, Lengths DEF Last, a
  <2>2. s[a + 2] \in VerifyRules(c, f)
    BY <1>4, <1>6 DEF VerifyRules
  <2>3. ASSUME NEW i \in 1 .. Total(c), s[i] = s[a + 2] PROVE i = a + 2
    BY <1>1, <1>2, <1>5, <2>3
  <2> QED BY <2>1, <2>2, <2>3 DEF s
<1>7. CASE f = "v4" /\ HasLANAllow(c)
  <2>1. /\ d = Len(DropRanges) /\ d \in 1 .. d /\ d \in DOMAIN DropRanges
        /\ Last(c, f) = a + 2 + m + d
    BY <1>7, Lengths DEF Last, a, m, d
  <2>2. s[a + 2 + m + d] \in VerifyRules(c, f)
    BY <1>4, <1>7, <2>1 DEF VerifyRules
  <2>3. ASSUME NEW i \in 1 .. Total(c), s[i] = s[a + 2 + m + d] PROVE i = a + 2 + m + d
    <3>1. /\ s[i].target = "DROP" /\ s[i].fam = "v4" /\ s[i].protos = Protos
          /\ s[i].dst = DropRanges[d]
      BY <1>1, <1>2, <2>1, <2>3
    <3>2. i # a + 1 /\ i # a + 2
      BY <1>2, <1>3, <3>1
    <3>3. ~(i = a + 3 /\ MapExists(c))
      BY <1>2, <2>1, <3>1, FirewallAssumption DEF FirewallAssumption
    <3>4. ASSUME NEW j \in 1 .. d, i = a + 2 + m + j PROVE i = a + 2 + m + d
      <4>1. DropRanges[j] = DropRanges[d] /\ j \in DOMAIN DropRanges
        BY <1>2, <2>1, <3>1, <3>4, Lengths DEF d
      <4>2. j = d
        BY <2>1, <4>1, FirewallAssumption DEF FirewallAssumption
      <4> QED BY <3>4, <4>2
    <3> QED BY <1>5, <3>1, <3>2, <3>3, <3>4
  <2> QED BY <2>1, <2>2, <2>3 DEF s
<1>8. CASE f = "v4" /\ ~HasLANAllow(c) /\ MapExists(c)
  <2>1. m = 1 /\ d = 0 /\ Last(c, f) = a + 3
    BY <1>8, Lengths DEF Last, a, m, d, MapDropped
  <2>2. s[a + 3] \in VerifyRules(c, f)
    BY <1>4, <1>8 DEF VerifyRules
  <2>3. ASSUME NEW i \in 1 .. Total(c), s[i] = s[a + 3] PROVE i = a + 3
    BY <1>1, <1>2, <1>3, <1>5, <1>8, <2>1, <2>3
  <2> QED BY <2>1, <2>2, <2>3 DEF s
<1>9. CASE f = "v4" /\ ~HasLANAllow(c) /\ ~MapExists(c)
  <2>1. d = 0 /\ Last(c, f) = a + 1
    BY <1>9, Lengths DEF Last, a, d
  <2>2. s[a + 1] \in VerifyRules(c, f)
    BY <1>4, <1>9 DEF VerifyRules
  <2>3. ASSUME NEW i \in 1 .. Total(c), s[i] = s[a + 1] PROVE i = a + 1
    BY <1>1, <1>2, <1>5, <1>9, <2>1, <2>3
  <2> QED BY <2>1, <2>2, <2>3 DEF s
<1> QED BY <1>6, <1>7, <1>8, <1>9

-----------------------------------------------------------------------------
(***************************************************************************)
(* The script runs while verifyFirewall looks.                             *)
(***************************************************************************)
\* The script as long as its rules, and its chains as long as their last.
LEMMA ScriptEnds ==
    ASSUME cfg \in Config, NEW f \in {"v4", "v6"}
    PROVE  /\ Len(Script) = Total(cfg) /\ Total(cfg) \in Nat
           /\ Last(cfg, f) \in 1 .. Total(cfg)
           /\ Script[Last(cfg, f)].fam = f
           /\ \A i \in 1 .. Total(cfg) : Script[i].fam = f => i <= Last(cfg, f)
BY ScriptShape, LastRules, LastOfFamily, Lengths DEF Script

\* How far a chain has got is how far the script has.
LEMMA ChainByPosition ==
    ASSUME cfg \in Config, applied \in Nat, NEW f \in {"v4", "v6"}
    PROVE  ChainComplete(f) <=> Last(cfg, f) <= applied
<1>1. /\ Len(Script) = Total(cfg) /\ Total(cfg) \in Nat
      /\ Last(cfg, f) \in 1 .. Total(cfg)
      /\ Script[Last(cfg, f)].fam = f
      /\ \A i \in 1 .. Total(cfg) : Script[i].fam = f => i <= Last(cfg, f)
  BY ScriptEnds
<1> QED BY <1>1 DEF ChainComplete

\* What was read complete is complete, until a restart takes it away; and the
\* subshell that runs has a rule left.
VerifiedInv ==
    /\ probe \in {"v6", "ok"} /\ ~restarted => ChainComplete("v4")
    /\ probe = "ok" /\ ~restarted => ChainComplete("v6")
    /\ running => applied < Len(Script)

FirewallInv == TypeOK /\ VerifiedInv

\* A probe finds the rules exactly when the chain is complete.
LEMMA PresentIsComplete ==
    ASSUME TypeOK, NEW f \in {"v4", "v6"}
    PROVE  RulesPresent(f) <=> ChainComplete(f)
<1>1. /\ cfg \in Config /\ applied \in Nat /\ applied <= Total(cfg) /\ Total(cfg) \in Nat
      /\ Len(Script) = Total(cfg) /\ Script = FirewallScript(cfg)
  BY ScriptShape, Lengths DEF TypeOK, Script
<1>2. ASSUME RulesPresent(f) PROVE ChainComplete(f)
  <2>1. PICK i \in 1 .. applied : Script[i] = Script[Last(cfg, f)]
    BY <1>1, <1>2, LastIsVerified DEF RulesPresent
  <2>2. i = Last(cfg, f)
    BY <1>1, <2>1, LastIsVerified
  <2> QED BY <1>1, <2>2, ChainByPosition
<1>3. ASSUME ChainComplete(f), NEW w \in VerifyRules(cfg, f)
      PROVE  \E i \in 1 .. applied : Script[i] = w
  <2>1. PICK i \in 1 .. Total(cfg) : Script[i] = w /\ Script[i].fam = f
    BY <1>1, VerifiedAreThere
  <2>2. i <= applied
    BY <1>1, <1>3, <2>1 DEF ChainComplete
  <2> QED BY <1>1, <2>1, <2>2
<1> QED BY <1>2, <1>3 DEF RulesPresent

\* The script starts with two rules, one of each family, to apply.
LEMMA FirewallInit == Init => FirewallInv
<1> SUFFICES ASSUME Init PROVE FirewallInv
  OBVIOUS
<1>1. cfg \in Config /\ Len(Script) = Total(cfg) /\ Total(cfg) \in Nat /\ Total(cfg) > 0
  BY ScriptShape, Lengths DEF Init, Script
<1>2. 0 \in 0 .. Len(Script) /\ 0 < Len(Script)
  BY <1>1
<1>3. TypeOK
  BY <1>2 DEF Init, TypeOK
<1>4. VerifiedInv
  BY <1>2 DEF Init, VerifiedInv
<1> QED BY <1>3, <1>4 DEF FirewallInv

\* Every step keeps the invariant.
LEMMA FirewallStep == FirewallInv /\ [Next]_vars => FirewallInv'
<1> SUFFICES ASSUME FirewallInv, [Next]_vars PROVE FirewallInv'
  OBVIOUS
<1>1. /\ cfg \in Config /\ applied \in Nat /\ applied <= Len(Script) /\ Len(Script) \in Nat
      /\ Len(Script) = Total(cfg) /\ Total(cfg) > 0
  BY ScriptShape, Lengths DEF FirewallInv, TypeOK, Script
<1>2. cfg' = cfg /\ Script' = Script
  BY DEF Next, ApplyRule, RuleFails, Restart, ProbeV4, ProbeV6, vars, Script
<1>3. ASSUME applied' >= applied, applied' \in Nat, NEW f, ChainComplete(f)
      PROVE  ChainComplete(f)'
  BY <1>1, <1>2, <1>3 DEF ChainComplete
<1>4. CASE ApplyRule
  <2>1. /\ applied' = applied + 1 /\ applied < Len(Script)
        /\ running' = (applied' < Len(Script)) /\ UNCHANGED <<cfg, probe, restarted>>
    BY <1>2, <1>4 DEF ApplyRule, FirewallInv, VerifiedInv
  <2>2. applied' \in 0 .. Len(Script) /\ running' \in BOOLEAN
    BY <1>1, <2>1
  <2>3. TypeOK'
    BY <1>2, <2>1, <2>2 DEF FirewallInv, TypeOK
  <2>4. /\ ChainComplete("v4") => ChainComplete("v4")'
        /\ ChainComplete("v6") => ChainComplete("v6")'
    BY <1>1, <1>3, <2>1
  <2>5. VerifiedInv'
    BY <1>2, <2>1, <2>4 DEF FirewallInv, VerifiedInv
  <2> QED BY <2>3, <2>5 DEF FirewallInv
<1>5. CASE RuleFails
  <2>1. /\ ChainComplete("v4") => ChainComplete("v4")'
        /\ ChainComplete("v6") => ChainComplete("v6")'
    BY <1>1, <1>3, <1>5 DEF RuleFails
  <2>2. TypeOK'
    BY <1>2, <1>5 DEF RuleFails, FirewallInv, TypeOK
  <2>3. VerifiedInv'
    BY <1>2, <1>5, <2>1 DEF RuleFails, FirewallInv, VerifiedInv
  <2> QED BY <2>2, <2>3 DEF FirewallInv
<1>6. CASE Restart
  <2>1. applied' \in 0 .. Len(Script) /\ applied' < Len(Script) /\ restarted' \in BOOLEAN
    BY <1>1, <1>6 DEF Restart
  <2>2. TypeOK'
    BY <1>2, <1>6, <2>1 DEF Restart, FirewallInv, TypeOK
  <2>3. VerifiedInv'
    BY <1>2, <1>6, <2>1 DEF Restart, FirewallInv, VerifiedInv
  <2> QED BY <2>2, <2>3 DEF FirewallInv
<1>7. CASE ProbeV4
  <2>1. /\ probe' = IF RulesPresent("v4") THEN "v6" ELSE "failed"
        /\ UNCHANGED <<cfg, applied, running, restarted>>
    BY <1>7 DEF ProbeV4
  <2>2. probe' = "v6" => ChainComplete("v4")
    BY <2>1, PresentIsComplete DEF FirewallInv
  <2> QED BY <1>1, <1>2, <1>3, <2>1, <2>2 DEF FirewallInv, TypeOK, VerifiedInv
<1>8. CASE ProbeV6
  <2>1. /\ probe = "v6" /\ probe' = IF RulesPresent("v6") THEN "ok" ELSE "failed"
        /\ UNCHANGED <<cfg, applied, running, restarted>>
    BY <1>8 DEF ProbeV6
  <2>2. probe' = "ok" => ChainComplete("v6")
    BY <2>1, PresentIsComplete DEF FirewallInv
  <2> QED BY <1>1, <1>2, <1>3, <2>1, <2>2 DEF FirewallInv, TypeOK, VerifiedInv
<1>9. CASE UNCHANGED vars
  BY <1>1, <1>2, <1>3, <1>9 DEF vars, FirewallInv, TypeOK, VerifiedInv
<1> QED BY <1>4, <1>5, <1>6, <1>7, <1>8, <1>9 DEF Next

LEMMA FirewallInvariant == Spec => []FirewallInv
BY FirewallInit, FirewallStep, PTL DEF Spec

\* Every netns is one of an accepted command line, whose script is nowhere past
\* its end.
THEOREM FirewallTypes == Spec => []TypeOK
<1>1. FirewallInv => TypeOK
  BY DEF FirewallInv
<1> QED BY <1>1, FirewallInvariant, PTL

\* ProbeExact: a probe for the presence of rules is a probe for the whole chain,
\* for every allowlist and however far the script has got.
THEOREM ProbeExactHolds == Spec => []ProbeExact
<1>1. FirewallInv => ProbeExact
  BY PresentIsComplete DEF FirewallInv, ProbeExact
<1> QED BY <1>1, FirewallInvariant, PTL

-----------------------------------------------------------------------------
(***************************************************************************)
(* What a whole script lets out.                                           *)
(***************************************************************************)
\* In a trusted netns the whole script has been applied.
LEMMA TrustedWhole ==
    ASSUME FirewallInv, Trusted
    PROVE  applied = Total(cfg) /\ cfg \in Config /\ Script = FirewallScript(cfg)
<1>1. /\ cfg \in Config /\ applied \in Nat /\ applied <= Total(cfg) /\ Total(cfg) \in Nat
      /\ Script = FirewallScript(cfg)
  BY ScriptShape, Lengths DEF FirewallInv, TypeOK, Script
<1>2. ChainComplete("v4") /\ ChainComplete("v6")
  BY DEF FirewallInv, VerifiedInv, Trusted
<1>3. Last(cfg, "v4") <= applied /\ Last(cfg, "v6") <= applied
  BY <1>1, <1>2, ChainByPosition
<1> QED BY <1>1, <1>3, LastRules

\* A nonempty set of natural numbers has a least one.
LEMMA LeastIndex ==
    ASSUME NEW T \in SUBSET Nat, T # {}
    PROVE  \E x \in T : \A y \in T : x <= y
<1> DEFINE R == OpToRel(<, Nat)
<1>1. IsWellFoundedOn(R, Nat)
  BY NatLessThanWellFounded, Zenon
<1>2. \A x, y \in Nat : <<x, y>> \in R <=> x < y
  BY DEF OpToRel
<1> HIDE DEF R
<1>3. PICK x \in T : \A y \in T : ~ (<<y, x>> \in R)
  BY <1>1, WFMin
<1>4. ASSUME NEW y \in T PROVE x <= y
  <2>1. x \in Nat /\ y \in Nat
    OBVIOUS
  <2>2. ~ (y < x)
    BY <1>2, <1>3, <2>1, Zenon
  <2> QED BY <2>1, <2>2
<1> QED BY <1>4

\* Of the rules that match, one is the first.
LEMMA FirstMatch ==
    ASSUME NEW k, NEW i \in Nat \ {0}, Matches(i, k)
    PROVE  \E j \in 1 .. i : Matches(j, k) /\ \A l \in 1 .. (j - 1) : ~Matches(l, k)
<1> DEFINE T == {j \in 1 .. i : Matches(j, k)}
<1>1. T \in SUBSET Nat /\ i \in T
  OBVIOUS
<1>2. PICK j \in T : \A y \in T : j <= y
  BY <1>1, LeastIndex
<1>3. j \in 1 .. i /\ Matches(j, k)
  OBVIOUS
<1>4. ASSUME NEW l \in 1 .. (j - 1), Matches(l, k) PROVE FALSE
  BY <1>2, <1>3, <1>4
<1> QED BY <1>3, <1>4

\* The accepts precede the drops.
LEMMA Targets ==
    ASSUME NEW c \in Config, NEW i \in 1 .. Total(c)
    PROVE  FirewallScript(c)[i].target = (IF i <= Accepts4(c) THEN "ACCEPT" ELSE "DROP")
<1> DEFINE s == FirewallScript(c)
           a == Accepts4(c)
           r == Reachbacks(c)
           m == MapDropped(c)
           d == RangesDropped(c)
           n == Len(c.allow)
<1> SUFFICES s[i].target = (IF i <= a THEN "ACCEPT" ELSE "DROP")
  OBVIOUS
<1>1. /\ s[1].target = "ACCEPT" /\ s[2].target = "ACCEPT"
      /\ c.proxyLoop => s[3].target = "ACCEPT"
      /\ \A j \in 1 .. n : s[2 + r + j].target = "ACCEPT"
      /\ s[a + 1].target = "DROP" /\ s[a + 2].target = "DROP"
      /\ MapExists(c) => s[a + 3].target = "DROP"
      /\ \A j \in 1 .. d : s[a + 2 + m + j].target = "DROP"
  BY RuleFields DEF Is
<1>2. c.proxyLoop => r = 1
  BY DEF Reachbacks
<1>3. /\ a = 2 + r + n /\ n \in Nat /\ r \in {0, 1} /\ m \in {0, 1}
      /\ d \in Nat /\ a \in Nat /\ i \in Nat
  BY Lengths
<1>4. \/ i = 1 \/ i = 2
      \/ (i = 3 /\ c.proxyLoop)
      \/ (\E j \in 1 .. n : i = 2 + r + j)
      \/ i = a + 1 \/ i = a + 2
      \/ (i = a + 3 /\ MapExists(c))
      \/ (\E j \in 1 .. d : i = a + 2 + m + j)
  BY Positions
<1> HIDE DEF s, a, r, m, d, n
<1>5. CASE i = 1 \/ i = 2
  <2>1. i <= a
    BY <1>3, <1>5
  <2> QED BY <1>1, <1>5, <2>1
<1>6. CASE i = 3 /\ c.proxyLoop
  <2>1. i = 3 /\ r = 1 /\ s[i].target = "ACCEPT"
    BY <1>1, <1>2, <1>6, Zenon
  <2>2. i <= a
    BY <1>3, <2>1
  <2> QED BY <2>1, <2>2
<1>7. CASE \E j \in 1 .. n : i = 2 + r + j
  BY <1>1, <1>3, <1>7
<1>8. CASE i = a + 1 \/ i = a + 2
  <2>1. ~(i <= a)
    BY <1>3, <1>8
  <2> QED BY <1>1, <1>8, <2>1
<1>9. CASE i = a + 3 /\ MapExists(c)
  <2>1. i = a + 3 /\ s[i].target = "DROP"
    BY <1>1, <1>9, Zenon
  <2>2. ~(i <= a)
    BY <1>3, <2>1
  <2> QED BY <2>1, <2>2
<1>10. CASE \E j \in 1 .. d : i = a + 2 + m + j
  <2>1. PICK j \in 1 .. d : i = a + 2 + m + j
    BY <1>10
  <2>2. s[i].target = "DROP"
    BY <1>1, <2>1
  <2>3. ~(i <= a)
    BY <1>3, <2>1
  <2> QED BY <2>2, <2>3
<1> QED BY <1>4, <1>5, <1>6, <1>7, <1>8, <1>9, <1>10

\* So a packet is let out when one of the accepts matches it, or no rule does.
LEMMA AcceptedIff ==
    ASSUME cfg \in Config, Script = FirewallScript(cfg), applied = Total(cfg), NEW k
    PROVE  Accepted(k) <=> \/ \E i \in 1 .. Accepts4(cfg) : Matches(i, k)
                           \/ \A i \in 1 .. Total(cfg) : ~Matches(i, k)
<1>1. /\ Accepts4(cfg) \in Nat /\ Total(cfg) \in Nat /\ Accepts4(cfg) <= Total(cfg)
      /\ \A i \in 1 .. Total(cfg) :
            Script[i].target = (IF i <= Accepts4(cfg) THEN "ACCEPT" ELSE "DROP")
  BY Lengths, Targets
<1>2. ASSUME Accepted(k), NEW i \in 1 .. Total(cfg), Matches(i, k)
      PROVE  \E j \in 1 .. Accepts4(cfg) : Matches(j, k)
  <2>1. PICK j \in 1 .. i : Matches(j, k) /\ \A l \in 1 .. (j - 1) : ~Matches(l, k)
    BY <1>2, FirstMatch
  <2>2. j \in 1 .. Total(cfg)
    BY <1>1, <2>1
  <2>3. Script[j].target = "ACCEPT"
    BY <1>2, <2>1, <2>2 DEF Accepted
  <2> QED BY <1>1, <2>1, <2>2, <2>3
<1>3. ASSUME NEW j \in 1 .. Accepts4(cfg), Matches(j, k) PROVE Accepted(k)
  <2> SUFFICES ASSUME NEW i \in 1 .. applied, Matches(i, k),
                      \A l \in 1 .. (i - 1) : ~Matches(l, k)
               PROVE  Script[i].target = "ACCEPT"
    BY DEF Accepted
  <2>1. ~(j \in 1 .. (i - 1)) /\ i \in 1 .. Total(cfg)
    BY <1>3
  <2> QED BY <1>1, <2>1
<1>4. ASSUME \A i \in 1 .. Total(cfg) : ~Matches(i, k) PROVE Accepted(k)
  BY <1>4 DEF Accepted
<1> QED BY <1>2, <1>3, <1>4

-----------------------------------------------------------------------------
(***************************************************************************)
(* What the whole script lets out, without the script.                     *)
(***************************************************************************)
\* An accept for the packet.
Passed(k) ==
    \/ k.proto = "udp" /\ k.dst \in Loopback4 \cup Loopback6
    \/ k.proto = "tcp" /\ cfg.proxyLoop /\ k.dst = MapAddr /\ k.port = cfg.proxyPort
    \/ k.proto = "tcp" /\ Named(k)

\* A drop for the packet.
Dropped(k) ==
    \/ k.proto = "udp"
    \/ MapExists(cfg) /\ k.dst = MapAddr
    \/ HasLANAllow(cfg) /\ k.dst \in Private \cup {MapAddr}

LEMMA MatchesIs ==
    ASSUME NEW i, NEW k, NEW f, NEW protos, NEW dst, NEW ports, NEW target,
           Is(FirewallScript(cfg)[i], f, protos, dst, ports, target)
    PROVE  Matches(i, k) <=> /\ FamilyOf(k) = f /\ k.proto \in protos
                             /\ k.dst \in dst /\ k.port \in ports
BY Zenon DEF Matches, Script, Is

\* The two families, and where the hosts of the rules belong.
LEMMA PacketFamily ==
    ASSUME NEW k \in Packet
    PROVE  /\ k.proto \in Protos /\ k.port \in Ports /\ k.dst \in Hosts
           /\ FamilyOf(k) \in {"v4", "v6"}
           /\ k.dst \in Loopback4 \cup Private \cup Public \cup {MapAddr} => FamilyOf(k) = "v4"
           /\ k.dst \in Loopback6 => FamilyOf(k) = "v6"
BY FirewallAssumption DEF FirewallAssumption, Packet, FamilyOf, Hosts, Hosts4, Hosts6

LEMMA AcceptsPass ==
    ASSUME cfg \in Config, NEW k \in Packet
    PROVE  (\E i \in 1 .. Accepts4(cfg) : Matches(i, k)) <=> Passed(k)
<1> DEFINE r == Reachbacks(cfg)
           n == Len(cfg.allow)
           a == Accepts4(cfg)
<1>1. /\ Matches(1, k) <=> k.proto = "udp" /\ k.dst \in Loopback4
      /\ Matches(2, k) <=> k.proto = "udp" /\ k.dst \in Loopback6
  <2>1. /\ Matches(1, k) <=> /\ FamilyOf(k) = "v4" /\ k.proto \in {"udp"}
                             /\ k.dst \in Loopback4 /\ k.port \in Ports
        /\ Matches(2, k) <=> /\ FamilyOf(k) = "v6" /\ k.proto \in {"udp"}
                             /\ k.dst \in Loopback6 /\ k.port \in Ports
    BY RuleFields, MatchesIs, Zenon
  <2> QED BY <2>1, PacketFamily
<1>2. ASSUME cfg.proxyLoop
      PROVE  Matches(3, k) <=> k.proto = "tcp" /\ k.dst = MapAddr /\ k.port = cfg.proxyPort
  <2>1. Matches(3, k) <=> /\ FamilyOf(k) = "v4" /\ k.proto \in {"tcp"}
                          /\ k.dst \in {MapAddr} /\ k.port \in {cfg.proxyPort}
    BY <1>2, RuleFields, MatchesIs, Zenon
  <2> QED BY <2>1, PacketFamily
<1>3. ASSUME NEW j \in 1 .. n
      PROVE  Matches(2 + r + j, k) <=>
                 k.proto = "tcp" /\ k.dst \in AllowDest(cfg.allow[j]) /\ k.port = cfg.allow[j].port
  <2>1. Is(FirewallScript(cfg)[2 + r + j], "v4", {"tcp"},
           AllowDest(cfg.allow[j]), {cfg.allow[j].port}, "ACCEPT")
    BY RuleFields
  <2>2. Matches(2 + r + j, k) <=> /\ FamilyOf(k) = "v4" /\ k.proto \in {"tcp"}
                                  /\ k.dst \in AllowDest(cfg.allow[j])
                                  /\ k.port \in {cfg.allow[j].port}
    BY <2>1, Zenon DEF Matches, Script, Is
  <2>3. AllowDest(cfg.allow[j]) \subseteq Private \cup {MapAddr}
    BY AllowTyped, DestTyped
  <2> QED BY <2>2, <2>3, PacketFamily
<1>4. Named(k) <=> \E j \in 1 .. n : k.dst \in AllowDest(cfg.allow[j]) /\ k.port = cfg.allow[j].port
  BY AllowTyped DEF Named
<1>5. a = 2 + r + n /\ n \in Nat /\ r \in {0, 1} /\ a \in Nat /\ a <= Total(cfg) /\ Total(cfg) \in Nat
  BY Lengths
<1>6. r = 1 <=> cfg.proxyLoop
  BY DEF Reachbacks
<1> HIDE DEF r, n, a
<1>7. ASSUME NEW i \in 1 .. a
      PROVE  i = 1 \/ i = 2 \/ (i = 3 /\ r = 1) \/ (\E j \in 1 .. n : i = 2 + r + j)
  <2>1. CASE i <= 2 + r
    BY <1>5, <2>1
  <2>2. CASE i > 2 + r
    <3>1. i - 2 - r \in 1 .. n /\ i = 2 + r + (i - 2 - r)
      BY <1>5, <2>2
    <3> QED BY <3>1
  <2> QED BY <1>5, <2>1, <2>2
<1>8. ASSUME NEW i \in 1 .. a, Matches(i, k) PROVE Passed(k)
  <2>1. CASE i = 1 \/ i = 2
    BY <1>1, <1>8, <2>1 DEF Passed
  <2>2. CASE i = 3 /\ r = 1
    BY <1>2, <1>6, <1>8, <2>2 DEF Passed
  <2>3. CASE \E j \in 1 .. n : i = 2 + r + j
    BY <1>3, <1>4, <1>8, <2>3 DEF Passed
  <2> QED BY <1>7, <2>1, <2>2, <2>3
<1>9. ASSUME Passed(k) PROVE \E i \in 1 .. a : Matches(i, k)
  <2>1. CASE k.proto = "udp" /\ k.dst \in Loopback4 \cup Loopback6
    <3>1. 1 \in 1 .. a /\ 2 \in 1 .. a
      BY <1>5
    <3> QED BY <1>1, <2>1, <3>1
  <2>2. CASE k.proto = "tcp" /\ cfg.proxyLoop /\ k.dst = MapAddr /\ k.port = cfg.proxyPort
    <3>1. Matches(3, k)
      BY <1>2, <2>2, Zenon
    <3>2. r = 1
      BY <1>6, <2>2, Zenon
    <3>3. 3 \in 1 .. a
      BY <1>5, <3>2
    <3> QED BY <3>1, <3>3
  <2>3. CASE k.proto = "tcp" /\ Named(k)
    <3>1. PICK j \in 1 .. n : Matches(2 + r + j, k)
      BY <1>3, <1>4, <2>3
    <3>2. 2 + r + j \in 1 .. a
      BY <1>5
    <3> QED BY <3>1, <3>2
  <2> QED BY <1>9, <2>1, <2>2, <2>3 DEF Passed
<1> QED BY <1>8, <1>9 DEF a

LEMMA RulesPassOrDrop ==
    ASSUME cfg \in Config, NEW k \in Packet
    PROVE  (\A i \in 1 .. Total(cfg) : ~Matches(i, k)) <=> ~Passed(k) /\ ~Dropped(k)
<1> DEFINE a == Accepts4(cfg)
           m == MapDropped(cfg)
           d == RangesDropped(cfg)
<1>1. /\ Matches(a + 1, k) <=> FamilyOf(k) = "v4" /\ k.proto = "udp"
      /\ Matches(a + 2, k) <=> FamilyOf(k) = "v6" /\ k.proto = "udp"
  <2>1. /\ Matches(a + 1, k) <=> /\ FamilyOf(k) = "v4" /\ k.proto \in {"udp"}
                                 /\ k.dst \in Hosts /\ k.port \in Ports
        /\ Matches(a + 2, k) <=> /\ FamilyOf(k) = "v6" /\ k.proto \in {"udp"}
                                 /\ k.dst \in Hosts /\ k.port \in Ports
    BY RuleFields, MatchesIs, Zenon
  <2> QED BY <2>1, PacketFamily
<1>2. ASSUME MapExists(cfg)
      PROVE  Matches(a + 3, k) <=> k.dst = MapAddr
  <2>1. Matches(a + 3, k) <=> /\ FamilyOf(k) = "v4" /\ k.proto \in Protos
                              /\ k.dst \in {MapAddr} /\ k.port \in Ports
    BY <1>2, RuleFields, MatchesIs, Zenon
  <2> QED BY <2>1, PacketFamily
<1>3. ASSUME NEW j \in 1 .. d
      PROVE  Matches(a + 2 + m + j, k) <=> FamilyOf(k) = "v4" /\ k.dst \in DropRanges[j]
  <2>1. Is(FirewallScript(cfg)[a + 2 + m + j], "v4", Protos, DropRanges[j], Ports, "DROP")
    BY RuleFields
  <2>2. Matches(a + 2 + m + j, k) <=> /\ FamilyOf(k) = "v4" /\ k.proto \in Protos
                                      /\ k.dst \in DropRanges[j] /\ k.port \in Ports
    BY <2>1, MatchesIs, Zenon
  <2> QED BY <2>2, PacketFamily
<1>4. /\ a \in Nat /\ m \in {0, 1} /\ d \in Nat /\ a <= Total(cfg) /\ Total(cfg) \in Nat
      /\ Total(cfg) = a + 2 + m + d
  BY Lengths
<1>0. /\ DOMAIN DropRanges = 1 .. Len(DropRanges)
      /\ d = (IF HasLANAllow(cfg) THEN Len(DropRanges) ELSE 0)
  BY Lengths
<1>5. m = 1 <=> MapExists(cfg)
  BY DEF MapDropped
<1>6. UNION {DropRanges[j] : j \in DOMAIN DropRanges} = Private \cup {MapAddr}
  BY FirewallAssumption DEF FirewallAssumption
<1>7. (\E j \in 1 .. d : k.dst \in DropRanges[j])
          <=> HasLANAllow(cfg) /\ k.dst \in Private \cup {MapAddr}
  <2>1. CASE HasLANAllow(cfg)
    <3>1. 1 .. d = DOMAIN DropRanges
      BY <1>0, <2>1, Zenon
    <3> QED BY <1>6, <2>1, <3>1
  <2>2. CASE ~HasLANAllow(cfg)
    <3>1. d = 0
      BY <1>0, <2>2, Zenon
    <3>2. 1 .. d = {}
      BY <3>1
    <3> QED BY <2>2, <3>2
  <2> QED BY <2>1, <2>2
<1> HIDE DEF a, m, d
<1>8. (\E i \in 1 .. a : Matches(i, k)) <=> Passed(k)
  BY AcceptsPass DEF a
<1>9. ASSUME NEW i \in 1 .. Total(cfg)
      PROVE  \/ i \in 1 .. a \/ i = a + 1 \/ i = a + 2 \/ (i = a + 3 /\ m = 1)
             \/ \E j \in 1 .. d : i = a + 2 + m + j
  <2>1. CASE i <= a + 2 + m
    BY <1>4, <2>1
  <2>2. CASE i > a + 2 + m
    <3>1. i - a - 2 - m \in 1 .. d /\ i = a + 2 + m + (i - a - 2 - m)
      BY <1>4, <2>2
    <3> QED BY <3>1
  <2> QED BY <1>4, <2>1, <2>2
<1>10. ASSUME NEW i \in 1 .. Total(cfg), Matches(i, k) PROVE Passed(k) \/ Dropped(k)
  <2>1. CASE i \in 1 .. a
    BY <1>8, <1>10, <2>1
  <2>2. CASE i = a + 1 \/ i = a + 2
    BY <1>1, <1>10, <2>2 DEF Dropped
  <2>3. CASE i = a + 3 /\ m = 1
    BY <1>2, <1>5, <1>10, <2>3 DEF Dropped
  <2>4. CASE \E j \in 1 .. d : i = a + 2 + m + j
    BY <1>3, <1>7, <1>10, <2>4 DEF Dropped
  <2> QED BY <1>9, <2>1, <2>2, <2>3, <2>4
<1>11. ASSUME Passed(k) PROVE \E i \in 1 .. Total(cfg) : Matches(i, k)
  <2>1. PICK i \in 1 .. a : Matches(i, k)
    BY <1>8, <1>11
  <2>2. i \in 1 .. Total(cfg)
    BY <1>4
  <2> QED BY <2>1, <2>2
<1>12. ASSUME Dropped(k) PROVE \E i \in 1 .. Total(cfg) : Matches(i, k)
  <2>1. CASE k.proto = "udp"
    <3>1. Matches(a + 1, k) \/ Matches(a + 2, k)
      BY <1>1, <2>1, PacketFamily
    <3>2. a + 1 \in 1 .. Total(cfg) /\ a + 2 \in 1 .. Total(cfg)
      BY <1>4
    <3> QED BY <3>1, <3>2
  <2>2. CASE MapExists(cfg) /\ k.dst = MapAddr
    <3>1. Matches(a + 3, k)
      BY <1>2, <2>2, Zenon
    <3>2. m = 1
      BY <1>5, <2>2, Zenon
    <3>3. a + 3 \in 1 .. Total(cfg)
      BY <1>4, <3>2
    <3> QED BY <3>1, <3>3
  <2>3. CASE HasLANAllow(cfg) /\ k.dst \in Private \cup {MapAddr}
    <3>1. PICK j \in 1 .. d : k.dst \in DropRanges[j]
      BY <1>7, <2>3
    <3>2. Matches(a + 2 + m + j, k)
      BY <1>3, <2>3, <3>1, PacketFamily
    <3>3. a + 2 + m + j \in 1 .. Total(cfg)
      BY <1>4
    <3> QED BY <3>2, <3>3
  <2> QED BY <1>12, <2>1, <2>2, <2>3 DEF Dropped
<1> QED BY <1>10, <1>11, <1>12

\* In a verified netns a packet is let out when it has an accept or no drop:
\* no accept is shadowed by a drop, none is cut off by a script that ended.
LEMMA TrustedAccepts ==
    ASSUME FirewallInv, Trusted, NEW k \in Packet
    PROVE  cfg \in Config /\ (Accepted(k) <=> Passed(k) \/ ~Dropped(k))
<1>1. cfg \in Config /\ applied = Total(cfg)
  BY TrustedWhole
<1>2. Accepted(k) <=> \/ \E i \in 1 .. Accepts4(cfg) : Matches(i, k)
                      \/ \A i \in 1 .. Total(cfg) : ~Matches(i, k)
  BY <1>1, AcceptedIff DEF Script
<1> QED BY <1>1, <1>2, AcceptsPass, RulesPassOrDrop

(***************************************************************************)
(* In a verified netns UDP reaches the netns' own loopback and nothing     *)
(* else: the accepts of the loopback precede the drop of all of UDP, and   *)
(* every other accept is for TCP.                                          *)
(***************************************************************************)
THEOREM OnlyLoopbackUDPHolds == Spec => []OnlyLoopbackUDP
<1>1. FirewallInv => OnlyLoopbackUDP
  <2> SUFFICES ASSUME FirewallInv, Trusted, NEW k \in Packet, k.proto = "udp"
               PROVE  Accepted(k) <=> k.dst \in Loopback4 \cup Loopback6
    BY DEF OnlyLoopbackUDP
  <2>1. Accepted(k) <=> Passed(k) \/ ~Dropped(k)
    BY TrustedAccepts
  <2> QED BY <2>1 DEF Passed, Dropped
<1> QED BY <1>1, FirewallInvariant, PTL

\* The map comes with any entry for the host's loopback, and an entry that is
\* not for it is for the LAN: what an entry names has a drop behind it.
LEMMA AllowedIsDropped ==
    ASSUME cfg \in Config, NEW i \in DOMAIN cfg.allow, NEW k \in Packet,
           k.dst \in AllowDest(cfg.allow[i])
    PROVE  Dropped(k)
<1>1. /\ AllowDest(cfg.allow[i]) \subseteq Private \cup {MapAddr}
      /\ cfg.allow[i].loop \in BOOLEAN
      /\ cfg.allow[i].loop => AllowDest(cfg.allow[i]) = {MapAddr}
  BY AllowTyped, DestTyped
<1>2. CASE cfg.allow[i].loop
  <2>1. MapExists(cfg)
    BY <1>2 DEF MapExists, HasHostLoopbackAllow
  <2> QED BY <1>1, <1>2, <2>1 DEF Dropped
<1>3. CASE ~cfg.allow[i].loop
  <2>1. HasLANAllow(cfg)
    BY <1>3 DEF HasLANAllow
  <2> QED BY <1>1, <2>1 DEF Dropped
<1> QED BY <1>2, <1>3

(***************************************************************************)
(* What leaves a verified netns around the proxy is TCP that an --allow    *)
(* names, or the sidecar's dial to the proxy: whatever is routed around    *)
(* the TUN has a drop behind its accepts, a proxy on another host apart.   *)
(***************************************************************************)
THEOREM DirectOnlyNamedHolds == Spec => []DirectOnlyNamed
<1>1. FirewallInv => DirectOnlyNamed
  <2> SUFFICES ASSUME FirewallInv, Trusted, NEW k \in Packet, Direct(k), Accepted(k)
               PROVE  /\ k.proto = "tcp"
                      /\ \/ Named(k)
                         \/ IF cfg.proxyLoop THEN k.dst = MapAddr /\ k.port = cfg.proxyPort
                            ELSE k.dst = cfg.proxyHost
    BY DEF DirectOnlyNamed
  <2>1. cfg \in Config /\ (Passed(k) \/ ~Dropped(k))
    BY TrustedAccepts
  <2>2. cfg.proxyHost \in Private \cup Public
    BY <2>1, AllowTyped
  <2>3. \/ k.dst = ReachbackAddr(cfg)
        \/ \E i \in DOMAIN cfg.allow : k.dst \in AllowDest(cfg.allow[i])
    BY DEF Direct, ExcludedRoutes
  <2>4. k.dst \in Private \cup Public \cup {MapAddr}
    <3>1. CASE k.dst = ReachbackAddr(cfg)
      BY <2>2, <3>1 DEF ReachbackAddr
    <3>2. CASE \E i \in DOMAIN cfg.allow : k.dst \in AllowDest(cfg.allow[i])
      BY <2>1, <3>2, AllowTyped, DestTyped
    <3> QED BY <2>3, <3>1, <3>2
  <2>5. k.dst \notin Loopback4 \cup Loopback6
    BY <2>4, FirewallAssumption DEF FirewallAssumption, Hosts4, Hosts6
  <2>6. CASE Passed(k)
    <3>1. k.proto = "tcp" /\ (Named(k) \/ (cfg.proxyLoop /\ k.dst = MapAddr /\ k.port = cfg.proxyPort))
      BY <2>5, <2>6 DEF Passed
    <3> QED BY <3>1, Zenon
  <2>7. CASE ~Dropped(k)
    <3>1. k.proto = "tcp"
      BY <2>7 DEF Dropped, Packet, Protos
    <3>2. k.dst = ReachbackAddr(cfg)
      BY <2>1, <2>3, <2>7, AllowedIsDropped, Zenon
    <3>3. ~cfg.proxyLoop
      BY <2>7, <3>2, Zenon DEF Dropped, MapExists, ReachbackAddr
    <3> QED BY <3>1, <3>2, <3>3, Zenon DEF ReachbackAddr
  <2> QED BY <2>1, <2>6, <2>7
<1> QED BY <1>1, FirewallInvariant, PTL

(***************************************************************************)
(* What an --allow names is reachable, and around the proxy, whatever else *)
(* is on the allowlist.                                                    *)
(***************************************************************************)
THEOREM NamedReachableHolds == Spec => []NamedReachable
<1>1. FirewallInv => NamedReachable
  <2> SUFFICES ASSUME FirewallInv, Trusted, NEW k \in Packet, k.proto = "tcp", Named(k)
               PROVE  Accepted(k) /\ Direct(k)
    BY DEF NamedReachable
  <2>1. Accepted(k)
    BY TrustedAccepts DEF Passed
  <2>2. Direct(k)
    BY DEF Direct, ExcludedRoutes, Named
  <2> QED BY <2>1, <2>2
<1> QED BY <1>1, FirewallInvariant, PTL

(***************************************************************************)
(* The sidecar's dial to the proxy is let out, around the TUN: when the    *)
(* proxy is on the host's loopback it has an accept of its own, and        *)
(* otherwise no drop is for it, except when a LAN --allow drops the ranges *)
(* a private proxy is in.                                                  *)
(***************************************************************************)
THEOREM ProxyReachableHolds == Spec => []ProxyReachable
<1>1. FirewallInv => ProxyReachable
  <2> SUFFICES ASSUME FirewallInv, Trusted,
                      cfg.proxyLoop \/ ~HasLANAllow(cfg) \/ cfg.proxyHost \in Public
               PROVE  Accepted(ProxyDial) /\ Direct(ProxyDial)
    BY DEF ProxyReachable
  <2> DEFINE k == ProxyDial
  <2>1. cfg \in Config
    BY TrustedWhole
  <2>2. cfg.proxyHost \in Private \cup Public /\ cfg.proxyPort \in Ports
    BY <2>1, AllowTyped
  <2>3. k.proto = "tcp" /\ k.dst = ReachbackAddr(cfg) /\ k.port = cfg.proxyPort
    BY DEF ProxyDial
  <2>4. ReachbackAddr(cfg) \in Hosts
    BY <2>2 DEF ReachbackAddr, Hosts, Hosts4
  <2>5. k \in Packet
    BY <2>2, <2>4 DEF ProxyDial, Packet, Protos
  <2>6. Direct(k)
    BY <2>3 DEF Direct, ExcludedRoutes
  <2> HIDE DEF k
  <2>7. Passed(k) \/ ~Dropped(k)
    <3>1. CASE cfg.proxyLoop
      BY <2>3, <3>1, Zenon DEF Passed, ReachbackAddr
    <3>2. CASE ~cfg.proxyLoop
      <4>1. k.dst = cfg.proxyHost
        BY <2>3, <3>2, Zenon DEF ReachbackAddr
      <4>2. k.dst # MapAddr /\ (k.dst \in Public => k.dst \notin Private)
        BY <2>2, <4>1, FirewallAssumption DEF FirewallAssumption
      <4>3. ~HasLANAllow(cfg) \/ k.dst \in Public
        BY <3>2, <4>1, Zenon
      <4>4. k.proto # "udp"
        BY <2>3
      <4> QED BY <4>2, <4>3, <4>4 DEF Dropped
    <3> QED BY <3>1, <3>2
  <2>8. Accepted(k)
    BY <2>5, <2>7, TrustedAccepts
  <2> QED BY <2>6, <2>8 DEF k
<1> QED BY <1>1, FirewallInvariant, PTL

-----------------------------------------------------------------------------
(***************************************************************************)
(* The script implements the abstract firewall of a netns.                 *)
(***************************************************************************)
CompleteChains == {f \in {"v4", "v6"} : ChainComplete(f)}

\* The chains are complete from two different rules on, the later of which is
\* the last of the script.
LEMMA ChainsComplete ==
    ASSUME TypeOK
    PROVE  \E v4, v6 \in 3 .. Len(Script) :
              /\ v4 # v6 /\ (v4 = Len(Script) \/ v6 = Len(Script))
              /\ v4 = Last(cfg, "v4") /\ v6 = Last(cfg, "v6")
              /\ "v4" \in CompleteChains <=> v4 <= applied
              /\ "v6" \in CompleteChains <=> v6 <= applied
<1>1. cfg \in Config /\ applied \in Nat /\ Len(Script) = Total(cfg)
  <2>1. cfg \in Config /\ applied \in 0 .. Len(Script) /\ Len(Script) = Total(cfg)
    BY ScriptShape DEF TypeOK, Script
  <2> QED BY <2>1, Lengths
<1>2. /\ Last(cfg, "v4") \in 3 .. Len(Script) /\ Last(cfg, "v6") \in 3 .. Len(Script)
      /\ Last(cfg, "v4") # Last(cfg, "v6")
      /\ Last(cfg, "v4") = Len(Script) \/ Last(cfg, "v6") = Len(Script)
  BY <1>1, LastRules
<1>3. /\ "v4" \in CompleteChains <=> Last(cfg, "v4") <= applied
      /\ "v6" \in CompleteChains <=> Last(cfg, "v6") <= applied
  BY <1>1, ChainByPosition DEF CompleteChains
<1> QED BY <1>2, <1>3

\* At the start no chain is complete.
LEMMA NetnsInit == Init => Netns!Init
<1> SUFFICES ASSUME Init PROVE CompleteChains = {} /\ running = TRUE
  BY DEF Netns!Init, CompleteChains
<1>1. TypeOK
  BY FirewallInit DEF FirewallInv
<1>2. PICK v4, v6 \in 3 .. Len(Script) :
         /\ "v4" \in CompleteChains <=> v4 <= applied
         /\ "v6" \in CompleteChains <=> v6 <= applied
  BY <1>1, ChainsComplete
<1>3. applied = 0 /\ running = TRUE
  BY DEF Init
<1>4. "v4" \notin CompleteChains /\ "v6" \notin CompleteChains
  BY <1>2, <1>3
<1> QED BY <1>3, <1>4 DEF CompleteChains

\* A rule completes at most one chain, and the last rule completes the second.
LEMMA NetnsApply ==
    ASSUME FirewallInv, FirewallInv', ApplyRule
    PROVE  Netns!Complete \/ (CompleteChains' = CompleteChains /\ running' = running)
<1>1. /\ applied' = applied + 1 /\ running = TRUE /\ running' = (applied' < Len(Script))
      /\ cfg' = cfg /\ Script' = Script
  BY DEF ApplyRule, Script, FirewallInv, TypeOK
<1>2. applied \in Nat /\ applied < Len(Script) /\ Len(Script) \in Nat
  BY <1>1, ScriptShape, Lengths DEF FirewallInv, TypeOK, VerifiedInv, Script
<1>3. PICK v4, v6 \in 3 .. Len(Script) :
         /\ v4 # v6 /\ (v4 = Len(Script) \/ v6 = Len(Script))
         /\ v4 = Last(cfg, "v4") /\ v6 = Last(cfg, "v6")
         /\ "v4" \in CompleteChains <=> v4 <= applied
         /\ "v6" \in CompleteChains <=> v6 <= applied
  BY ChainsComplete DEF FirewallInv
<1>4. /\ "v4" \in CompleteChains' <=> v4 <= applied + 1
      /\ "v6" \in CompleteChains' <=> v6 <= applied + 1
  <2>1. cfg' \in Config /\ applied' \in Nat
    BY <1>1, <1>2 DEF FirewallInv, TypeOK
  <2>2. ASSUME NEW f \in {"v4", "v6"} PROVE ChainComplete(f)' <=> Last(cfg, f) <= applied'
    <3>1. cfg \in Config
      BY DEF FirewallInv, TypeOK
    <3>2. /\ Len(Script) = Total(cfg) /\ Total(cfg) \in Nat
          /\ Last(cfg, f) \in 1 .. Total(cfg) /\ Script[Last(cfg, f)].fam = f
          /\ \A i \in 1 .. Total(cfg) : Script[i].fam = f => i <= Last(cfg, f)
      BY <3>1, ScriptEnds
    <3> QED BY <1>1, <2>1, <3>2 DEF ChainComplete
  <2> QED BY <1>1, <1>3, <2>2 DEF CompleteChains
<1>5. CompleteChains \subseteq {"v4", "v6"} /\ CompleteChains' \subseteq {"v4", "v6"}
  BY DEF CompleteChains
<1>6. /\ "v4" \in CompleteChains => "v4" \in CompleteChains'
      /\ "v6" \in CompleteChains => "v6" \in CompleteChains'
      /\ ~("v4" \in CompleteChains' \ CompleteChains /\ "v6" \in CompleteChains' \ CompleteChains)
      /\ running' <=> ~("v4" \in CompleteChains' /\ "v6" \in CompleteChains')
  <2>1. /\ v4 <= applied => v4 <= applied + 1
        /\ v6 <= applied => v6 <= applied + 1
        /\ ~(v4 <= applied + 1 /\ ~(v4 <= applied) /\ v6 <= applied + 1 /\ ~(v6 <= applied))
        /\ applied + 1 < Len(Script) <=> ~(v4 <= applied + 1 /\ v6 <= applied + 1)
    BY <1>2, <1>3
  <2>2. running' <=> applied + 1 < Len(Script)
    BY <1>1
  <2> QED BY <1>3, <1>4, <2>1, <2>2, Zenon
<1>7. running' = (CompleteChains' # {"v4", "v6"})
  <2>1. CompleteChains' # {"v4", "v6"} <=> ~("v4" \in CompleteChains' /\ "v6" \in CompleteChains')
    BY <1>5
  <2>2. running' \in BOOLEAN
    BY DEF FirewallInv, TypeOK
  <2> QED BY <1>6, <2>1, <2>2
<1>8. CASE CompleteChains' = CompleteChains
  <2>1. applied + 1 < Len(Script)
    <3>1. ~(v4 <= applied + 1 /\ ~(v4 <= applied)) /\ ~(v6 <= applied + 1 /\ ~(v6 <= applied))
      BY <1>3, <1>4, <1>8, Zenon
    <3> QED BY <1>2, <1>3, <3>1
  <2> QED BY <1>1, <1>8, <2>1
<1>9. CASE CompleteChains' # CompleteChains
  <2>1. \E f \in {"v4", "v6"} \ CompleteChains : CompleteChains' = CompleteChains \cup {f}
    <3>1. CASE "v4" \in CompleteChains' \ CompleteChains
      <4>1. CompleteChains' = CompleteChains \cup {"v4"}
        BY <1>5, <1>6, <3>1
      <4> QED BY <3>1, <4>1
    <3>2. CASE "v6" \in CompleteChains' \ CompleteChains
      <4>1. CompleteChains' = CompleteChains \cup {"v6"}
        BY <1>5, <1>6, <3>2
      <4> QED BY <3>2, <4>1
    <3>3. CASE CompleteChains' \subseteq CompleteChains
      BY <1>5, <1>6, <1>9, <3>3
    <3> QED BY <1>5, <3>1, <3>2, <3>3
  <2> QED BY <1>1, <1>7, <2>1 DEF Netns!Complete, Netns!Families, CompleteChains
<1> QED BY <1>8, <1>9

\* Every step of the script is a step of the abstract firewall, or none.
LEMMA NetnsStep ==
    FirewallInv /\ FirewallInv' /\ [Next]_vars => [Netns!Next]_<<CompleteChains, running>>
<1> SUFFICES ASSUME FirewallInv, FirewallInv', [Next]_vars
             PROVE  Netns!Next \/ (CompleteChains' = CompleteChains /\ running' = running)
  OBVIOUS
<1>1. CASE ApplyRule
  BY <1>1, NetnsApply DEF Netns!Next
<1>2. ASSUME UNCHANGED <<cfg, applied>> PROVE CompleteChains' = CompleteChains
  BY <1>2 DEF CompleteChains, ChainComplete, Script
<1>3. CASE RuleFails
  <2>1. running /\ running' = FALSE /\ CompleteChains' = CompleteChains
    BY <1>2, <1>3 DEF RuleFails
  <2> QED BY <2>1, Zenon DEF Netns!Next, Netns!StopShort, CompleteChains
<1>4. CASE Restart
  <2>1. applied' = 0 /\ running' = TRUE /\ cfg' = cfg /\ Script' = Script
    BY <1>4 DEF Restart, Script
  <2>2. cfg \in Config
    BY DEF FirewallInv, TypeOK
  <2>3. ASSUME NEW f \in {"v4", "v6"} PROVE ~ChainComplete(f)'
    <3>1. /\ Len(Script) = Total(cfg) /\ Total(cfg) \in Nat
          /\ Last(cfg, f) \in 1 .. Total(cfg) /\ Script[Last(cfg, f)].fam = f
      BY <2>2, ScriptEnds
    <3> QED BY <2>1, <3>1 DEF ChainComplete
  <2>4. CompleteChains' = {}
    BY <2>3 DEF CompleteChains
  <2> QED BY <2>1, <2>4 DEF Netns!Next, Netns!Restart, CompleteChains
<1>5. CASE ProbeV4 \/ ProbeV6 \/ UNCHANGED vars
  BY <1>2, <1>5 DEF ProbeV4, ProbeV6, vars
<1> QED BY <1>1, <1>3, <1>4, <1>5 DEF Next

(***************************************************************************)
(* The script, its failures and its restarts implement the abstract        *)
(* firewall: JailLifecycle may see the chains of a netns as two bits.      *)
(***************************************************************************)
THEOREM NetnsSpecHolds == Spec => NetnsSpec
<1>1. Init => Netns!Init
  BY NetnsInit
<1>2. FirewallInv /\ FirewallInv' /\ [Next]_vars
          => [Netns!Next]_<<{f \in {"v4", "v6"} : ChainComplete(f)}, running>>
  BY NetnsStep DEF CompleteChains
<1> QED BY <1>1, <1>2, FirewallInvariant, PTL DEF Spec, NetnsSpec, Netns!Spec
=============================================================================
