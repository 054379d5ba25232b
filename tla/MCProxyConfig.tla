--------------------------- MODULE MCProxyConfig ----------------------------
(* ProxyConfig for TLC: addresses of four bits, with the private ranges 1000/2
   and 0100/3, the host's loopback 0010/3, and public space around them. *)
EXTENDS ProxyConfig, TLC

Symmetry == Permutations(Setups)

(* A state without what no later step and no invariant reads: a setup that is
   past its write has no use for what it read, and one that chooses again none
   for what it chose before.  Nothing reads the mode. *)
Live(s) ==
    CASE pc[s] = "choose" -> <<existing[s], sole[s]>>
      [] pc[s] = "confirm" -> <<existing[s], sole[s], chosen[s]>>
      [] pc[s] = "write" -> <<existing[s].allow, chosen[s]>>
      [] OTHER -> <<>>
(* The user's list is of interest until an outdated setup has written. *)
LivePast ==
    IF \A s \in outdated : pc[s] \in {"choose", "confirm", "ended"}
    THEN <<mine, {s \in outdated : pc[s] # "ended"}>> ELSE <<>>
View == <<file, author, pc, edits, LivePast, [s \in Setups |-> Live(s)]>>

Proxy(scheme, host, port, auth) ==
    [scheme |-> scheme, host |-> host, port |-> port, auth |-> auth]

(* Three that can be saved, two of them detectable, and one for each reason a
   proxy is refused. *)
MCURLs ==
    {Proxy("socks5h", "loopback", 2, FALSE), Proxy("socks5h", "loopback", 4, FALSE),
     Proxy("socks5h", "remote", 4, FALSE), Proxy("socks5h", "loopback", 4, TRUE),
     Proxy("socks5", "loopback", 4, FALSE), Proxy("socks5h", "loopback", 0, FALSE)}

Range2(first, prefix) == [ip |-> first, len |-> prefix]
MCPrivateRanges == {Range2(8, 2), Range2(4, 3)}
MCHostLoopback == Range2(2, 3)

Allowed(address, port) ==
    [host |-> [kind |-> "ip", ip |-> address, len |-> Bits], port |-> port]

(* None; the host's loopback at a port proxies are on; a public address, which
   does not parse. *)
MCAllowLists == {{}, {Allowed(3, 4)}, {Allowed(15, 2)}}
=============================================================================
