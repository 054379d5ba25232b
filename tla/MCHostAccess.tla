---------------------------- MODULE MCHostAccess ----------------------------
(* HostAccess for TLC, with a socket on the IPv4 loopback, one on that of a socket
   of both families, and one on an IPv6 address, no two bytes of which are in place
   by accident. *)
EXTENDS HostAccess

Socket(isV6, addr, port, loopback) ==
    [v6 |-> isV6, addr |-> addr, port |-> port, loopback |-> loopback]

MCSocks ==
    {Socket(FALSE, <<127, 0, 0, 1>>, 3001, TRUE),
     Socket(TRUE, [i \in 1 .. 16 |-> CASE i < 11 -> 0 [] i < 13 -> 255
                                        [] i = 13 -> 127 [] OTHER -> i], 3001, TRUE),
     Socket(TRUE, [i \in 1 .. 16 |-> i], 8080, FALSE)}

(* The forwards have not begun, or the listing has read nothing and there is no
   socket.  The two verbs share nothing but the jail that stops and starts under both,
   so a state in which both are under way says no more of either than these do. *)
NoForward == \A p \in Fwds : fpc[p] = "start" /\ ~cancelled[p]
NoListing ==
    /\ lpc \in {"start", "ended"} /\ v4 = {} /\ during = {}
    /\ \A s \in Socks : sock[s] = "closed"
OneVerb == NoForward \/ NoListing
=============================================================================
