----------------------------- MODULE HostAccess -----------------------------
(* The two verbs that look into a jail from the host: netcage forward, a socat
   listener on the host whose forked children relay each connection into the
   jail, and netcage ports, a listing of the jail's listening TCP sockets.

   Sources: internal/forward/forward.go, internal/ports/ports.go and procnet.go,
   internal/jail/resolve.go, and ExecRunner.Run of internal/jail/jail.go.

   Both check the jail and then use it through podman exec into the sidecar,
   while the jail goes on: its tool and its sidecar stop and start, and its
   sockets come and go.  A sidecar that starts again has a new, empty network
   namespace. *)
EXTENDS Naturals, Sequences, FiniteSets

CONSTANTS
    Fwds,           \* processes of netcage forward, all on one host port
    Conns,          \* connections of clients on the host
    Socks,          \* a set of [v6, addr, port, loopback]: sockets of the jail;
                    \* addr is the sequence of bytes, the most significant first
    MaxRestarts     \* bound: starts of the sidecar

Ports == 0 .. 65535

(* The addresses only the host itself reaches: 127.0.0.0/8, ::1, and the former
   written as an IPv6 address. *)
Loopback4(addr) == addr[1] = 127
Loopback6(addr) ==
    \/ addr[16] = 1 /\ \A i \in 1 .. 15 : addr[i] = 0
    \/ /\ \A i \in 1 .. 10 : addr[i] = 0
       /\ addr[11] = 255 /\ addr[12] = 255 /\ addr[13] = 127

ASSUME HostAssumption ==
    /\ \A s \in Socks :
         /\ s.v6 \in BOOLEAN
         /\ s.addr \in Seq(0 .. 255)
         /\ ~s.v6 => Len(s.addr) = 4 /\ s.loopback = Loopback4(s.addr)
         /\ s.v6 => Len(s.addr) = 16 /\ s.loopback = Loopback6(s.addr)
         /\ s.port \in Ports
    /\ MaxRestarts \in Nat

ASSUME NamesAssumption == {"none", "closed"} \intersect Fwds = {}

VARIABLES
    sidecar, tool,  \* the containers run
    restarts,
    sock,           \* [Socks -> {"closed", "listen", "connected"}]: the sockets in
                    \* the sidecar's network namespace
    fpc,            \* [Fwds -> STRING]: where each forward is
    cancelled,      \* [Fwds -> BOOLEAN]: SIGINT or SIGTERM reached netcage
    listening,      \* [Fwds -> BOOLEAN]: its socat listens on the host port
    conn,           \* [Conns -> forward, "none" or "closed"]: whose relay it has
    lpc,            \* where the listing is
    v4, v6,         \* the rows it read
    reported,       \* the listeners it reports
    during,         \* the sockets that listened at some moment of it
    throughout      \* those that listened at every moment of it

jail == <<sidecar, tool, restarts, sock>>
fwd == <<fpc, cancelled, listening, conn>>
listing == <<lpc, v4, v6, reported, during, throughout>>
vars == <<jail, fwd, listing>>

Init ==
    /\ sidecar = TRUE /\ tool = TRUE
    /\ restarts = 0
    /\ sock = [s \in Socks |-> "closed"]
    /\ fpc = [p \in Fwds |-> "start"]
    /\ cancelled = [p \in Fwds |-> FALSE]
    /\ listening = [p \in Fwds |-> FALSE]
    /\ conn = [c \in Conns |-> "none"]
    /\ lpc = "start"
    /\ v4 = {} /\ v6 = {} /\ reported = {}
    /\ during = {} /\ throughout = {}

Relays(p) == {c \in Conns : conn[c] = p}

-----------------------------------------------------------------------------
(* The jail.  A listing that is under way sees its sockets change. *)
Observe(next) ==
    LET open == {s \in Socks : next[s] = "listen"} IN
        IF lpc \in {"start", "ended"} THEN UNCHANGED <<during, throughout>>
        ELSE /\ during' = during \union open
             /\ throughout' = throughout \intersect open

SetSocks(next) ==
    /\ sock' = next
    /\ Observe(next)
    /\ UNCHANGED <<fwd, lpc, v4, v6, reported>>

(* A process of the jail listens, connects or closes. *)
SockChanges(s) ==
    /\ sidecar
    /\ \E state \in {"closed", "listen", "connected"} \ {sock[s]} :
         SetSocks([sock EXCEPT ![s] = state])
    /\ UNCHANGED <<sidecar, tool, restarts>>

SidecarStops ==
    /\ sidecar
    /\ sidecar' = FALSE
    /\ SetSocks([s \in Socks |-> "closed"])
    /\ UNCHANGED <<tool, restarts>>

SidecarStarts ==
    /\ ~sidecar
    /\ restarts < MaxRestarts
    /\ restarts' = restarts + 1
    /\ sidecar' = TRUE
    /\ UNCHANGED <<tool, sock, fwd, listing>>

ToolStops ==
    /\ tool
    /\ tool' = FALSE
    /\ UNCHANGED <<sidecar, restarts, sock, fwd, listing>>

-----------------------------------------------------------------------------
(* netcage forward. *)
FGoto(p, s) == fpc' = [fpc EXCEPT ![p] = s]

Interrupt(p) ==
    /\ fpc[p] \notin {"ended", "killed"}
    /\ ~cancelled[p]
    /\ cancelled' = [cancelled EXCEPT ![p] = TRUE]
    /\ UNCHANGED <<jail, fpc, listening, conn, listing>>

(* SIGKILL of netcage alone: what it started goes on. *)
Kill(p) ==
    /\ fpc[p] \notin {"ended", "killed"}
    /\ FGoto(p, "killed")
    /\ UNCHANGED <<jail, cancelled, listening, conn, listing>>

(* ResolveManagedRun, requireToolRunning and requireConnector, one podman call
   each, which fails when the context is cancelled or podman does. *)
Check(p, at, holds, next) ==
    /\ fpc[p] = at
    /\ \/ holds /\ ~cancelled[p] /\ FGoto(p, next)
       \/ FGoto(p, "ended")
    /\ UNCHANGED <<jail, cancelled, listening, conn, listing>>

Resolve(p) == Check(p, "start", TRUE, "tool")
RequireToolRunning(p) == Check(p, "tool", tool, "connector")
RequireConnector(p) == Check(p, "connector", sidecar, "listen")

(* socat is started, unless the context is done, and binds the host port, which
   only one socat can hold; or it ends at once, when the port is in use. *)
StartSocat(p) ==
    /\ fpc[p] = "listen"
    /\ \/ cancelled[p] /\ FGoto(p, "ended") /\ UNCHANGED listening
       \/ /\ ~cancelled[p]
          /\ \A q \in Fwds : ~listening[q]
          /\ listening' = [listening EXCEPT ![p] = TRUE]
          /\ FGoto(p, "relaying")
       \/ /\ ~cancelled[p]
          /\ FGoto(p, "waiting")
          /\ UNCHANGED listening
    /\ UNCHANGED <<jail, cancelled, conn, listing>>

(* A client connects: socat forks, and its child execs nc in the sidecar. *)
Connect(c, p) ==
    /\ listening[p]
    /\ conn[c] = "none"
    /\ conn' = [conn EXCEPT ![c] = p]
    /\ UNCHANGED <<jail, fpc, cancelled, listening, listing>>

(* A relay ends: the client or the server closes, there is no server, or the
   sidecar is gone. *)
RelayEnds(c) ==
    /\ conn[c] \in Fwds
    /\ conn' = [conn EXCEPT ![c] = "closed"]
    /\ UNCHANGED <<jail, fpc, cancelled, listening, listing>>

KilledByContext_Detached(p) == FALSE
(* exec.CommandContext kills socat, and only socat, when the context is done. *)
KilledByContext(p) == cancelled[p]

SocatKilled(p) ==
    /\ fpc[p] = "relaying"
    /\ KilledByContext(p)
    /\ listening' = [listening EXCEPT ![p] = FALSE]
    /\ FGoto(p, "waiting")
    /\ UNCHANGED <<jail, cancelled, conn, listing>>

(* socat's parent process dies of its own, or of somebody's signal. *)
SocatDies(p) ==
    /\ listening[p]
    /\ listening' = [listening EXCEPT ![p] = FALSE]
    /\ IF fpc[p] = "relaying" THEN FGoto(p, "waiting") ELSE UNCHANGED fpc
    /\ UNCHANGED <<jail, cancelled, conn, listing>>

PipesClosed_ParentOnly(p) == TRUE
(* cmd.Run returns once the pipes of stdout and stderr are closed, which the
   children of socat hold too. *)
PipesClosed(p) == Relays(p) = {}

ForwardEnds(p) ==
    /\ fpc[p] = "waiting"
    /\ PipesClosed(p)
    /\ FGoto(p, "ended")
    /\ UNCHANGED <<jail, cancelled, listening, conn, listing>>

-----------------------------------------------------------------------------
(* The rows of /proc/net/tcp and tcp6.  The kernel prints each 32-bit word of an
   address as a number of the host's, whose bytes are in memory the least
   significant first; a port is printed as a number. *)
SwapWords(bytes) ==
    [i \in DOMAIN bytes |-> bytes[4 * ((i - 1) \div 4) + 4 - ((i - 1) % 4)]]

Row(s, state) ==
    [local |-> SwapWords(s.addr), port |-> <<s.port \div 256, s.port % 256>>,
     st |-> IF state = "listen" THEN "0A" ELSE "01"]

ProcNet(isV6) == {Row(s, sock[s]) : s \in {r \in Socks : r.v6 = isV6
                                                 /\ sock[r] # "closed"}}

(* parseRow: only the rows that listen, each address read word by word. *)
DecodePort(bytes) == 256 * bytes[1] + bytes[2]

DecodeV4(bytes) == <<bytes[4], bytes[3], bytes[2], bytes[1]>>

DecodeV6(bytes) ==
    [i \in 1 .. 16 |-> LET word == (i - 1) \div 4
                           byte == (i - 1) % 4
                       IN  bytes[4 * word + (4 - byte)]]

(* net.IP.To4: an IPv4 address mapped into IPv6 is that IPv4 address. *)
Mapped(ip) ==
    /\ Len(ip) = 16
    /\ SubSeq(ip, 1, 12) = [i \in 1 .. 12 |-> IF i < 11 THEN 0 ELSE 255]
To4(ip) == IF Mapped(ip) THEN SubSeq(ip, 13, 16) ELSE ip

(* net.IP.IsLoopback: 127.0.0.0/8, also when mapped, and ::1. *)
IsLoopback(ip) ==
    IF Len(To4(ip)) = 4 THEN To4(ip)[1] = 127
    ELSE ip = [i \in 1 .. 16 |-> IF i = 16 THEN 1 ELSE 0]

(* renderIP: the address is shown as the IPv4 address it may be. *)
Listener(ip, port) == [addr |-> To4(ip), port |-> port, loopback |-> IsLoopback(ip)]

Listens_AnyState(row) == TRUE
Listens(row) == row.st = "0A"

ParseProcNet_V4Only(rows4, rows6) ==
    {Listener(DecodeV4(r.local), DecodePort(r.port)) : r \in {q \in rows4 : Listens(q)}}
(* parseProcNetTCP: both families in one list. *)
ParseProcNet(rows4, rows6) ==
    {Listener(DecodeV4(r.local), DecodePort(r.port)) :
        r \in {q \in rows4 : Listens(q)}}
      \union {Listener(DecodeV6(r.local), DecodePort(r.port)) :
                r \in {q \in rows6 : Listens(q)}}

(* netcage ports resolves the run and requires the sidecar; from then on the
   listing is under way. *)
Begin ==
    /\ lpc = "start"
    /\ \/ lpc' = "ended" /\ UNCHANGED <<during, throughout>>
       \/ /\ sidecar
          /\ lpc' = "v4"
          /\ during' = {s \in Socks : sock[s] = "listen"}
          /\ throughout' = during'
    /\ UNCHANGED <<jail, fwd, v4, v6, reported>>

(* One podman exec per file, which fails without a sidecar; either failure ends
   the command with nothing reported. *)
ReadV4 ==
    /\ lpc = "v4"
    /\ \/ lpc' = "ended" /\ UNCHANGED v4
       \/ sidecar /\ lpc' = "v6" /\ v4' = ProcNet(FALSE)
    /\ UNCHANGED <<jail, fwd, v6, reported, during, throughout>>

ReadV6 ==
    /\ lpc = "v6"
    /\ \/ lpc' = "ended" /\ UNCHANGED v6
       \/ sidecar /\ lpc' = "render" /\ v6' = ProcNet(TRUE)
    /\ UNCHANGED <<jail, fwd, v4, reported, during, throughout>>

Render ==
    /\ lpc = "render"
    /\ reported' = ParseProcNet(v4, v6)
    /\ lpc' = "reported"
    /\ UNCHANGED <<jail, fwd, v4, v6, during, throughout>>

-----------------------------------------------------------------------------
Forward(p) ==
    \/ Resolve(p) \/ RequireToolRunning(p) \/ RequireConnector(p)
    \/ StartSocat(p) \/ SocatKilled(p) \/ ForwardEnds(p)

Finished ==
    /\ \A p \in Fwds : fpc[p] \in {"ended", "killed"}
    /\ lpc \in {"ended", "reported"}
    /\ UNCHANGED vars

Next ==
    \/ \E s \in Socks : SockChanges(s)
    \/ SidecarStops \/ SidecarStarts \/ ToolStops
    \/ \E p \in Fwds : Forward(p) \/ Interrupt(p) \/ Kill(p) \/ SocatDies(p)
    \/ \E c \in Conns : RelayEnds(c) \/ \E p \in Fwds : Connect(c, p)
    \/ Begin \/ ReadV4 \/ ReadV6 \/ Render
    \/ Finished

(* netcage's own steps are taken; the jail, the clients and the signals are not
   fair. *)
Spec == Init /\ [][Next]_vars /\ \A p \in Fwds : WF_vars(Forward(p))

-----------------------------------------------------------------------------
(* A socket as the listing is to show it: of both families, by its IPv4 address. *)
Shown(s) == [addr |-> To4(s.addr), port |-> s.port, loopback |-> s.loopback]

(* The types; what is reported are addresses and ports that exist in the jail. *)
TypeOK ==
    /\ sidecar \in BOOLEAN /\ tool \in BOOLEAN
    /\ restarts \in 0 .. MaxRestarts
    /\ sock \in [Socks -> {"closed", "listen", "connected"}]
    /\ fpc \in [Fwds -> {"start", "tool", "connector", "listen", "relaying",
                         "waiting", "ended", "killed"}]
    /\ cancelled \in [Fwds -> BOOLEAN]
    /\ listening \in [Fwds -> BOOLEAN]
    /\ conn \in [Conns -> Fwds \union {"none", "closed"}]
    /\ lpc \in {"start", "v4", "v6", "render", "reported", "ended"}
    /\ during \subseteq Socks /\ throughout \subseteq Socks
    /\ \A l \in reported : \E s \in Socks : l = Shown(s)

(* When the verb has returned nothing of it is left on the host: no listener and
   no relay of a connection, however it ended (ExecRunner.Run waits for the
   pipes that socat's children hold; forward.go:171-174). *)
NoResidue ==
    \A p \in Fwds : fpc[p] = "ended" => ~listening[p] /\ Relays(p) = {}

(* After Ctrl-C or SIGTERM the host port is given back and not taken again, also
   while connections are open and also when the signal came before the listener,
   unless netcage itself is killed first (forward.go:218-224). *)
InterruptUnbinds ==
    \A p \in Fwds : cancelled[p]
                        ~> [](~listening[p]) \/ fpc[p] = "killed"

(* Whatever the listing reports did listen while the command ran, with that
   address, port and scope: a socket that is merely connected is not reported,
   and neither is an address with its bytes in the wrong order. *)
ListingSound ==
    lpc = "reported" =>
        \A l \in reported : \E s \in during : l = Shown(s)

(* A socket that listened all the time is in the listing, of whichever family,
   though the two files are read one after the other and the sidecar may be
   restarted between them. *)
ListingComplete ==
    lpc = "reported" =>
        \A s \in throughout : Shown(s) \in reported
=============================================================================
