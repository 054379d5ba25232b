---------------------------- MODULE DnsForwarder ----------------------------
(* netcage-dns, the DNS forwarder inside the jail's network namespace:
   internal/dnsforwarder/dnsforwarder.go, started by cmd/netcage-dns.

   One goroutine reads UDP datagrams and one accepts TCP connections; every
   datagram and every connection gets a goroutine of its own (a task), which
   opens a connection to the SOCKS proxy for each message it resolves.  The
   goroutines share one read buffer, the two listeners and the descriptors of
   the process.

   A DNS message is <<t, i>>: the i-th message of task t.  The resolver's answer
   to a message names the message it was given.  The client, the proxy and the
   resolver may be silent for ever: only the forwarder's own steps and its
   deadlines are fair. *)
EXTENDS Naturals, FiniteSets, Sequences

CONSTANTS
    UdpQueries,     \* the datagrams clients send, each a task
    TcpConns,       \* the connections clients open, each a task
    MaxMsgs,        \* bound: messages a client sends on one connection
    MaxFds          \* descriptors the process may hold for its sockets

Tasks == UdpQueries \union TcpConns

Listeners == {<<"listen", "udp">>, <<"listen", "tcp">>}
Conn(t) == <<"conn", t>>         \* the accepted connection of task t
Up(t) == <<"up", t>>             \* its connection to the SOCKS proxy

Messages == Tasks \X (1 .. MaxMsgs)
NoMessage == <<>>

ASSUME ForwarderAssumption ==
    /\ UdpQueries \intersect TcpConns = {}
    /\ MaxMsgs \in Nat \ {0}
    /\ MaxFds \in Nat /\ MaxFds >= Cardinality(Listeners)

VARIABLES
    stage,      \* [Tasks -> STRING]: where the task's goroutine is
    asked,      \* [Tasks -> Nat]: messages the forwarder read from the client
    buf,        \* the last datagram read, in serveUDP's buffer
    query,      \* [Tasks -> message]: the message the goroutine holds
    sent,       \* [Tasks -> message]: the message written to the resolver
    late,       \* [Tasks -> BOOLEAN]: the client connection's deadline has passed
    delivered,  \* [Tasks -> Seq(message)]: the answers written to the client
    fds,        \* the sockets the process has open
    udpLoop,    \* serveUDP runs
    tcpLoop,    \* serveTCP runs
    done        \* ctx is done, or Close was called

tasks == <<stage, asked, query, sent, late, delivered>>
vars == <<stage, asked, buf, query, sent, late, delivered, fds,
          udpLoop, tcpLoop, done>>

Stages == {"none", "queued", "backlog", "reading", "dial", "dialling",
           "await", "reply", "ended"}

(* Start: both listeners are bound before anything is served. *)
Init ==
    /\ stage = [t \in Tasks |-> "none"]
    /\ asked = [t \in Tasks |-> 0]
    /\ buf = NoMessage
    /\ query = [t \in Tasks |-> NoMessage]
    /\ sent = [t \in Tasks |-> NoMessage]
    /\ late = [t \in Tasks |-> FALSE]
    /\ delivered = [t \in Tasks |-> <<>>]
    /\ fds = Listeners
    /\ udpLoop = TRUE
    /\ tcpLoop = TRUE
    /\ done = FALSE

FdFree == Cardinality(fds) < MaxFds

Goto(t, s) == stage' = [stage EXCEPT ![t] = s]

(* The deferred Closes: whatever ends a task closes what it opened. *)
CloseAll_LeaksOnError(t) == fds' = fds \ {Up(t)}
CloseAll(t) == fds' = fds \ {Conn(t), Up(t)}

(* A task ends: the goroutine returns and answers nothing more. *)
End(t) ==
    /\ Goto(t, "ended")
    /\ CloseAll(t)
    /\ UNCHANGED <<asked, buf, query, sent, late, delivered, udpLoop, tcpLoop,
                   done>>

-----------------------------------------------------------------------------
(* The clients, through the kernel. *)

(* A datagram waits in the UDP socket's buffer. *)
SendDatagram(q) ==
    /\ stage[q] = "none"
    /\ <<"listen", "udp">> \in fds
    /\ Goto(q, "queued")
    /\ UNCHANGED <<asked, buf, query, sent, late, delivered, fds, udpLoop,
                   tcpLoop, done>>

(* A connection waits in the TCP listener's backlog; no descriptor yet. *)
Connect(c) ==
    /\ stage[c] = "none"
    /\ <<"listen", "tcp">> \in fds
    /\ Goto(c, "backlog")
    /\ UNCHANGED <<asked, buf, query, sent, late, delivered, fds, udpLoop,
                   tcpLoop, done>>

(* The client closes its connection while the forwarder reads from it. *)
ClientCloses(c) ==
    /\ stage[c] = "reading"
    /\ End(c)

-----------------------------------------------------------------------------
(* serveUDP reads on, whatever the goroutines it started are doing. *)
Serving_Inline ==
    /\ udpLoop /\ <<"listen", "udp">> \in fds
    /\ \A q \in UdpQueries : stage[q] \in {"none", "queued", "ended"}
Serving == udpLoop /\ <<"listen", "udp">> \in fds

(* The datagram is read into the shared buffer and copied for the goroutine that
   resolves it. *)
ReadFrom(q) ==
    /\ Serving
    /\ stage[q] = "queued"
    /\ buf' = <<q, 1>>
    /\ query' = [query EXCEPT ![q] = <<q, 1>>]
    /\ asked' = [asked EXCEPT ![q] = 1]
    /\ Goto(q, "dial")
    /\ UNCHANGED <<sent, late, delivered, fds, udpLoop, tcpLoop, done>>

(* ReadFrom fails: the listener was closed. *)
UdpLoopEnds ==
    /\ udpLoop /\ <<"listen", "udp">> \notin fds
    /\ udpLoop' = FALSE
    /\ UNCHANGED <<tasks, buf, fds, tcpLoop, done>>

(* serveTCP: an accepted connection gets a goroutine, which arms the deadline
   and reads. *)
Accept(c) ==
    /\ tcpLoop /\ <<"listen", "tcp">> \in fds
    /\ stage[c] = "backlog"
    /\ FdFree
    /\ fds' = fds \union {Conn(c)}
    /\ Goto(c, "reading")
    /\ UNCHANGED <<asked, buf, query, sent, late, delivered, udpLoop, tcpLoop,
                   done>>

(* Accept fails, and serveTCP returns on every error: the listener was closed,
   or a connection waits and the process is out of descriptors. *)
TcpLoopEnds ==
    /\ tcpLoop
    /\ \/ <<"listen", "tcp">> \notin fds
       \/ ~FdFree /\ \E c \in TcpConns : stage[c] = "backlog"
    /\ tcpLoop' = FALSE
    /\ UNCHANGED <<tasks, buf, fds, udpLoop, done>>

(* handleTCPConn: the next message, read before the deadline. *)
ReadMessage(c) ==
    /\ stage[c] = "reading"
    /\ asked[c] < MaxMsgs
    /\ asked' = [asked EXCEPT ![c] = @ + 1]
    /\ query' = [query EXCEPT ![c] = <<c, asked[c] + 1>>]
    /\ Goto(c, "dial")
    /\ UNCHANGED <<buf, sent, late, delivered, fds, udpLoop, tcpLoop, done>>

(* The deadline armed at the top of handleTCPConn's loop passes.  A read ends
   with an error; a goroutine busy upstream finds out when it writes. *)
ConnDeadline(c) ==
    \/ stage[c] = "reading" /\ End(c)
    \/ /\ stage[c] \in {"dial", "dialling", "await", "reply"}
       /\ ~late[c]
       /\ late' = [late EXCEPT ![c] = TRUE]
       /\ UNCHANGED <<stage, asked, buf, query, sent, delivered, fds, udpLoop,
                      tcpLoop, done>>

-----------------------------------------------------------------------------
(* resolveViaSOCKS: the query the goroutine writes is its own copy. *)
QueryOf_SharedBuffer(t) == IF t \in UdpQueries THEN buf ELSE query[t]
QueryOf(t) == query[t]

(* Dial opens a socket, or fails for want of a descriptor: the query is dropped. *)
Dial(t) ==
    \/ /\ FdFree
       /\ Goto(t, "dialling")
       /\ fds' = fds \union {Up(t)}
       /\ UNCHANGED <<asked, buf, query, sent, late, delivered, udpLoop,
                      tcpLoop, done>>
    \/ ~FdFree /\ End(t)

StartDial(t) == stage[t] = "dial" /\ Dial(t)

(* The CONNECT succeeded: the deadline is armed and the query written. *)
Established(t) ==
    /\ stage[t] = "dialling"
    /\ sent' = [sent EXCEPT ![t] = QueryOf(t)]
    /\ Goto(t, "await")
    /\ UNCHANGED <<asked, buf, query, late, delivered, fds, udpLoop, tcpLoop,
                   done>>

(* The proxy refuses, or the proxy or the resolver closes the connection: the
   query is dropped and never asked of anyone else. *)
UpstreamError(t) ==
    /\ stage[t] \in {"dialling", "await"}
    /\ End(t)

(* The upstream deadline is armed once Dial has returned, and not during it. *)
Timed_NotArmed(t) == FALSE
Timed(t) == stage[t] = "await"

UpstreamDeadline(t) == Timed(t) /\ End(t)

(* The resolver's answer, after which resolveViaSOCKS closes its connection. *)
Answered(t) ==
    /\ stage[t] = "await"
    /\ fds' = fds \ {Up(t)}
    /\ Goto(t, "reply")
    /\ UNCHANGED <<asked, buf, query, sent, late, delivered, udpLoop, tcpLoop,
                   done>>

-----------------------------------------------------------------------------
(* The answer goes to the client's address; nothing tells whether it arrives,
   and a closed listener is an error nobody reads. *)
ReplyUDP(q) ==
    /\ stage[q] = "reply"
    /\ delivered' = IF <<"listen", "udp">> \in fds
                    THEN [delivered EXCEPT ![q] = Append(@, sent[q])]
                    ELSE delivered
    /\ Goto(q, "ended")
    /\ UNCHANGED <<asked, buf, query, sent, late, fds, udpLoop, tcpLoop, done>>

(* The answer is written to the client's connection in time, and the loop starts
   over with a new deadline; or the write fails, as it does after the deadline. *)
ReplyTCP(c) ==
    /\ stage[c] = "reply"
    /\ \/ /\ ~late[c]
          /\ delivered' = [delivered EXCEPT ![c] = Append(@, sent[c])]
          /\ Goto(c, "reading")
          /\ UNCHANGED <<asked, buf, query, sent, late, fds, udpLoop, tcpLoop,
                         done>>
       \/ End(c)

(* ctx is done, or Close is called: both listeners are closed, which loses what
   waits in them.  The connections accepted so far are served on. *)
Stop ==
    /\ ~done
    /\ done' = TRUE
    /\ fds' = fds \ Listeners
    /\ stage' = [t \in Tasks |->
                   IF stage[t] \in {"queued", "backlog"} THEN "ended"
                   ELSE stage[t]]
    /\ UNCHANGED <<asked, buf, query, sent, late, delivered, udpLoop, tcpLoop>>

Finished ==
    /\ \A t \in Tasks : stage[t] \in {"none", "ended"}
    /\ done /\ ~udpLoop /\ ~tcpLoop
    /\ UNCHANGED vars

Task(t) ==
    \/ StartDial(t) \/ Established(t) \/ UpstreamError(t)
    \/ UpstreamDeadline(t) \/ Answered(t)

Next ==
    \/ \E q \in UdpQueries : SendDatagram(q) \/ ReadFrom(q) \/ ReplyUDP(q)
    \/ \E c \in TcpConns :
         \/ Connect(c) \/ ClientCloses(c) \/ Accept(c) \/ ReadMessage(c)
         \/ ConnDeadline(c) \/ ReplyTCP(c)
    \/ \E t \in Tasks : Task(t)
    \/ UdpLoopEnds \/ TcpLoopEnds \/ Stop \/ Finished

Spec == Init /\ [][Next]_vars

(* A goroutine that can run does, and a deadline that is armed passes.  Nothing
   is fair about the client, the proxy and the resolver. *)
FairSpec ==
    /\ Spec
    /\ \A t \in Tasks : WF_vars(StartDial(t)) /\ WF_vars(UpstreamDeadline(t))
    /\ \A q \in UdpQueries : WF_vars(ReadFrom(q)) /\ WF_vars(ReplyUDP(q))
    /\ \A c \in TcpConns :
         WF_vars(Accept(c)) /\ WF_vars(ConnDeadline(c)) /\ WF_vars(ReplyTCP(c))
    /\ WF_vars(TcpLoopEnds)

-----------------------------------------------------------------------------
(* The types, and the limit on descriptors, which every socket that is opened
   has to respect. *)
TypeOK ==
    /\ stage \in [Tasks -> Stages]
    /\ asked \in [Tasks -> 0 .. MaxMsgs]
    /\ buf \in Messages \union {NoMessage}
    /\ query \in [Tasks -> Messages \union {NoMessage}]
    /\ sent \in [Tasks -> Messages \union {NoMessage}]
    /\ late \in [Tasks -> BOOLEAN]
    /\ delivered \in [Tasks -> Seq(Messages)]
    /\ fds \subseteq Listeners \union {Conn(t) : t \in TcpConns}
                     \union {Up(t) : t \in Tasks}
    /\ Cardinality(fds) <= MaxFds
    /\ udpLoop \in BOOLEAN /\ tcpLoop \in BOOLEAN /\ done \in BOOLEAN

(* Every client receives the answers to its own questions, each once, in the
   order asked, whatever other goroutines read into the shared buffer while this
   one dials (serveUDP, handleTCPConn, resolveViaSOCKS). *)
OwnAnswers ==
    \A t \in Tasks :
        /\ Len(delivered[t]) <= asked[t]
        /\ \A i \in DOMAIN delivered[t] : delivered[t][i] = <<t, i>>

(* The process holds exactly the listeners, the connections whose goroutine still
   runs, and the upstream connections in use: no error, deadline or refused dial
   leaks a descriptor (the deferred Closes of handleTCPConn and
   resolveViaSOCKS). *)
NoLeakedSocket ==
    fds = {l \in Listeners : ~done}
          \union {Conn(c) : c \in {d \in TcpConns :
                    stage[d] \in {"reading", "dial", "dialling", "await",
                                  "reply"}}}
          \union {Up(t) : t \in {u \in Tasks : stage[u] \in {"dialling", "await"}}}

(* Neither a silent client nor a silent resolver keeps a goroutine, and with it
   a descriptor, for ever: each ends, unless the proxy itself never answers the
   dial, which has no deadline (SetDeadline in handleTCPConn and
   resolveViaSOCKS). *)
NoStall ==
    \A t \in Tasks :
        stage[t] \in {"reading", "dial", "await", "reply"}
            ~> stage[t] \in {"dialling", "ended"}

(* Nobody waits in vain: a datagram is read although earlier queries hang in a
   proxy that never answers, although there is no descriptor left and although
   serveTCP has given up; a connection is accepted, unless serveTCP has given up,
   which it does for good when it runs out of descriptors (serveUDP, serveTCP). *)
Served ==
    /\ \A q \in UdpQueries : stage[q] = "queued" ~> stage[q] # "queued"
    /\ \A c \in TcpConns : stage[c] = "backlog" ~> stage[c] # "backlog" \/ ~tcpLoop
=============================================================================
