------------------------- MODULE DnsForwarderProofs -------------------------
(* The safety theorems of DnsForwarder: its types, that every client receives
   the answers to its own questions, and that no socket is leaked, for any
   number of datagrams, connections, messages and descriptors. *)
EXTENDS DnsForwarder, FiniteSetTheorems, TLAPS

-----------------------------------------------------------------------------
(* The inductive invariant, in four parts. *)

(* TypeOK without the limit on descriptors. *)
TypeInv ==
    /\ stage \in [Tasks -> Stages]
    /\ asked \in [Tasks -> 0 .. MaxMsgs]
    /\ buf \in Messages \union {NoMessage}
    /\ query \in [Tasks -> Messages \union {NoMessage}]
    /\ sent \in [Tasks -> Messages \union {NoMessage}]
    /\ late \in [Tasks -> BOOLEAN]
    /\ delivered \in [Tasks -> Seq(Messages)]
    /\ udpLoop \in BOOLEAN /\ tcpLoop \in BOOLEAN /\ done \in BOOLEAN

(* The last message a task read is the one it holds until it is written to the
   resolver, and the one it wrote from then on; all before it were answered. *)
AnswerInv == \A t \in Tasks :
    /\ stage[t] \in {"none", "queued", "backlog"} =>
         asked[t] = 0 /\ Len(delivered[t]) = 0
    /\ stage[t] = "reading" => Len(delivered[t]) = asked[t]
    /\ stage[t] \in {"dial", "dialling"} => query[t] = <<t, asked[t]>>
    /\ stage[t] \in {"await", "reply"} => sent[t] = <<t, asked[t]>>
    /\ stage[t] \in {"dial", "dialling", "await", "reply"} =>
         asked[t] \in 1 .. MaxMsgs /\ Len(delivered[t]) = asked[t] - 1

Sockets == Listeners \union {Conn(t) : t \in TcpConns} \union {Up(t) : t \in Tasks}

(* Which sockets are open, by who holds them. *)
SocketInv ==
    /\ fds \subseteq Sockets
    /\ \A l \in Listeners : l \in fds <=> ~done
    /\ \A t \in TcpConns :
         Conn(t) \in fds <=>
           stage[t] \in {"reading", "dial", "dialling", "await", "reply"}
    /\ \A t \in Tasks : Up(t) \in fds <=> stage[t] \in {"dialling", "await"}

(* The limit on descriptors. *)
CountInv == IsFiniteSet(fds) /\ Cardinality(fds) <= MaxFds

ForwarderInv == TypeInv /\ AnswerInv /\ OwnAnswers /\ SocketInv /\ CountInv

-----------------------------------------------------------------------------
(* What appending an answer does to the answers delivered. *)
LEMMA AppendAnswer ==
    ASSUME NEW S, NEW s \in Seq(S), NEW e \in S
    PROVE  /\ Append(s, e) \in Seq(S)
           /\ Len(Append(s, e)) = Len(s) + 1
           /\ \A i \in DOMAIN Append(s, e) :
                Append(s, e)[i] = IF i <= Len(s) THEN s[i] ELSE e
OBVIOUS

(* A reply on a connection is an answer to the message read last, or the end. *)
Replies(c) ==
    /\ delivered' = [delivered EXCEPT ![c] = Append(@, sent[c])]
    /\ Goto(c, "reading")
    /\ UNCHANGED <<asked, buf, query, sent, late, fds, udpLoop, tcpLoop, done>>

LEMMA ReplyCases ==
    ASSUME TypeInv, AnswerInv, NEW c \in TcpConns, ReplyTCP(c)
    PROVE  /\ c \in Tasks /\ stage[c] = "reply"
           /\ asked[c] \in 1 .. MaxMsgs /\ sent[c] = <<c, asked[c]>>
           /\ sent[c] \in Messages /\ Len(delivered[c]) = asked[c] - 1
           /\ Replies(c) \/ End(c)
<1>1. c \in Tasks /\ stage[c] = "reply"
  BY DEF ReplyTCP, Tasks
<1>2. asked[c] \in 1 .. MaxMsgs /\ sent[c] = <<c, asked[c]>> /\ Len(delivered[c]) = asked[c] - 1
  BY <1>1 DEF AnswerInv
<1>3. sent[c] \in Messages
  BY <1>1, <1>2 DEF Messages
<1>4. Replies(c) \/ End(c)
  BY DEF ReplyTCP, Replies
<1> QED BY <1>1, <1>2, <1>3, <1>4

(* Every step keeps the types. *)
LEMMA TypeStep ==
    ASSUME TypeInv, AnswerInv, [Next]_vars
    PROVE  TypeInv'
<1> USE ForwarderAssumption DEF TypeInv, AnswerInv, Stages, Tasks
<1>1. ASSUME NEW q \in UdpQueries, SendDatagram(q) PROVE TypeInv'
  BY <1>1 DEF SendDatagram, Goto
<1>2. ASSUME NEW q \in UdpQueries, ReadFrom(q) PROVE TypeInv'
  BY <1>2 DEF ReadFrom, Goto, Messages
<1>3. ASSUME NEW q \in UdpQueries, ReplyUDP(q) PROVE TypeInv'
  <2>1. sent[q] \in Messages
    BY <1>3 DEF ReplyUDP, Messages
  <2>2. \A s \in Seq(Messages) : Append(s, sent[q]) \in Seq(Messages)
    BY <2>1
  <2>3. delivered' \in [Tasks -> Seq(Messages)]
    BY <1>3, <2>2 DEF ReplyUDP
  <2> QED BY <1>3, <2>3 DEF ReplyUDP, Goto
<1>4. ASSUME NEW c \in TcpConns, Connect(c) PROVE TypeInv'
  BY <1>4 DEF Connect, Goto
<1>5. ASSUME NEW c \in TcpConns, ClientCloses(c) PROVE TypeInv'
  BY <1>5 DEF ClientCloses, End, CloseAll, Goto
<1>6. ASSUME NEW c \in TcpConns, Accept(c) PROVE TypeInv'
  BY <1>6 DEF Accept, Goto
<1>7. ASSUME NEW c \in TcpConns, ReadMessage(c) PROVE TypeInv'
  BY <1>7 DEF ReadMessage, Goto, Messages
<1>8. ASSUME NEW c \in TcpConns, ConnDeadline(c) PROVE TypeInv'
  BY <1>8 DEF ConnDeadline, End, CloseAll, Goto
<1>9. ASSUME NEW c \in TcpConns, ReplyTCP(c) PROVE TypeInv'
  <2>1. c \in Tasks /\ sent[c] \in Messages /\ (Replies(c) \/ End(c))
    BY <1>9, ReplyCases
  <2>2. CASE End(c)
    BY <2>2 DEF End, Goto
  <2>3. CASE Replies(c)
    <3>1. delivered[c] \in Seq(Messages)
      BY <2>1
    <3>2. Append(delivered[c], sent[c]) \in Seq(Messages)
      BY <2>1, <3>1, AppendAnswer
    <3> QED BY <2>3, <3>2 DEF Replies, Goto
  <2> QED BY <2>1, <2>2, <2>3
<1>10. ASSUME NEW t \in Tasks, StartDial(t) PROVE TypeInv'
  BY <1>10 DEF StartDial, Dial, End, CloseAll, Goto
<1>11. ASSUME NEW t \in Tasks, Established(t) PROVE TypeInv'
  BY <1>11 DEF Established, QueryOf, Goto
<1>12. ASSUME NEW t \in Tasks, UpstreamError(t) PROVE TypeInv'
  BY <1>12 DEF UpstreamError, End, CloseAll, Goto
<1>13. ASSUME NEW t \in Tasks, UpstreamDeadline(t) PROVE TypeInv'
  BY <1>13 DEF UpstreamDeadline, Timed, End, CloseAll, Goto
<1>14. ASSUME NEW t \in Tasks, Answered(t) PROVE TypeInv'
  BY <1>14 DEF Answered, Goto
<1>15. CASE UdpLoopEnds
  BY <1>15 DEF UdpLoopEnds, tasks
<1>16. CASE TcpLoopEnds
  BY <1>16 DEF TcpLoopEnds, tasks
<1>17. CASE Stop
  BY <1>17 DEF Stop
<1>18. CASE UNCHANGED vars
  BY <1>18 DEF vars, tasks
<1> QED
  BY <1>1, <1>2, <1>3, <1>4, <1>5, <1>6, <1>7, <1>8, <1>9, <1>10, <1>11, <1>12, <1>13, <1>14, <1>15, <1>16, <1>17, <1>18 DEF Next, Task, Finished

(* Every step keeps the books on questions and answers. *)
LEMMA AnswerStep ==
    ASSUME TypeInv, AnswerInv, OwnAnswers, [Next]_vars
    PROVE  (AnswerInv /\ OwnAnswers)'
<1> USE ForwarderAssumption DEF TypeInv, AnswerInv, OwnAnswers, Stages, Tasks
<1>1. ASSUME NEW q \in UdpQueries, SendDatagram(q) PROVE (AnswerInv /\ OwnAnswers)'
  BY <1>1 DEF SendDatagram, Goto
<1>2. ASSUME NEW q \in UdpQueries, ReadFrom(q) PROVE (AnswerInv /\ OwnAnswers)'
  BY <1>2 DEF ReadFrom, Goto, Messages
<1>3. ASSUME NEW q \in UdpQueries, ReplyUDP(q) PROVE (AnswerInv /\ OwnAnswers)'
  BY <1>3 DEF ReplyUDP, Goto
<1>4. ASSUME NEW c \in TcpConns, Connect(c) PROVE (AnswerInv /\ OwnAnswers)'
  BY <1>4 DEF Connect, Goto
<1>5. ASSUME NEW c \in TcpConns, ClientCloses(c) PROVE (AnswerInv /\ OwnAnswers)'
  BY <1>5 DEF ClientCloses, End, CloseAll, Goto
<1>6. ASSUME NEW c \in TcpConns, Accept(c) PROVE (AnswerInv /\ OwnAnswers)'
  BY <1>6 DEF Accept, Goto
<1>7. ASSUME NEW c \in TcpConns, ReadMessage(c) PROVE (AnswerInv /\ OwnAnswers)'
  BY <1>7 DEF ReadMessage, Goto, Messages
<1>8. ASSUME NEW c \in TcpConns, ConnDeadline(c) PROVE (AnswerInv /\ OwnAnswers)'
  BY <1>8 DEF ConnDeadline, End, CloseAll, Goto
<1>9. ASSUME NEW c \in TcpConns, ReplyTCP(c) PROVE (AnswerInv /\ OwnAnswers)'
  <2>1. /\ c \in Tasks /\ sent[c] \in Messages
        /\ asked[c] \in 1 .. MaxMsgs /\ sent[c] = <<c, asked[c]>>
        /\ Len(delivered[c]) = asked[c] - 1
        /\ Replies(c) \/ End(c)
    BY <1>9, ReplyCases
  <2>2. CASE End(c)
    BY <2>2 DEF End, Goto
  <2>3. CASE Replies(c)
    <3>1. delivered'[c] = Append(delivered[c], sent[c])
      BY <2>1, <2>3 DEF Replies
    <3>2. /\ Len(delivered'[c]) = Len(delivered[c]) + 1
          /\ \A i \in DOMAIN delivered'[c] :
               delivered'[c][i] = IF i <= Len(delivered[c]) THEN delivered[c][i] ELSE sent[c]
      BY <2>1, <3>1, AppendAnswer
    <3>3. delivered'[c] \in Seq(Messages)
      BY <2>1, <3>1, AppendAnswer
    <3>4. \A i \in DOMAIN delivered'[c] : delivered'[c][i] = <<c, i>>
      <4>1. /\ DOMAIN delivered[c] = 1 .. (asked[c] - 1)
            /\ DOMAIN delivered'[c] = 1 .. asked[c]
        BY <2>1, <3>2, <3>3
      <4>2. \A i \in DOMAIN delivered[c] : delivered[c][i] = <<c, i>>
        BY <2>1
      <4>3. ASSUME NEW i \in 1 .. asked[c], i # asked[c] PROVE delivered'[c][i] = <<c, i>>
        <5>1. i \in 1 .. (asked[c] - 1) /\ i <= Len(delivered[c])
          BY <2>1, <4>3
        <5> QED BY <5>1, <3>2, <4>1, <4>2
      <4>4. delivered'[c][asked[c]] = <<c, asked[c]>>
        <5>1. asked[c] \in 1 .. asked[c] /\ ~(asked[c] <= Len(delivered[c]))
          BY <2>1
        <5> QED BY <5>1, <2>1, <3>2, <4>1
      <4> QED BY <4>1, <4>3, <4>4
    <3> QED BY <2>1, <2>3, <3>2, <3>4 DEF Replies, Goto
  <2> QED BY <2>1, <2>2, <2>3
<1>10. ASSUME NEW t \in Tasks, StartDial(t) PROVE (AnswerInv /\ OwnAnswers)'
  BY <1>10 DEF StartDial, Dial, End, CloseAll, Goto
<1>11. ASSUME NEW t \in Tasks, Established(t) PROVE (AnswerInv /\ OwnAnswers)'
  BY <1>11 DEF Established, QueryOf, Goto
<1>12. ASSUME NEW t \in Tasks, UpstreamError(t) PROVE (AnswerInv /\ OwnAnswers)'
  BY <1>12 DEF UpstreamError, End, CloseAll, Goto
<1>13. ASSUME NEW t \in Tasks, UpstreamDeadline(t) PROVE (AnswerInv /\ OwnAnswers)'
  BY <1>13 DEF UpstreamDeadline, Timed, End, CloseAll, Goto
<1>14. ASSUME NEW t \in Tasks, Answered(t) PROVE (AnswerInv /\ OwnAnswers)'
  BY <1>14 DEF Answered, Goto
<1>15. CASE UdpLoopEnds
  BY <1>15 DEF UdpLoopEnds, tasks
<1>16. CASE TcpLoopEnds
  BY <1>16 DEF TcpLoopEnds, tasks
<1>17. CASE Stop
  BY <1>17 DEF Stop
<1>18. CASE UNCHANGED vars
  BY <1>18 DEF vars, tasks
<1> QED
  BY <1>1, <1>2, <1>3, <1>4, <1>5, <1>6, <1>7, <1>8, <1>9, <1>10, <1>11, <1>12, <1>13, <1>14, <1>15, <1>16, <1>17, <1>18 DEF Next, Task, Finished

(* Every step keeps the books on sockets. *)
LEMMA SocketStep ==
    ASSUME TypeInv, AnswerInv, SocketInv, [Next]_vars
    PROVE  SocketInv'
<1> USE ForwarderAssumption
    DEF TypeInv, SocketInv, Sockets, Listeners, Conn, Up, Stages, Tasks
<1>1. ASSUME NEW q \in UdpQueries, SendDatagram(q) PROVE SocketInv'
  BY <1>1 DEF SendDatagram, Goto
<1>2. ASSUME NEW q \in UdpQueries, ReadFrom(q) PROVE SocketInv'
  BY <1>2 DEF ReadFrom, Goto, Messages
<1>3. ASSUME NEW q \in UdpQueries, ReplyUDP(q) PROVE SocketInv'
  BY <1>3 DEF ReplyUDP, Goto
<1>4. ASSUME NEW c \in TcpConns, Connect(c) PROVE SocketInv'
  BY <1>4 DEF Connect, Goto
<1>5. ASSUME NEW c \in TcpConns, ClientCloses(c) PROVE SocketInv'
  BY <1>5 DEF ClientCloses, End, CloseAll, Goto
<1>6. ASSUME NEW c \in TcpConns, Accept(c) PROVE SocketInv'
  BY <1>6 DEF Accept, Goto
<1>7. ASSUME NEW c \in TcpConns, ReadMessage(c) PROVE SocketInv'
  BY <1>7 DEF ReadMessage, Goto, Messages
<1>8. ASSUME NEW c \in TcpConns, ConnDeadline(c) PROVE SocketInv'
  BY <1>8 DEF ConnDeadline, End, CloseAll, Goto
<1>9. ASSUME NEW c \in TcpConns, ReplyTCP(c) PROVE SocketInv'
  <2>1. c \in Tasks /\ stage[c] = "reply" /\ (Replies(c) \/ End(c))
    BY <1>9, ReplyCases
  <2>2. CASE End(c)
    BY <2>2 DEF End, CloseAll, Goto
  <2>3. CASE Replies(c)
    BY <2>1, <2>3 DEF Replies, Goto
  <2> QED BY <2>1, <2>2, <2>3
<1>10. ASSUME NEW t \in Tasks, StartDial(t) PROVE SocketInv'
  <2>1. CASE fds' = fds \union {Up(t)} /\ stage' = [stage EXCEPT ![t] = "dialling"] /\ UNCHANGED done
    BY <1>10, <2>1 DEF StartDial
  <2>2. CASE End(t)
    BY <2>2 DEF End, CloseAll, Goto
  <2> QED BY <1>10, <2>1, <2>2 DEF StartDial, Dial, Goto
<1>11. ASSUME NEW t \in Tasks, Established(t) PROVE SocketInv'
  BY <1>11 DEF Established, QueryOf, Goto
<1>12. ASSUME NEW t \in Tasks, UpstreamError(t) PROVE SocketInv'
  BY <1>12 DEF UpstreamError, End, CloseAll, Goto
<1>13. ASSUME NEW t \in Tasks, UpstreamDeadline(t) PROVE SocketInv'
  BY <1>13 DEF UpstreamDeadline, Timed, End, CloseAll, Goto
<1>14. ASSUME NEW t \in Tasks, Answered(t) PROVE SocketInv'
  BY <1>14 DEF Answered, Goto
<1>15. CASE UdpLoopEnds
  BY <1>15 DEF UdpLoopEnds, tasks
<1>16. CASE TcpLoopEnds
  BY <1>16 DEF TcpLoopEnds, tasks
<1>17. CASE Stop
  BY <1>17 DEF Stop
<1>18. CASE UNCHANGED vars
  BY <1>18 DEF vars, tasks
<1> QED
  BY <1>1, <1>2, <1>3, <1>4, <1>5, <1>6, <1>7, <1>8, <1>9, <1>10, <1>11, <1>12, <1>13, <1>14, <1>15, <1>16, <1>17, <1>18 DEF Next, Task, Finished

(* Opening a socket needs a free descriptor; closing frees one or none. *)
LEMMA CountStep ==
    ASSUME CountInv, [Next]_vars
    PROVE  CountInv'
<1> USE ForwarderAssumption DEF CountInv
<1>1. \/ fds' \subseteq fds
      \/ FdFree /\ \E s : fds' = fds \union {s}
  BY DEF Next, Task, SendDatagram, ReadFrom, ReplyUDP, Connect, ClientCloses, Accept,
     ReadMessage, ConnDeadline, ReplyTCP, StartDial, Dial, Established, UpstreamError,
     UpstreamDeadline, Answered, UdpLoopEnds, TcpLoopEnds, Stop, Finished, End,
     CloseAll, vars
<1>2. CASE fds' \subseteq fds
  <2>1. IsFiniteSet(fds') /\ Cardinality(fds') <= Cardinality(fds)
    BY <1>2, FS_Subset
  <2>2. Cardinality(fds) \in Nat /\ Cardinality(fds') \in Nat
    BY <2>1, FS_CardinalityType
  <2> QED BY <2>1, <2>2
<1>3. ASSUME FdFree, NEW s, fds' = fds \union {s} PROVE CountInv'
  <2>1. /\ IsFiniteSet(fds \union {s})
        /\ Cardinality(fds \union {s}) \in {Cardinality(fds), Cardinality(fds) + 1}
    BY FS_AddElement
  <2>2. Cardinality(fds) \in Nat
    BY FS_CardinalityType
  <2> QED BY <2>1, <2>2, <1>3 DEF FdFree
<1> QED BY <1>1, <1>2, <1>3

-----------------------------------------------------------------------------
(* The invariant holds at the start, when only the listeners are open. *)
LEMMA InitInv == Init => ForwarderInv
<1> SUFFICES ASSUME Init PROVE ForwarderInv
  OBVIOUS
<1> USE ForwarderAssumption
<1>1. TypeInv
  <2>1. <<>> \in Seq(Messages)
    OBVIOUS
  <2>2. 0 \in 0 .. MaxMsgs
    OBVIOUS
  <2> QED BY <2>1, <2>2 DEF Init, TypeInv, Stages
<1>2. AnswerInv /\ OwnAnswers
  BY DEF Init, AnswerInv, OwnAnswers
<1>3. SocketInv
  BY DEF Init, SocketInv, Sockets, Listeners, Conn, Up, Tasks
<1>4. IsFiniteSet(Listeners)
  <2>1. IsFiniteSet({<<"listen", "udp">>})
    BY FS_Singleton
  <2>2. IsFiniteSet({<<"listen", "udp">>} \union {<<"listen", "tcp">>})
    BY <2>1, FS_AddElement
  <2> QED BY <2>2 DEF Listeners
<1> QED BY <1>1, <1>2, <1>3, <1>4 DEF ForwarderInv, CountInv, Init

(* The inductive invariant of the forwarder. *)
THEOREM ForwarderInvariant == Spec => []ForwarderInv
<1>1. ForwarderInv /\ [Next]_vars => ForwarderInv'
  BY TypeStep, AnswerStep, SocketStep, CountStep DEF ForwarderInv
<1> QED BY InitInv, <1>1, PTL DEF Spec

(* Every variable keeps its type and the process never holds more than MaxFds
   sockets: each accept and each dial respects the limit. *)
THEOREM ForwarderTypes == Spec => []TypeOK
<1>1. ForwarderInv => TypeOK
  BY DEF ForwarderInv, TypeInv, SocketInv, Sockets, CountInv, TypeOK
<1> QED BY <1>1, ForwarderInvariant, PTL

(* Every client receives the answers to its own questions, each once and in
   order: no other goroutine's read of the shared buffer gets in between. *)
THEOREM OwnAnswersHolds == Spec => []OwnAnswers
<1>1. ForwarderInv => OwnAnswers
  BY DEF ForwarderInv
<1> QED BY <1>1, ForwarderInvariant, PTL

(* On every way out of every goroutine the sockets it opened are closed. *)
THEOREM NoLeakedSocketHolds == Spec => []NoLeakedSocket
<1>1. ForwarderInv => NoLeakedSocket
  BY DEF ForwarderInv, SocketInv, Sockets, NoLeakedSocket
<1> QED BY <1>1, ForwarderInvariant, PTL
=============================================================================
