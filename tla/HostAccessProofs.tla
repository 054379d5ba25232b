-------------------------- MODULE HostAccessProofs --------------------------
(* What netcage forward leaves on the host when it returns, and what netcage ports
   reports of a jail that goes on meanwhile, for any number of forwards on the
   port, of connections and of sockets in the jail. *)
EXTENDS HostAccess, SequenceTheorems, TLAPS

(* A listener belongs to a forward that is relaying, or was killed meanwhile. *)
ListenerInv == \A p \in Fwds : listening[p] => fpc[p] \in {"relaying", "killed"}

(* A relay belongs to a forward that has not returned. *)
RelayInv == \A p \in Fwds, c \in Conns :
    conn[c] = p => fpc[p] \in {"relaying", "waiting", "killed"}

ForwardTypes ==
    /\ fpc \in [Fwds -> {"start", "tool", "connector", "listen", "relaying",
                         "waiting", "ended", "killed"}]
    /\ listening \in [Fwds -> BOOLEAN]
    /\ DOMAIN conn = Conns

ForwardInv == ForwardTypes /\ ListenerInv /\ RelayInv

(* The jail and the listing are of no concern to the forwards. *)
LEMMA OtherStep ==
    ASSUME [Next]_vars, \A p \in Fwds : ~(Forward(p) \/ Interrupt(p) \/ Kill(p) \/ SocatDies(p)),
           \A c \in Conns : ~RelayEnds(c),
           \A c \in Conns : \A p \in Fwds : ~Connect(c, p)
    PROVE  UNCHANGED <<fpc, listening, conn>>
BY DEF Next, SockChanges, SetSocks, SidecarStops, SidecarStarts, ToolStops, Begin,
   ReadV4, ReadV6, Render, Finished, vars, fwd

(* Every step of every forward, and of its clients, keeps the invariant. *)
LEMMA ForwardStep == ForwardInv /\ [Next]_vars => ForwardInv'
<1> SUFFICES ASSUME ForwardInv, [Next]_vars PROVE ForwardInv'
  OBVIOUS
<1> USE NamesAssumption DEF ForwardInv, ForwardTypes, ListenerInv, RelayInv, FGoto
<1>1. ASSUME NEW p \in Fwds, Resolve(p) \/ RequireToolRunning(p) \/ RequireConnector(p)
      PROVE  ForwardInv'
  BY <1>1 DEF Resolve, RequireToolRunning, RequireConnector, Check
<1>2. ASSUME NEW p \in Fwds, StartSocat(p) PROVE ForwardInv'
  BY <1>2 DEF StartSocat
<1>3. ASSUME NEW p \in Fwds, SocatKilled(p) PROVE ForwardInv'
  BY <1>3 DEF SocatKilled
<1>4. ASSUME NEW p \in Fwds, ForwardEnds(p) PROVE ForwardInv'
  BY <1>4 DEF ForwardEnds, PipesClosed, Relays
<1>5. ASSUME NEW p \in Fwds, Interrupt(p) PROVE ForwardInv'
  BY <1>5 DEF Interrupt
<1>6. ASSUME NEW p \in Fwds, Kill(p) PROVE ForwardInv'
  BY <1>6 DEF Kill
<1>7. ASSUME NEW p \in Fwds, SocatDies(p) PROVE ForwardInv'
  BY <1>7 DEF SocatDies
<1>8. ASSUME NEW c \in Conns, NEW p \in Fwds, Connect(c, p) PROVE ForwardInv'
  BY <1>8 DEF Connect
<1>9. ASSUME NEW c \in Conns, RelayEnds(c) PROVE ForwardInv'
  BY <1>9 DEF RelayEnds
<1>10. CASE UNCHANGED <<fpc, listening, conn>>
  BY <1>10
<1> QED
  BY <1>1, <1>2, <1>3, <1>4, <1>5, <1>6, <1>7, <1>8, <1>9, <1>10, OtherStep DEF Forward

(* Nothing listens and nothing is relayed at the start. *)
LEMMA ForwardInit == Init => ForwardInv
BY NamesAssumption DEF Init, ForwardInv, ForwardTypes, ListenerInv, RelayInv

(* However forward returns, it leaves neither its listener nor a relay: the
   runner waits until socat has gone and its children have closed the pipes. *)
THEOREM NoResidueHolds == Spec => []NoResidue
<1>1. ForwardInv => NoResidue
  BY DEF ForwardInv, ForwardTypes, ListenerInv, RelayInv, NoResidue, Relays
<1> QED BY <1>1, ForwardInit, ForwardStep, PTL DEF Spec

-----------------------------------------------------------------------------
(* What is decoded from a printed address is the address. *)
LEMMA V4Decoded ==
    ASSUME NEW a \in Seq(0 .. 255), Len(a) = 4
    PROVE  DecodeV4(SwapWords(a)) = a
<1>1. DOMAIN a = 1 .. 4 /\ a = <<a[1], a[2], a[3], a[4]>>
  OBVIOUS
<1>2. /\ SwapWords(a)[1] = a[4] /\ SwapWords(a)[2] = a[3]
      /\ SwapWords(a)[3] = a[2] /\ SwapWords(a)[4] = a[1]
  BY <1>1 DEF SwapWords
<1> QED BY <1>1, <1>2 DEF DecodeV4

LEMMA V6Decoded ==
    ASSUME NEW a \in Seq(0 .. 255), Len(a) = 16
    PROVE  DecodeV6(SwapWords(a)) = a
<1>1. DOMAIN a = 1 .. 16 /\ a = [i \in 1 .. 16 |-> a[i]]
  OBVIOUS
<1>2. ASSUME NEW i \in 1 .. 16
      PROVE  SwapWords(a)[4 * ((i - 1) \div 4) + (4 - ((i - 1) % 4))] = a[i]
  <2> DEFINE j == 4 * ((i - 1) \div 4) + (4 - ((i - 1) % 4))
  <2>1. j \in 1 .. 16 /\ 4 * ((j - 1) \div 4) + 4 - ((j - 1) % 4) = i
    OBVIOUS
  <2> HIDE DEF j
  <2>2. SwapWords(a)[j] = a[4 * ((j - 1) \div 4) + 4 - ((j - 1) % 4)]
    BY <1>1, <2>1 DEF SwapWords
  <2>3. SwapWords(a)[j] = a[i]
    BY <2>1, <2>2
  <2> QED BY <2>3 DEF j
<1> QED BY <1>1, <1>2 DEF DecodeV6

(* The scope net.IP gives an address is the one it has. *)
LEMMA V4Scoped ==
    ASSUME NEW a \in Seq(0 .. 255), Len(a) = 4
    PROVE  IsLoopback(a) = Loopback4(a)
<1>1. To4(a) = a
  BY DEF To4, Mapped
<1> QED BY <1>1 DEF IsLoopback, Loopback4

LEMMA V6Scoped ==
    ASSUME NEW a \in Seq(0 .. 255), Len(a) = 16
    PROVE  IsLoopback(a) = Loopback6(a)
<1> DEFINE head == SubSeq(a, 1, 12)
<1>1. DOMAIN a = 1 .. 16 /\ a = [i \in 1 .. 16 |-> a[i]]
  OBVIOUS
<1>2. /\ DOMAIN head = 1 .. 12 /\ head = [i \in 1 .. 12 |-> head[i]]
      /\ \A i \in 1 .. 12 : head[i] = a[i]
  BY SubSeqProperties
<1>3. (head = [i \in 1 .. 12 |-> IF i < 11 THEN 0 ELSE 255])
          <=> (\A i \in 1 .. 10 : a[i] = 0) /\ a[11] = 255 /\ a[12] = 255
  BY <1>2
<1>4. (a = [i \in 1 .. 16 |-> IF i = 16 THEN 1 ELSE 0])
          <=> a[16] = 1 /\ \A i \in 1 .. 15 : a[i] = 0
  BY <1>1
<1>5. Mapped(a) <=> (\A i \in 1 .. 10 : a[i] = 0) /\ a[11] = 255 /\ a[12] = 255
  BY <1>3 DEF Mapped
<1>6. CASE Mapped(a)
  <2>1. To4(a) = SubSeq(a, 13, 16)
    BY <1>6 DEF To4
  <2>2. Len(To4(a)) = 4 /\ To4(a)[1] = a[13]
    BY <2>1, SubSeqProperties
  <2>3. IsLoopback(a) <=> a[13] = 127
    BY <2>2 DEF IsLoopback
  <2>4. Loopback6(a) <=> a[13] = 127
    <3>1. /\ \A i \in 1 .. 10 : a[i] = 0
          /\ a[11] = 255 /\ a[12] = 255
      BY <1>5, <1>6
    <3>2. ~(\A i \in 1 .. 15 : a[i] = 0)
      BY <3>1
    <3> QED BY <3>1, <3>2 DEF Loopback6
  <2> QED BY <2>3, <2>4 DEF IsLoopback, Loopback6
<1>7. CASE ~Mapped(a)
  <2>1. To4(a) = a
    BY <1>7, Zenon DEF To4
  <2>2. Len(To4(a)) = 16
    BY <2>1, Zenon
  <2>3. Len(To4(a)) # 4
    BY <2>2
  <2>4. IsLoopback(a) = (a = [i \in 1 .. 16 |-> IF i = 16 THEN 1 ELSE 0])
    BY <2>3, Zenon DEF IsLoopback
  <2>5. Loopback6(a) = (a[16] = 1 /\ \A i \in 1 .. 15 : a[i] = 0)
    BY <1>5, <1>7 DEF Loopback6
  <2> QED BY <1>4, <2>4, <2>5
<1> QED BY <1>6, <1>7

(* A port is the number its two bytes are. *)
LEMMA PortDecoded ==
    ASSUME NEW n \in Ports
    PROVE  DecodePort(<<n \div 256, n % 256>>) = n
BY SMT DEF DecodePort, Ports

(* parseRow of a printed row is the socket. *)
LEMMA RowDecoded ==
    ASSUME NEW s \in Socks, NEW state
    PROVE  /\ ~s.v6 => Listener(DecodeV4(Row(s, state).local), DecodePort(Row(s, state).port))
                          = Shown(s)
           /\ s.v6 => Listener(DecodeV6(Row(s, state).local), DecodePort(Row(s, state).port))
                          = Shown(s)
<1>1. /\ Row(s, state).local = SwapWords(s.addr)
      /\ Row(s, state).port = <<s.port \div 256, s.port % 256>>
  BY Zenon DEF Row
<1>2. DecodePort(Row(s, state).port) = s.port
  BY <1>1, HostAssumption, PortDecoded, SMT
<1>3. CASE ~s.v6
  <2>1. s.addr \in Seq(0 .. 255) /\ Len(s.addr) = 4 /\ s.loopback = Loopback4(s.addr)
    BY <1>3, HostAssumption
  <2>2. DecodeV4(SwapWords(s.addr)) = s.addr /\ IsLoopback(s.addr) = s.loopback
    BY <2>1, V4Decoded, V4Scoped
  <2> QED BY <1>1, <1>2, <1>3, <2>2, Zenon DEF Listener, Shown
<1>4. CASE s.v6
  <2>1. s.addr \in Seq(0 .. 255) /\ Len(s.addr) = 16 /\ s.loopback = Loopback6(s.addr)
    BY <1>4, HostAssumption
  <2>2. DecodeV6(SwapWords(s.addr)) = s.addr /\ IsLoopback(s.addr) = s.loopback
    BY <2>1, V6Decoded, V6Scoped
  <2> QED BY <1>1, <1>2, <1>4, <2>2, Zenon DEF Listener, Shown
<1> QED BY <1>3, <1>4

-----------------------------------------------------------------------------
Listening == {s \in Socks : sock[s] = "listen"}

ListingTypes ==
    /\ sock \in [Socks -> {"closed", "listen", "connected"}]
    /\ lpc \in {"start", "v4", "v6", "render", "reported", "ended"}
    /\ during \subseteq Socks /\ throughout \subseteq Socks

(* What listens now is among what listened while the listing was under way, and
   has it among what listened throughout. *)
WatchInv ==
    lpc \notin {"start", "ended"} =>
        Listening \subseteq during /\ throughout \subseteq Listening

(* The rows of one file: a listening one is of a socket that listened meanwhile,
   and a socket that listened throughout has one. *)
RowsInv(isV6, rows) ==
    /\ \A r \in rows : Listens(r) =>
         \E s \in during : s.v6 = isV6 /\ r = Row(s, "listen")
    /\ \A s \in throughout : s.v6 = isV6 => Row(s, "listen") \in rows

ListingInv ==
    /\ ListingTypes
    /\ WatchInv
    /\ lpc \in {"v6", "render", "reported"} => RowsInv(FALSE, v4)
    /\ lpc \in {"render", "reported"} => RowsInv(TRUE, v6)
    /\ lpc = "reported" => reported = ParseProcNet(v4, v6)

(* What the kernel prints at one moment. *)
LEMMA RowsRead ==
    ASSUME ListingTypes, WatchInv, lpc \notin {"start", "ended"}, NEW isV6 \in BOOLEAN
    PROVE  RowsInv(isV6, ProcNet(isV6))
<1>1. ASSUME NEW r \in ProcNet(isV6), Listens(r)
      PROVE  \E s \in during : s.v6 = isV6 /\ r = Row(s, "listen")
  <2>1. PICK s \in Socks : s.v6 = isV6 /\ r = Row(s, sock[s])
    BY <1>1, Zenon DEF ProcNet
  <2>2. sock[s] = "listen"
    BY <1>1, <2>1 DEF Listens, Row
  <2> QED BY <2>1, <2>2 DEF WatchInv, Listening
<1>2. ASSUME NEW s \in throughout, s.v6 = isV6
      PROVE  Row(s, "listen") \in ProcNet(isV6)
  <2>1. s \in Socks /\ sock[s] = "listen"
    BY <1>2 DEF WatchInv, Listening
  <2> QED BY <1>2, <2>1, Zenon DEF ProcNet
<1> QED BY <1>1, <1>2 DEF RowsInv

(* Sockets that come and go after a file was read leave its rows what they were:
   more have listened meanwhile, and fewer throughout. *)
LEMMA RowsStay ==
    ASSUME NEW isV6 \in BOOLEAN, NEW rows, RowsInv(isV6, rows),
           during \subseteq during', throughout' \subseteq throughout
    PROVE  RowsInv(isV6, rows)'
BY DEF RowsInv, Row, Listens

LEMMA ListingInit == Init => ListingInv
BY DEF Init, ListingInv, ListingTypes, WatchInv, RowsInv

(* A socket changes while the listing is under way, or not. *)
LEMMA SocksChange ==
    ASSUME ListingInv, NEW next \in [Socks -> {"closed", "listen", "connected"}],
           SetSocks(next)
    PROVE  ListingInv'
<1>1. /\ sock' = next /\ UNCHANGED <<lpc, v4, v6, reported>>
      /\ ListingTypes'
  BY DEF ListingInv, ListingTypes, SetSocks, Observe
<1>2. WatchInv' /\ (lpc \notin {"start", "ended"} =>
                      during \subseteq during' /\ throughout' \subseteq throughout)
  BY <1>1 DEF ListingInv, ListingTypes, WatchInv, Listening, SetSocks, Observe
<1>3. /\ lpc' \in {"v6", "render", "reported"} => RowsInv(FALSE, v4)'
      /\ lpc' \in {"render", "reported"} => RowsInv(TRUE, v6)'
  <2>1. CASE lpc \in {"v6", "render", "reported"}
    <3>1. RowsInv(FALSE, v4) /\ (lpc \in {"render", "reported"} => RowsInv(TRUE, v6))
      BY <2>1 DEF ListingInv
    <3>2. during \subseteq during' /\ throughout' \subseteq throughout
      BY <1>2, <2>1
    <3> QED BY <1>1, <3>1, <3>2, RowsStay DEF RowsInv
  <2> QED BY <1>1, <2>1
<1>4. lpc' = "reported" => reported' = ParseProcNet(v4, v6)'
  BY <1>1 DEF ListingInv, ParseProcNet
<1> QED BY <1>1, <1>2, <1>3, <1>4 DEF ListingInv

(* Every step keeps the invariant. *)
LEMMA ListingStep == ListingInv /\ [Next]_vars => ListingInv'
<1> SUFFICES ASSUME ListingInv, [Next]_vars PROVE ListingInv'
  OBVIOUS
<1>1. ASSUME NEW s \in Socks, SockChanges(s) PROVE ListingInv'
  <2>1. PICK state \in {"closed", "listen", "connected"} :
            SetSocks([sock EXCEPT ![s] = state])
    BY <1>1 DEF SockChanges
  <2>2. [sock EXCEPT ![s] = state] \in [Socks -> {"closed", "listen", "connected"}]
    BY DEF ListingInv, ListingTypes
  <2> QED BY <2>1, <2>2, SocksChange
<1>2. CASE SidecarStops
  BY <1>2, SocksChange DEF SidecarStops
<1>3. CASE Begin
  <2>1. CASE lpc' = "ended" /\ UNCHANGED <<during, throughout>>
    BY <1>3, <2>1 DEF Begin, jail, ListingInv, ListingTypes, WatchInv
  <2>2. CASE /\ lpc' = "v4" /\ during' = Listening /\ throughout' = during'
    BY <1>3, <2>2 DEF Begin, jail, ListingInv, ListingTypes, WatchInv, Listening
  <2> QED BY <1>3, <2>1, <2>2 DEF Begin, Listening
<1>4. CASE ReadV4
  <2>1. lpc = "v4" /\ UNCHANGED <<sock, during, throughout>>
    BY <1>4 DEF ReadV4, jail
  <2>2. CASE lpc' = "ended"
    BY <2>1, <2>2 DEF ListingInv, ListingTypes, WatchInv
  <2>3. CASE lpc' = "v6" /\ v4' = ProcNet(FALSE)
    <3>1. RowsInv(FALSE, ProcNet(FALSE))
      BY <2>1, RowsRead DEF ListingInv
    <3>2. RowsInv(FALSE, v4)'
      BY <2>1, <2>3, <3>1 DEF RowsInv
    <3> QED BY <2>1, <2>3, <3>2 DEF ListingInv, ListingTypes, WatchInv, Listening
  <2> QED BY <1>4, <2>2, <2>3 DEF ReadV4
<1>5. CASE ReadV6
  <2>1. lpc = "v6" /\ UNCHANGED <<sock, v4, during, throughout>>
    BY <1>5 DEF ReadV6, jail
  <2>2. CASE lpc' = "ended"
    BY <2>1, <2>2 DEF ListingInv, ListingTypes, WatchInv
  <2>3. CASE lpc' = "render" /\ v6' = ProcNet(TRUE)
    <3>1. RowsInv(TRUE, ProcNet(TRUE)) /\ RowsInv(FALSE, v4)
      BY <2>1, RowsRead DEF ListingInv
    <3>2. RowsInv(TRUE, v6)' /\ RowsInv(FALSE, v4)'
      BY <2>1, <2>3, <3>1 DEF RowsInv
    <3> QED BY <2>1, <2>3, <3>2 DEF ListingInv, ListingTypes, WatchInv, Listening
  <2> QED BY <1>5, <2>2, <2>3 DEF ReadV6
<1>6. CASE Render
  <2>1. /\ lpc = "render" /\ lpc' = "reported" /\ reported' = ParseProcNet(v4, v6)
        /\ UNCHANGED <<sock, v4, v6, during, throughout>>
    BY <1>6 DEF Render, jail
  <2>2. RowsInv(FALSE, v4)' /\ RowsInv(TRUE, v6)' /\ reported' = ParseProcNet(v4, v6)'
    BY <2>1 DEF ListingInv, RowsInv, ParseProcNet
  <2> QED BY <2>1, <2>2 DEF ListingInv, ListingTypes, WatchInv, Listening
<1>7. CASE UNCHANGED <<sock, listing>>
  BY <1>7 DEF listing, ListingInv, ListingTypes, WatchInv, Listening, RowsInv, ParseProcNet
<1>8. ASSUME NEW p \in Fwds, Forward(p) \/ Interrupt(p) \/ Kill(p) \/ SocatDies(p)
      PROVE  ListingInv'
  BY <1>7, <1>8 DEF Forward, Resolve, RequireToolRunning, RequireConnector, Check,
     StartSocat, SocatKilled, ForwardEnds, Interrupt, Kill, SocatDies, jail
<1>9. ASSUME NEW c \in Conns, RelayEnds(c) \/ \E p \in Fwds : Connect(c, p)
      PROVE  ListingInv'
  BY <1>7, <1>9 DEF RelayEnds, Connect, jail
<1>10. CASE SidecarStarts \/ ToolStops \/ Finished \/ UNCHANGED vars
  BY <1>7, <1>10 DEF SidecarStarts, ToolStops, Finished, vars, jail, listing
<1> QED
  BY <1>1, <1>2, <1>3, <1>4, <1>5, <1>6, <1>8, <1>9, <1>10 DEF Next

(* Both files decoded, the listing is between the two sets. *)
LEMMA Listed ==
    ASSUME ListingInv, lpc = "reported"
    PROVE  /\ \A l \in reported : \E s \in during : l = Shown(s)
           /\ \A s \in throughout : Shown(s) \in reported
<1>1. /\ during \subseteq Socks /\ throughout \subseteq Socks
      /\ RowsInv(FALSE, v4) /\ RowsInv(TRUE, v6) /\ reported = ParseProcNet(v4, v6)
  BY DEF ListingInv, ListingTypes
<1>2. \A s \in Socks : s.v6 \in BOOLEAN
  BY HostAssumption
<1>3. \A s \in Socks : Listens(Row(s, "listen"))
  BY DEF Listens, Row
<1>4. ASSUME NEW l \in reported
      PROVE  \E s \in during : l = Shown(s)
  <2>1. CASE \E r \in v4 : Listens(r) /\ l = Listener(DecodeV4(r.local), DecodePort(r.port))
    <3>1. PICK r \in v4 : Listens(r) /\ l = Listener(DecodeV4(r.local), DecodePort(r.port))
      BY <2>1
    <3>2. PICK s \in during : s.v6 = FALSE /\ r = Row(s, "listen")
      BY <1>1, <3>1 DEF RowsInv
    <3> QED BY <1>1, <3>1, <3>2, RowDecoded, Zenon
  <2>2. CASE \E r \in v6 : Listens(r) /\ l = Listener(DecodeV6(r.local), DecodePort(r.port))
    <3>1. PICK r \in v6 : Listens(r) /\ l = Listener(DecodeV6(r.local), DecodePort(r.port))
      BY <2>2
    <3>2. PICK s \in during : s.v6 = TRUE /\ r = Row(s, "listen")
      BY <1>1, <3>1 DEF RowsInv
    <3> QED BY <1>1, <3>1, <3>2, RowDecoded, Zenon
  <2> QED BY <1>1, <1>4, <2>1, <2>2, Zenon DEF ParseProcNet
<1>5. ASSUME NEW s \in throughout
      PROVE  Shown(s) \in reported
  <2>1. CASE s.v6 = FALSE
    <3>1. Row(s, "listen") \in v4
      BY <1>1, <2>1 DEF RowsInv
    <3> QED BY <1>1, <1>3, <2>1, <3>1, RowDecoded, Zenon DEF ParseProcNet
  <2>2. CASE s.v6 = TRUE
    <3>1. Row(s, "listen") \in v6
      BY <1>1, <2>2 DEF RowsInv
    <3> QED BY <1>1, <1>3, <2>2, <3>1, RowDecoded, Zenon DEF ParseProcNet
  <2> QED BY <1>1, <1>2, <2>1, <2>2
<1> QED BY <1>4, <1>5

(* The invariant of the listing, on every run of the specification. *)
THEOREM ListingHolds == Spec => []ListingInv
BY ListingInit, ListingStep, PTL DEF Spec

(* What netcage ports reports did listen while it ran, with that address, port and
   scope, whatever the byte order of the file and however often the sidecar was
   restarted between the reads. *)
THEOREM ListingSoundHolds == Spec => []ListingSound
<1>1. ListingInv => ListingSound
  BY Listed, Zenon DEF ListingSound, Shown
<1> QED BY <1>1, ListingHolds, PTL

(* And nothing that listened all the while is missing, of either family. *)
THEOREM ListingCompleteHolds == Spec => []ListingComplete
<1>1. ListingInv => ListingComplete
  BY Listed, Zenon DEF ListingComplete, Shown
<1> QED BY <1>1, ListingHolds, PTL
=============================================================================
