-------------------------- MODULE MainCommandProofs --------------------------
(* The theorems about the command as a whole.  Of a netcage verify, from its
   arguments to its exit code: what a report of the leak test means, for any
   addresses the host, the proxy and the environment may have and whatever fails
   in between, and that it holds of the command, whatever is on its line.  Of the
   verbs that are handed over to podman: that podman reads what the user wrote, in
   netcage's jail. *)
EXTENDS MainCommand, CommandLineProofs

(* The leak test. *)
Assertions == [ok : BOOLEAN, blames : {"nothing", "setup", "closed", "leak", "forwarder"}]

(* Before the probe, the baseline is what a direct request would see now, unless
   the host has moved or the request went elsewhere. *)
BaselineInv ==
    /\ step = "baseline" => ~moved
    /\ step = "probe" /\ ~moved /\ envProxy = NoAddress => baseline = hostIP
    /\ step \in {"baseline", "probe"} => route = "none" /\ report = <<>>

(* After it, the first assertion fits the way the answer travelled. *)
ExitInv ==
    step \in {"pull", "resolve", "reported"} =>
        /\ report # <<>>
        /\ report[1].blames # "forwarder"
        /\ report[1].ok =>
             \/ route = "proxy"
             \/ route = "host" /\ (moved \/ envProxy # NoAddress)
        /\ report[1].blames = "leak" => route = "host" \/ exitIP = baseline

(* The second check has done what its step says, and its assertion fits that. *)
DnsInv ==
    /\ step \in {"baseline", "probe", "pull"} => tookPlace = {}
    /\ step = "resolve" => tookPlace = {"pull"}
    /\ step \in {"pull", "resolve"} => Len(report) = 1
    /\ step = "reported" =>
        /\ Len(report) = 2
        /\ report[2].blames # "leak"
        /\ report[2].ok => tookPlace = {"pull", "run", "answer"} /\ overTCP
        /\ report[2].blames = "forwarder" =>
             tookPlace = {"pull", "run"} \/ (tookPlace = {"pull"} /\ expired)

LeakInv ==
    /\ LeakTypeOK
    /\ report \in Seq(Assertions)
    /\ BaselineInv /\ ExitInv /\ DnsInv

LEMMA LeakInitInv == LeakInit => LeakInv
<1> SUFFICES ASSUME LeakInit PROVE LeakInv
  OBVIOUS
<1>1. LeakTypeOK
  BY DEF LeakInit, LeakTypeOK
<1>2. report \in Seq(Assertions)
  BY DEF LeakInit
<1>3. BaselineInv /\ ExitInv /\ DnsInv
  BY DEF LeakInit, BaselineInv, ExitInv, DnsInv
<1> QED
  BY <1>1, <1>2, <1>3 DEF LeakInv

(* The first check concludes with one assertion. *)
LEMMA ExitConcludes ==
    ASSUME LeakInv, step \in {"baseline", "probe"}, NEW assertion \in Assertions,
           Concludes(assertion, "pull"),
           UNCHANGED <<world, hostIP, proxyUp, baseline, moved, tookPlace>>,
           expired' \in BOOLEAN, route' \in {"none", "proxy", "host"},
           assertion.blames # "forwarder",
           assertion.ok =>
             route' = "proxy" \/ (route' = "host" /\ (moved \/ envProxy # NoAddress)),
           assertion.blames = "leak" => route' = "host" \/ exitIP = baseline
    PROVE  LeakInv'
<1>1. /\ report' \in Seq(Assertions) /\ report' # <<>>
      /\ Len(report') = 1 /\ report'[1] = assertion
  <2>1. report = <<>> /\ report' = Append(report, assertion)
    BY DEF Concludes, LeakInv, BaselineInv
  <2>2. report' = <<assertion>>
    BY <2>1
  <2> QED
    BY <2>2
<1>2. LeakTypeOK'
  BY DEF LeakInv, LeakTypeOK, Concludes, world
<1>3. step' = "pull"
  BY DEF Concludes
<1>4. ExitInv' /\ BaselineInv' /\ DnsInv'
  BY <1>1, <1>3 DEF ExitInv, BaselineInv, DnsInv, LeakInv, world
<1> QED
  BY <1>1, <1>2, <1>4 DEF LeakInv

LEMMA LastAppended ==
    ASSUME NEW S, NEW seq \in Seq(S), NEW elt \in S
    PROVE  Append(seq, elt)[Len(seq) + 1] = elt
OBVIOUS

LEMMA SecondAppended ==
    ASSUME NEW S, NEW seq \in Seq(S), Len(seq) = 1, NEW elt \in S
    PROVE  /\ Append(seq, elt) \in Seq(S) /\ Append(seq, elt) # <<>>
           /\ Len(Append(seq, elt)) = 2
           /\ Append(seq, elt)[1] = seq[1] /\ Append(seq, elt)[2] = elt
<1>1. Append(seq, elt) \in Seq(S)
  OBVIOUS
<1>2. Len(Append(seq, elt)) = Len(seq) + 1
  OBVIOUS
<1>3. Append(seq, elt)[1] = seq[1]
  <2>1. 1 \in 1 .. Len(seq)
    OBVIOUS
  <2> QED
    BY <2>1, AppendProperties
<1>4. Append(seq, elt)[Len(seq) + 1] = elt
  BY LastAppended, Zenon
<1> QED
  BY <1>1, <1>2, <1>3, <1>4

(* The second check concludes with another. *)
LEMMA DnsConcludes ==
    ASSUME LeakInv, step \in {"pull", "resolve"}, NEW assertion \in Assertions,
           Concludes(assertion, "reported"),
           UNCHANGED <<world, hostIP, proxyUp, baseline, moved, route>>,
           expired' \in BOOLEAN, tookPlace' \in SUBSET {"pull", "run", "answer"},
           assertion.blames # "leak",
           assertion.ok => tookPlace' = {"pull", "run", "answer"} /\ overTCP,
           assertion.blames = "forwarder" =>
             tookPlace' = {"pull", "run"} \/ (tookPlace' = {"pull"} /\ expired')
    PROVE  LeakInv'
<1>1. report \in Seq(Assertions) /\ Len(report) = 1 /\ report' = Append(report, assertion)
  BY DEF Concludes, LeakInv, DnsInv
<1>2. /\ report' \in Seq(Assertions) /\ Len(report') = 2 /\ report' # <<>>
      /\ report'[1] = report[1] /\ report'[2] = assertion
  BY <1>1, SecondAppended
<1>3. LeakTypeOK'
  BY DEF LeakInv, LeakTypeOK, Concludes, world
<1>4. step' = "reported"
  BY DEF Concludes
<1>5. ExitInv' /\ BaselineInv' /\ DnsInv'
  BY <1>2, <1>4 DEF ExitInv, BaselineInv, DnsInv, LeakInv, world
<1> QED
  BY <1>2, <1>3, <1>5 DEF LeakInv

LEMMA AssertionsTyped ==
    /\ Pass \in Assertions
    /\ \A on \in {"setup", "closed", "leak", "forwarder"} : Fail(on) \in Assertions
BY DEF Pass, Fail, Assertions

LEMMA BaselineStep == LeakInv /\ Baseline => LeakInv'
<1> SUFFICES ASSUME LeakInv, Baseline PROVE LeakInv'
  OBVIOUS
<1>1. CASE Concludes(Fail("setup"), "pull") /\ UNCHANGED baseline
  <2>1. route' \in {"none", "proxy", "host"} /\ expired' \in BOOLEAN
    BY DEF Baseline, LeakInv, LeakTypeOK
  <2> QED
    BY <1>1, <2>1, AssertionsTyped, ExitConcludes DEF Baseline, Fail
<1>2. CASE baseline' = Measured /\ step' = "probe" /\ UNCHANGED report
  <2>1. LeakTypeOK'
    BY <1>2 DEF Baseline, LeakInv, LeakTypeOK, Measured, world
  <2> QED
    BY <1>2, <2>1
    DEF Baseline, LeakInv, BaselineInv, ExitInv, DnsInv, Measured, world
<1> QED
  BY <1>1, <1>2 DEF Baseline

LEMMA ProbeStep == LeakInv /\ Probe => LeakInv'
<1> SUFFICES ASSUME LeakInv, Probe PROVE LeakInv'
  OBVIOUS
<1>0. /\ step = "probe" /\ route = "none"
      /\ UNCHANGED <<world, hostIP, proxyUp, baseline, moved, tookPlace>>
      /\ expired' \in BOOLEAN /\ exitIP \in Addresses /\ hostIP \in Addresses
  BY DEF Probe, KilledMidway, LeakInv, BaselineInv, LeakTypeOK
<1>1. CASE Concludes(Fail("setup"), "pull") /\ UNCHANGED route
  BY <1>0, <1>1, AssertionsTyped, ExitConcludes DEF Fail
<1>2. CASE Concludes(ExitAssertion(NoAddress), "pull") /\ UNCHANGED route
  BY <1>0, <1>2, AssertionsTyped, ExitConcludes DEF Fail, ExitAssertion
<1>3. CASE Concludes(ExitAssertion(exitIP), "pull") /\ route' = "proxy"
  <2>1. /\ ExitAssertion(exitIP) \in Assertions
        /\ ExitAssertion(exitIP).blames # "forwarder"
        /\ ExitAssertion(exitIP).blames = "leak" => exitIP = baseline
    BY <1>0, AssertionsTyped, LeakAssumption DEF ExitAssertion, Fail, Pass
  <2>2. PICK v \in Assertions : v = ExitAssertion(exitIP)
    BY <2>1
  <2>3. /\ Concludes(v, "pull") /\ route' = "proxy"
        /\ v.blames # "forwarder" /\ (v.blames = "leak" => exitIP = baseline)
    BY <1>3, <2>1, <2>2
  <2> QED
    BY <1>0, <2>3, ExitConcludes
<1>4. CASE Concludes(ExitAssertion(hostIP), "pull") /\ route' = "host"
  <2>1. /\ ExitAssertion(hostIP) \in Assertions
        /\ ExitAssertion(hostIP).blames # "forwarder"
        /\ ExitAssertion(hostIP).ok => hostIP # baseline
    BY <1>0, AssertionsTyped, LeakAssumption DEF ExitAssertion, Fail, Pass
  <2>2. ExitAssertion(hostIP).ok => moved \/ envProxy # NoAddress
    BY <1>0, <2>1 DEF LeakInv, BaselineInv, LeakTypeOK
  <2> QED
    BY <1>0, <1>4, <2>1, <2>2, ExitConcludes
<1> QED
  BY <1>1, <1>2, <1>3, <1>4 DEF Probe

LEMMA PullStep == LeakInv /\ Pull => LeakInv'
<1> SUFFICES ASSUME LeakInv, Pull PROVE LeakInv'
  OBVIOUS
<1>0. /\ step = "pull"
      /\ UNCHANGED <<world, hostIP, proxyUp, expired, baseline, moved, route>>
      /\ expired \in BOOLEAN /\ tookPlace \in SUBSET {"pull", "run", "answer"}
  BY DEF Pull, LeakInv, LeakTypeOK
<1>1. CASE Concludes(DnsAssertion(FALSE, FALSE, NoAddress), "reported") /\ UNCHANGED tookPlace
  BY <1>0, <1>1, AssertionsTyped, DnsConcludes DEF DnsAssertion, Fail
<1>2. CASE step' = "resolve" /\ tookPlace' = {"pull"} /\ UNCHANGED report
  <2>1. LeakTypeOK'
    BY <1>0, <1>2 DEF LeakInv, LeakTypeOK, world
  <2> QED
    BY <1>0, <1>2, <2>1 DEF LeakInv, BaselineInv, ExitInv, DnsInv, world
<1> QED
  BY <1>1, <1>2 DEF Pull

LEMMA ResolveStep == LeakInv /\ Resolve => LeakInv'
<1> SUFFICES ASSUME LeakInv, Resolve PROVE LeakInv'
  OBVIOUS
<1>0. /\ step = "resolve" /\ tookPlace = {"pull"}
      /\ UNCHANGED <<world, hostIP, proxyUp, baseline, moved, route>>
      /\ expired' \in BOOLEAN
  BY DEF Resolve, KilledMidway, LeakInv, LeakTypeOK, DnsInv
<1>1. CASE Concludes(DnsAssertion(TRUE, FALSE, NoAddress), "reported") /\ UNCHANGED tookPlace
  BY <1>0, <1>1, AssertionsTyped, DnsConcludes DEF DnsAssertion, Fail
<1>2. CASE /\ Concludes(DnsAssertion(TRUE, TRUE, NoAddress), "reported")
           /\ tookPlace' = tookPlace \union {"run"}
  BY <1>0, <1>2, AssertionsTyped, DnsConcludes DEF DnsAssertion, Fail
<1>3. CASE /\ overTCP
           /\ \E ip \in Addresses : Concludes(DnsAssertion(TRUE, TRUE, ip), "reported")
           /\ tookPlace' = tookPlace \union {"run", "answer"}
  <2>1. PICK ip \in Addresses : Concludes(DnsAssertion(TRUE, TRUE, ip), "reported")
    BY <1>3
  <2>2. DnsAssertion(TRUE, TRUE, ip) = Pass
    BY LeakAssumption DEF DnsAssertion
  <2> QED
    BY <1>0, <1>3, <2>1, <2>2, AssertionsTyped, DnsConcludes DEF Pass
<1>4. CASE /\ KilledMidway
           /\ Concludes(DnsAssertion(TRUE, TRUE, NoAddress), "reported")
           /\ UNCHANGED tookPlace
  <2>1. tookPlace' = {"pull"} /\ expired'
    BY <1>0, <1>4 DEF KilledMidway
  <2> QED
    BY <1>0, <1>4, <2>1, AssertionsTyped, DnsConcludes DEF DnsAssertion, Fail
<1> QED
  BY <1>1, <1>2, <1>3, <1>4 DEF Resolve

(* The world changes nothing the assertions rest on, but for what history keeps. *)
LEMMA WorldStep == LeakInv /\ (HostMoves \/ ProxyTurns \/ Expire) => LeakInv'
<1> SUFFICES ASSUME LeakInv PROVE (HostMoves \/ ProxyTurns \/ Expire) => LeakInv'
  OBVIOUS
<1>1. ASSUME HostMoves PROVE LeakInv'
  BY <1>1 DEF HostMoves, LeakInv, LeakTypeOK, BaselineInv, ExitInv, DnsInv, world
<1>2. ASSUME ProxyTurns \/ Expire PROVE LeakInv'
  <2>1. /\ UNCHANGED <<world, hostIP, step, baseline, report, moved, route, tookPlace>>
        /\ proxyUp' \in BOOLEAN /\ expired' \in BOOLEAN /\ (expired => expired')
    BY <1>2 DEF ProxyTurns, Expire, LeakInv, LeakTypeOK
  <2>2. LeakTypeOK'
    BY <2>1 DEF LeakInv, LeakTypeOK, world
  <2>3. BaselineInv' /\ ExitInv' /\ DnsInv'
    BY <2>1 DEF LeakInv, BaselineInv, ExitInv, DnsInv, world
  <2> QED
    BY <2>1, <2>2, <2>3 DEF LeakInv
<1> QED
  BY <1>1, <1>2

(* The invariant of the leak test: where each check stands, what the baseline is
   worth, and which facts each assertion rests on. *)
THEOREM LeakInvariant == LeakSpec => []LeakInv
<1>1. LeakInv /\ UNCHANGED leakVars => LeakInv'
  BY DEF LeakInv, LeakTypeOK, BaselineInv, ExitInv, DnsInv, leakVars, world
<1>2. LeakInv /\ [LeakSteps]_leakVars => LeakInv'
  BY <1>1, BaselineStep, ProbeStep, PullStep, ResolveStep, WorldStep DEF LeakSteps
<1> QED
  BY LeakInitInv, <1>2, PTL DEF LeakSpec

(* A green verify is earned: an exit code of 0 means that the jailed tool's request
   went through the proxy, or the baseline was not the host's address any more, and
   that the name was resolved over TCP. *)
THEOREM NoFalsePassHolds == LeakSpec => []NoFalsePass
<1>1. LeakInv => NoFalsePass
  <2> SUFFICES ASSUME LeakInv, step = "reported", ExitCode = 0 PROVE NoFalsePass
    BY DEF NoFalsePass
  <2>1. ReportOk(report)
    BY DEF ExitCode
  <2>2. 1 \in DOMAIN report /\ 2 \in DOMAIN report
    BY DEF LeakInv, DnsInv
  <2>3. report[1].ok /\ report[2].ok
    BY <2>1, <2>2 DEF ReportOk
  <2> QED
    BY <2>3 DEF LeakInv, ExitInv, DnsInv, NoFalsePass
<1> QED
  BY <1>1, LeakInvariant, PTL

(* The forwarder is blamed only for what a container with its image was not answered,
   and if that container did not run to its end, the context was done; a leak is
   reported only for what did not go through the proxy, or of a proxy that exits where
   the baseline was measured. *)
THEOREM BlameIsEarnedHolds == LeakSpec => []BlameIsEarned
<1>1. LeakInv => BlameIsEarned
  <2> SUFFICES ASSUME LeakInv, NEW i \in DOMAIN report
               PROVE  /\ report[i].blames = "forwarder" =>
                            /\ "pull" \in tookPlace /\ "answer" \notin tookPlace
                            /\ "run" \in tookPlace \/ expired
                      /\ report[i].blames = "leak" => route = "host" \/ exitIP = baseline
    BY DEF BlameIsEarned
  <2>1. CASE step \in {"baseline", "probe"}
    BY <2>1 DEF LeakInv, BaselineInv
  <2>2. CASE step \in {"pull", "resolve"}
    <3>1. i = 1
      BY <2>2 DEF LeakInv, DnsInv
    <3> QED
      BY <2>2, <3>1 DEF LeakInv, ExitInv
  <2>3. CASE step = "reported"
    <3>1. i = 1 \/ i = 2
      BY <2>3 DEF LeakInv, DnsInv
    <3> QED
      BY <2>3, <3>1 DEF LeakInv, ExitInv, DnsInv
  <2> QED
    BY <2>1, <2>2, <2>3 DEF LeakInv, LeakTypeOK
<1> QED
  BY <1>1, LeakInvariant, PTL

-----------------------------------------------------------------------------
(* The command. *)

(* The command takes the steps of the leak test and no others in it. *)
THEOREM CommandRunsLeakTest == Spec => LeakSpec
<1>1. MainInit => LeakInit
  BY DEF MainInit
<1>2. [Next]_vars => [LeakSteps]_leakVars
  BY DEF Next, ReportExit, Finished, vars
<1> QED
  BY <1>1, <1>2, PTL DEF Spec, LeakSpec

(* A command that parses, dials or hands over has no exit code of 0. *)
LEMMA CommandExits ==
    ASSUME CommandSteps
    PROVE  phase # "exited" /\ exit' \in {exit, 1, 2}
<1>1. CASE Scan
  <2>1. PICK a \in Arguments[verb] :
          \/ ScanValue(a) \/ ScanPositional(a) \/ ScanMarker(a) \/ ScanSwitch(a)
          \/ ScanValued(a) \/ ScanVerbatim(a) \/ ScanRefused(a)
    BY <1>1 DEF Scan
  <2>2. exit' \in {exit, 1, 2}
    BY <2>1 DEF ScanValue, ScanPositional, ScanMarker, ScanSwitch, ScanValued,
       ScanVerbatim, ScanRefused, Stay, Usage, Exit
  <2> QED
    BY <1>1, <2>2 DEF Scan
<1>2. CASE Parse
  BY <1>2 DEF Parse, Usage, Exit
<1>3. CASE Preflight
  BY <1>3 DEF Preflight, Exit
<1>4. CASE Hand
  BY <1>4 DEF Hand, Exit
<1> QED
  BY <1>1, <1>2, <1>3, <1>4 DEF CommandSteps

(* An exit code of 0 is that of a report. *)
ReportedExit == exit = 0 => phase = "exited" /\ step = "reported" /\ ExitCode = 0

LEMMA ExitStep == ReportedExit /\ [Next]_vars => ReportedExit'
<1> SUFFICES ASSUME ReportedExit, [Next]_vars, exit' = 0
             PROVE  phase' = "exited" /\ step' = "reported" /\ ExitCode' = 0
  BY DEF ReportedExit
<1>1. CASE UNCHANGED vars
  BY <1>1 DEF vars, cmdVars, leakVars, ReportedExit, ExitCode
<1>2. CASE CommandSteps
  BY <1>2, CommandExits DEF ReportedExit
<1>3. CASE phase = "dispatched" /\ LeakSteps /\ UNCHANGED cmdVars
  BY <1>3 DEF ReportedExit, cmdVars
<1>4. CASE ReportExit
  BY <1>4 DEF ReportExit, Exit, ExitCode, leakVars
<1> QED
  BY <1>1, <1>2, <1>3, <1>4 DEF Next, Finished

(* netcage verify exits with 0 only if the test took place and was passed: the
   jailed tool's request went through the proxy, or the baseline was not the host's
   address any more, and the forwarder answered over TCP. *)
THEOREM VerifyEarnsItsExit ==
    Spec => [](exit = 0 => NoFalsePass /\ step = "reported" /\ ExitCode = 0)
<1>1. MainInit => ReportedExit
  <2>1. MainInit => exit = -1
    BY Zenon DEF MainInit, Init
  <2> QED
    BY <2>1 DEF ReportedExit
<1>2. Spec => []ReportedExit
  BY <1>1, ExitStep, PTL DEF Spec
<1>3. Spec => []NoFalsePass
  BY CommandRunsLeakTest, NoFalsePassHolds, PTL
<1>4. ReportedExit /\ NoFalsePass =>
        (exit = 0 => NoFalsePass /\ step = "reported" /\ ExitCode = 0)
  BY DEF ReportedExit
<1> QED
  BY <1>2, <1>3, <1>4, PTL

-----------------------------------------------------------------------------
\* The leak test does not touch the scan.
LEMMA ScanStays == ScanInv /\ UNCHANGED cmdVars => ScanInv'
<1> SUFFICES ASSUME ScanInv, UNCHANGED cmdVars PROVE ScanInv'
  OBVIOUS
<1>1. UNCHANGED scanned /\ phase' = phase
  BY DEF cmdVars, scanned
<1>2. phase' \in {"parsed", "dispatched", "handed"} => Accepted'
  BY <1>1, AcceptedStays DEF ScanInv
<1> QED BY <1>1, <1>2 DEF ScanInv, scanned

\* Every step of the program keeps the invariant of the scan.
LEMMA ScanNext == ScanInv /\ [Next]_vars => ScanInv'
<1> SUFFICES ASSUME ScanInv, [Next]_vars PROVE ScanInv'
  OBVIOUS
<1>1. CASE CommandSteps
  BY <1>1, ScanStep
<1>2. CASE UNCHANGED cmdVars
  BY <1>2, ScanStays
<1>3. CASE ReportExit
  BY <1>3 DEF ReportExit, Exit, ScanInv, scanned
<1> QED BY <1>1, <1>2, <1>3 DEF Next, Finished, vars

(* What the scan has parsed is at every time made of the verb's own flags and of the
   user's arguments, and a line that gets past it was accepted. *)
THEOREM ScanInvariant == Spec => []ScanInv
<1>1. MainInit => ScanInv
  BY ScanInit DEF MainInit
<1> QED BY <1>1, ScanNext, PTL DEF Spec

(* What the scan of a run knows of the marker: behind it, before the image, it is the
   argument read last; and an image that is a flag was read directly behind it. *)
MarkInv ==
    verb = "run" =>
        /\ pending # "" => ~ended
        /\ pos # <<>> => ended
        /\ ended /\ pos = <<>> => argv # <<>> /\ argv[Len(argv)] = <<"--">>
        /\ pos # <<>> /\ Dashed(pos[1]) =>
             Len(pos) < Len(argv) /\ argv[Len(argv) - Len(pos)] = <<"--">>

\* An argument more moves no argument.
LEMMA Longer ==
    ASSUME NEW S, NEW s \in Seq(S), NEW e \in S
    PROVE  /\ Append(s, e) # <<>> /\ Len(Append(s, e)) = Len(s) + 1 /\ Len(s) \in Nat
           /\ Append(s, e)[Len(s) + 1] = e
           /\ \A i \in 1 .. Len(s) : Append(s, e)[i] = s[i]
           /\ s # <<>> => Len(s) > 0
<1>1. Append(s, e) \in Seq(S) /\ Len(Append(s, e)) = Len(s) + 1 /\ Len(s) \in Nat
  OBVIOUS
<1>2. Append(s, e)[Len(s) + 1] = e
  BY LastAppended, Zenon
<1>3. \A i \in 1 .. Len(s) : Append(s, e)[i] = s[i]
  OBVIOUS
<1>4. s # <<>> => Len(s) > 0
  OBVIOUS
<1>5. Append(s, e) # <<>>
  BY <1>1
<1> QED BY <1>1, <1>2, <1>3, <1>4, <1>5

\* The image, or an argument of the tool, is read.
LEMMA MarkPositional ==
    ASSUME ScanInv, MarkInv, verb = "run", NEW a \in Arguments[verb],
           ScanPositional(a), argv' = Append(argv, a), verb' = verb
    PROVE  MarkInv'
<1>1. a \in Given /\ argv \in Seq(Given) /\ pos \in Seq(Given)
  BY GivenIs DEF ScanInv
<1>2. /\ pending' = "" /\ ended' /\ pos' = Append(pos, a) /\ (ended \/ ~Dashed(a))
  BY DEF ScanPositional, EndsFlags, Mixed
<1>3. /\ pos' # <<>> /\ Len(pos') = Len(pos) + 1 /\ Len(pos) \in Nat
      /\ pos = <<>> => pos'[1] = a
      /\ pos # <<>> => pos'[1] = pos[1]
  <2>1. /\ pos' # <<>> /\ Len(pos') = Len(pos) + 1 /\ Len(pos) \in Nat
        /\ pos'[Len(pos) + 1] = a
        /\ \A i \in 1 .. Len(pos) : pos'[i] = pos[i]
        /\ pos # <<>> => Len(pos) > 0
    BY <1>1, <1>2, Longer
  <2>2. CASE pos = <<>>
    <3>1. Len(pos) = 0
      BY <2>2
    <3>2. Len(pos) + 1 = 1
      BY <3>1
    <3>3. pos'[1] = a
      BY <2>1, <3>2
    <3> QED BY <2>1, <2>2, <3>3
  <2>3. CASE pos # <<>>
    <3>1. 1 \in 1 .. Len(pos)
      BY <2>1, <2>3
    <3> QED BY <2>1, <2>3, <3>1
  <2> QED BY <2>2, <2>3
<1>4. /\ Len(argv') = Len(argv) + 1 /\ Len(argv) \in Nat
      /\ \A i \in 1 .. Len(argv) : argv'[i] = argv[i]
      /\ argv # <<>> => Len(argv) > 0
  BY <1>1, Longer
<1>5. ASSUME Dashed(pos'[1])
      PROVE  Len(pos') < Len(argv') /\ argv'[Len(argv') - Len(pos')] = <<"--">>
  <2>1. CASE pos = <<>>
    <3>1. argv # <<>> /\ argv[Len(argv)] = <<"--">>
      BY <1>2, <1>3, <1>5, <2>1 DEF MarkInv
    <3>2. Len(pos) = 0
      BY <2>1
    <3> QED BY <1>3, <1>4, <3>1, <3>2
  <2>2. CASE pos # <<>>
    <3>1. Len(pos) < Len(argv) /\ argv[Len(argv) - Len(pos)] = <<"--">>
      BY <1>3, <1>5, <2>2 DEF MarkInv
    <3>2. Len(pos) > 0
      BY <1>1, <2>2, Longer
    <3>3. Len(argv') - Len(pos') = Len(argv) - Len(pos)
      BY <1>3, <1>4
    <3> QED BY <1>3, <1>4, <3>1, <3>2, <3>3
  <2> QED BY <2>1, <2>2
<1> QED BY <1>2, <1>3, <1>5 DEF MarkInv

LEMMA MarkStep == ScanInv /\ MarkInv /\ CommandSteps => MarkInv'
<1> SUFFICES ASSUME ScanInv, MarkInv, CommandSteps PROVE MarkInv'
  OBVIOUS
<1>1. CASE Scan
  <2>1. PICK a \in Arguments[verb] :
          /\ argv' = Append(argv, a)
          /\ \/ ScanValue(a) \/ ScanPositional(a) \/ ScanMarker(a) \/ ScanSwitch(a)
             \/ ScanValued(a) \/ ScanVerbatim(a) \/ ScanRefused(a)
    BY <1>1, Zenon DEF Scan
  <2>2. verb' = verb
    BY <1>1 DEF Scan
  <2> SUFFICES ASSUME verb = "run" PROVE MarkInv'
    BY <2>2 DEF MarkInv
  <2>3. CASE ScanValue(a)
    BY <2>2, <2>3 DEF ScanValue, MarkInv
  <2>4. CASE ScanPositional(a)
    BY <2>1, <2>2, <2>4, MarkPositional
  <2>5. CASE ScanMarker(a)
    <3>1. a = <<"--">> /\ pending = "" /\ ~ended /\ pending' = pending /\ pos' = pos
      BY <2>5 DEF ScanMarker, AtFlag, Marker
    <3>2. pos = <<>>
      BY <3>1 DEF MarkInv
    <3>3. argv' # <<>> /\ argv'[Len(argv')] = a
      BY <2>1, GivenIs, Longer DEF ScanInv
    <3> QED BY <3>1, <3>2, <3>3 DEF MarkInv
  <2>6. CASE ScanSwitch(a) \/ ScanValued(a) \/ ScanVerbatim(a) \/ ScanRefused(a)
    <3>1. ~ended /\ ended' = ended /\ pos' = pos
      BY <2>6 DEF ScanSwitch, ScanValued, ScanVerbatim, ScanRefused, AtFlag
    <3>2. pos = <<>>
      BY <3>1 DEF MarkInv
    <3> QED BY <3>1, <3>2 DEF MarkInv
  <2> QED BY <2>1, <2>3, <2>4, <2>5, <2>6
<1>2. CASE Parse \/ Preflight \/ Hand
  <2>1. UNCHANGED scanned
    BY <1>2 DEF Parse, Preflight, Hand
  <2> QED BY <2>1 DEF scanned, MarkInv
<1> QED BY <1>1, <1>2 DEF CommandSteps

(* Where the marker of a run is, at every time. *)
THEOREM MarkInvariant == Spec => []MarkInv
<1>1. MainInit => MarkInv
  <2> SUFFICES ASSUME MainInit, verb = "run" PROVE MarkInv
    BY DEF MarkInv
  <2>1. pending = "" /\ pos = <<>> /\ ~ended
    <3>1. pending = "" /\ pos = <<>> /\ ended = (verb \in RawVerbs)
      BY DEF MainInit, Init
    <3>2. verb \notin RawVerbs
      BY SMT DEF RawVerbs
    <3> QED BY <3>1, <3>2, Zenon
  <2> QED BY <2>1 DEF MarkInv
<1>2. ScanInv /\ MarkInv /\ [Next]_vars => MarkInv'
  <2> SUFFICES ASSUME ScanInv, MarkInv, [Next]_vars PROVE MarkInv'
    OBVIOUS
  <2>1. CASE CommandSteps
    BY <2>1, MarkStep
  <2>2. CASE UNCHANGED cmdVars
    BY <2>2 DEF MarkInv, cmdVars
  <2>3. CASE ReportExit
    BY <2>3 DEF ReportExit, scanned, MarkInv
  <2> QED BY <2>1, <2>2, <2>3 DEF Next, Finished, vars
<1> QED BY <1>1, <1>2, ScanInvariant, PTL DEF Spec

(* The handing over. *)
LEMMA HandOwned ==
    ASSUME ScanInv, MarkInv, Hand
    PROVE  JailFlagsOwned'
<1> SUFFICES ASSUME phase' = "handed" PROVE JailFlagsOwned'
  BY DEF JailFlagsOwned
<1>1. line' = Line /\ verb' = verb /\ pos' = pos /\ argv' = argv
  BY DEF Hand, Exit, scanned
<1>3. CASE verb = "run"
  <2>1. line' = ToolRunArgs
    BY <1>1, <1>3 DEF Line
  <2> DEFINE given == Reading("run", {}, ToolRunArgs).flags
  <2>2. ASSUME pos = <<>> \/ ~Dashed(pos[1])
        PROVE  JailOwned(given)
    BY <1>3, <2>2, ScanIsRun, RunOwned DEF JailOwned
  <2>3. ASSUME pos # <<>>, Dashed(pos[1])
        PROVE  FlagBehindMarker'
    <3>1. FlagBehindMarker
      BY <1>3, <2>3, Zenon DEF MarkInv, FlagBehindMarker
    <3> QED BY <1>1, <3>1, Zenon DEF FlagBehindMarker
  <2>4. Reading(verb', {}, line').flags = given
    BY <1>1, <1>3, <2>1
  <2>5. verb' # "ps"
    BY <1>1, <1>3
  <2> HIDE DEF given
  <2>6. JailOwned(given) \/ FlagBehindMarker'
    BY <2>2, <2>3, Zenon
  <2> QED BY <2>4, <2>5, <2>6, Zenon DEF JailFlagsOwned
<1>4. CASE verb = "ps"
  <2>1. line' = PsArgs
    BY <1>1, <1>4 DEF Line
  <2> DEFINE given == Reading("ps", {}, PsArgs).flags
  <2>2. ValuesIn(given, "--filter")[1] = ManagedFilter
    BY <1>4, PsOwned DEF ScanInv
  <2>3. Reading(verb', {}, line').flags = given
    BY <1>1, <1>4, <2>1
  <2>4. verb' # "run"
    BY <1>1, <1>4
  <2> HIDE DEF given
  <2> QED BY <2>2, <2>3, <2>4, Zenon DEF JailFlagsOwned
<1>5. CASE verb \notin {"run", "ps"}
  BY <1>1, <1>5 DEF JailFlagsOwned
<1> QED BY <1>3, <1>4, <1>5

(* Only Hand hands over. *)
LEMMA HandedBy ==
    ASSUME CommandSteps, phase' = "handed"
    PROVE  Hand
<1>1. CASE Scan
  <2>1. PICK a \in Arguments[verb] :
          \/ ScanValue(a) \/ ScanPositional(a) \/ ScanMarker(a) \/ ScanSwitch(a)
          \/ ScanValued(a) \/ ScanVerbatim(a) \/ ScanRefused(a)
    BY <1>1, Zenon DEF Scan
  <2> QED BY <1>1, <2>1 DEF Scan, ScanValue, ScanPositional, ScanMarker, ScanSwitch,
             ScanValued, ScanVerbatim, ScanRefused, Stay, Usage, Exit
<1>2. CASE Parse \/ Preflight
  BY <1>2 DEF Parse, Preflight, Usage, Exit
<1> QED BY <1>1, <1>2 DEF CommandSteps

\* Nor the line that was handed over.
LEMMA OwnedStays == JailFlagsOwned /\ UNCHANGED cmdVars => JailFlagsOwned'
BY Zenon DEF JailFlagsOwned, FlagBehindMarker, cmdVars

(* Whatever is on the user's line, podman reads netcage's own name and network on the
   line of a run, each once, and no other flag that could widen the jail, or the line
   has a flag in the place of the image, directly behind the end-of-flags marker; and
   on the line of a ps the filter for managed containers is before any other. *)
THEOREM JailFlagsOwnedHolds == Spec => []JailFlagsOwned
<1>1. MainInit => JailFlagsOwned
  <2>1. MainInit => phase = "scan"
    BY Zenon DEF MainInit, Init
  <2> QED BY <2>1 DEF JailFlagsOwned
<1>2. ScanInv /\ MarkInv /\ JailFlagsOwned /\ [Next]_vars => JailFlagsOwned'
  <2> SUFFICES ASSUME ScanInv, MarkInv, JailFlagsOwned, [Next]_vars PROVE JailFlagsOwned'
    OBVIOUS
  <2>1. CASE CommandSteps
    <3>1. CASE phase' = "handed"
      BY <2>1, <3>1, HandedBy, HandOwned
    <3>2. CASE phase' # "handed"
      BY <3>2 DEF JailFlagsOwned
    <3> QED BY <3>1, <3>2
  <2>2. CASE UNCHANGED cmdVars
    BY <2>2, OwnedStays
  <2>3. CASE ReportExit
    BY <2>3 DEF ReportExit, Exit, JailFlagsOwned
  <2> QED BY <2>1, <2>2, <2>3 DEF Next, Finished, vars
<1> QED BY <1>1, <1>2, ScanInvariant, MarkInvariant, PTL DEF Spec

(* The handing over is what podman would read of the user's own line. *)
LEMMA SameStays ==
    ASSUME NEW u, NEW given, verb' = verb, SameReading(u, given)
    PROVE  SameReading(u, given)'
<1> USE DEF Truths
<1>1. \A f : AskedAll(u.flags, f)' = AskedAll(u.flags, f)
  BY DEF AskedAll
<1>2. \A f : AskedLast(u.flags, f)' = AskedLast(u.flags, f)
  BY DEF AskedLast
<1>3. \A f : AskedOn(u.flags, f)' <=> AskedOn(u.flags, f)
  BY DEF AskedOn
<1> QED BY <1>1, <1>2, <1>3 DEF SameReading

\* Whether the values of switches are heeded depends on the verb only.
LEMMA HeededStays ==
    ASSUME NEW asked, verb' = verb PROVE Heeded(asked)' <=> Heeded(asked)
BY DEF Heeded

\* What is handed over is read as the user's own line would be.
LEMMA HandSame ==
    ASSUME ScanInv, UserInv, Hand
    PROVE  SameCommand'
<1> SUFFICES ASSUME phase' = "handed", NamesAreWords' PROVE SameCommand'
  BY DEF SameCommand
<1>1. /\ line' = Line /\ verb' = verb /\ pos' = pos /\ argv' = argv /\ phase = "dispatched"
  BY DEF Hand, Exit, scanned
<1>2. NamesAreWords /\ LineRead
  BY <1>1 DEF NamesAreWords, LineRead
<1> DEFINE user == Reading(verb, IF verb = "run" THEN {"--proxy", "--allow"} ELSE {}, argv)
           given == Reading(verb, {}, Line)
<1>3. verb \in {"run", "exec", "commit", "inspect"} => UserRead = user
  BY DEF UserRead, AsRun, Own
<1>4. ASSUME verb \in {"run", "exec", "commit", "inspect"}, Heeded(user.flags),
             verb = "inspect" => user.ok
      PROVE  SameReading(user, given)
  <2> HIDE DEF user
  <2>1. UserRead = user
    BY <1>3, <1>4
  <2>2. Heeded(UserRead.flags) /\ (verb = "inspect" => UserRead.ok)
    BY <1>4, <2>1
  <2>3. SameReading(UserRead, given)
    BY <1>2, <1>4, <2>2, RunSame, ExecSame, CommitSame, InspectSame
  <2> QED BY <2>1, <2>3
<1>5. ASSUME verb = "start" PROVE LosesNothing(Reading("run", {"--proxy", "--allow"}, argv))
  <2>1. UserRead = Reading("run", {"--proxy", "--allow"}, argv)
    BY <1>5 DEF UserRead, AsRun, Own
  <2>2. LosesNothing(UserRead)
    BY <1>2, <1>5, StartSame
  <2> QED BY <2>1, <2>2
<1>6. PICK u, w : u = user /\ w = given
  OBVIOUS
<1>7. /\ Reading(verb', IF verb' = "run" THEN {"--proxy", "--allow"} ELSE {}, argv') = u
      /\ Reading(verb', {}, line') = w
  BY <1>1, <1>6
<1> HIDE DEF user, given
<1>8. ASSUME verb \in {"run", "exec", "commit", "inspect"}, Heeded(u.flags)',
             verb = "inspect" => u.ok
      PROVE  SameReading(u, w)'
  <2>1. Heeded(u.flags)
    BY <1>1, <1>8, HeededStays
  <2>2. SameReading(u, w)
    BY <1>4, <1>6, <1>8, <2>1
  <2> QED BY <1>1, <2>2, SameStays
<1> QED BY <1>1, <1>5, <1>7, <1>8 DEF SameCommand

\* The leak test does not touch the agreement either.
LEMMA UserStays == UserInv /\ UNCHANGED cmdVars => UserInv'
<1> SUFFICES ASSUME UserInv, UNCHANGED cmdVars PROVE UserInv'
  OBVIOUS
<1>1. UNCHANGED scanned /\ phase' = phase
  BY DEF cmdVars, scanned
<1>2. CASE phase = "exited"
  BY <1>1, <1>2 DEF UserInv
<1>3. CASE phase # "exited"
  BY <1>1, <1>3, ReadStays
<1> QED BY <1>2, <1>3

\* Nor the line that was handed over.
LEMMA SameCommandStays == SameCommand /\ UNCHANGED cmdVars => SameCommand'
<1> SUFFICES ASSUME SameCommand, UNCHANGED cmdVars, phase = "handed", NamesAreWords
             PROVE  SameCommand'
  BY DEF SameCommand, NamesAreWords, cmdVars
<1>1. verb' = verb /\ argv' = argv /\ line' = line
  BY DEF cmdVars
<1> DEFINE user == Reading(verb, IF verb = "run" THEN {"--proxy", "--allow"} ELSE {}, argv)
           given == Reading(verb, {}, line)
<1>2. PICK u, w : u = user /\ w = given
  OBVIOUS
<1>3. /\ verb \in {"run", "exec", "commit", "inspect"} =>
           (Heeded(u.flags) /\ (verb = "inspect" => u.ok) => SameReading(u, w))
      /\ verb = "start" => LosesNothing(Reading("run", {"--proxy", "--allow"}, argv))
  BY <1>2 DEF SameCommand
<1>5. /\ Reading(verb', IF verb' = "run" THEN {"--proxy", "--allow"} ELSE {}, argv') = u
      /\ Reading(verb', {}, line') = w
  BY <1>1, <1>2
<1> HIDE DEF user, given
<1>4. ASSUME verb \in {"run", "exec", "commit", "inspect"}, Heeded(u.flags)',
             verb = "inspect" => u.ok
      PROVE  SameReading(u, w)'
  <2>1. Heeded(u.flags)
    BY <1>1, <1>4, HeededStays
  <2>2. SameReading(u, w)
    BY <1>3, <1>4, <2>1
  <2> QED BY <1>1, <2>2, SameStays
<1> QED BY <1>1, <1>3, <1>4, <1>5 DEF SameCommand

\* Every step of the program keeps the agreement of the two readings.
LEMMA UserInvNext == ScanInv /\ UserInv /\ [Next]_vars => UserInv'
<1> SUFFICES ASSUME ScanInv, UserInv, [Next]_vars PROVE UserInv'
  OBVIOUS
<1>1. CASE CommandSteps
  BY <1>1, UserStep
<1>2. CASE UNCHANGED cmdVars
  BY <1>2, UserStays
<1>3. CASE ReportExit
  BY <1>3 DEF ReportExit, Exit, UserInv
<1> QED BY <1>1, <1>2, <1>3 DEF Next, Finished, vars

(* netcage's scan of a line that is handed over to podman has at every argument
   understood what podman would have. *)
THEOREM UserInvariant == Spec => []UserInv
<1>1. MainInit => UserInv
  BY UserInit DEF MainInit
<1> QED BY <1>1, UserInvNext, ScanInvariant, PTL DEF Spec

(* podman reads on the line netcage hands over what it would have read on the user's
   own: the same flags with the same values, but for the defaults of a run that are
   promised and the values on switches that are not heeded, and the same command.
   Of a start nothing is lost, for netcage refuses what it could not pass on. *)
THEOREM SameCommandHolds == Spec => []SameCommand
<1>1. MainInit => SameCommand
  <2>1. MainInit => phase = "scan"
    BY Zenon DEF MainInit, Init
  <2> QED BY <2>1 DEF SameCommand
<1>2. ScanInv /\ UserInv /\ SameCommand /\ [Next]_vars => SameCommand'
  <2> SUFFICES ASSUME ScanInv, UserInv, SameCommand, [Next]_vars PROVE SameCommand'
    OBVIOUS
  <2>1. CASE CommandSteps
    <3>1. CASE phase' = "handed"
      BY <2>1, <3>1, HandedBy, HandSame
    <3>2. CASE phase' # "handed"
      BY <3>2 DEF SameCommand
    <3> QED BY <3>1, <3>2
  <2>2. CASE UNCHANGED cmdVars
    BY <2>2, SameCommandStays
  <2>3. CASE ReportExit
    BY <2>3 DEF ReportExit, Exit, SameCommand
  <2> QED BY <2>1, <2>2, <2>3 DEF Next, Finished, vars
<1> QED BY <1>1, <1>2, ScanInvariant, UserInvariant, PTL DEF Spec
=============================================================================
