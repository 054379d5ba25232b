------------------------------ MODULE LeakTest -------------------------------
(***************************************************************************)
(* The leak test of netcage verify (internal/verify/verify.go): two checks,*)
(* one after the other, each of which runs an ephemeral jail.              *)
(*                                                                         *)
(* The first compares the address an echo service sees of the host with    *)
(* the one it sees of a jailed tool; the second resolves a name in a glibc *)
(* container, whose queries go over TCP.  What the jail does is a fact the *)
(* test is to find out: jailed and overTCP say it, and the test sees only  *)
(* answers.  The host may change its address, the proxy may go down, any   *)
(* step may fail, and the three minutes may be over, at any moment.        *)
(***************************************************************************)
EXTENDS Integers, Sequences

CONSTANTS
    Addresses,  \* what the echo service may answer
    NoAddress   \* an answer without an address in it

ASSUME LeakAssumption == NoAddress \notin Addresses

VARIABLES
    jailed,     \* the jail forces the tool's TCP through the proxy
    overTCP,    \* the jail's DNS forwarder answers over TCP
    exitIP,     \* the address the proxy exits at
    envProxy,   \* where HTTP_PROXY of the environment exits, or NoAddress without one
    hostIP,     \* the host's own address
    proxyUp,    \* the proxy answers
    expired,    \* the context is done: three minutes, or a signal
    step,       \* "baseline", "probe", "pull", "resolve" or "reported"
    baseline,   \* the host's address as the first check saw it
    report,     \* the assertions so far
    moved,      \* history: the host changed its address after the baseline
    route,      \* history: how the probe's answer travelled
    tookPlace   \* history: the steps of the second check that were done

world == <<jailed, overTCP, exitIP, envProxy>>
leakVars == <<world, hostIP, proxyUp, expired, step, baseline, report, moved, route, tookPlace>>

(* An assertion, and what its failure is put down to. *)
Pass == [ok |-> TRUE, blames |-> "nothing"]
Fail(on) == [ok |-> FALSE, blames |-> on]

LeakInit ==
    /\ jailed \in BOOLEAN /\ overTCP \in BOOLEAN
    /\ exitIP \in Addresses /\ hostIP \in Addresses
    /\ envProxy \in Addresses \union {NoAddress}
    /\ proxyUp = TRUE
    /\ expired = FALSE
    /\ step = "baseline"
    /\ baseline = NoAddress
    /\ report = <<>>
    /\ moved = FALSE
    /\ route = "none"
    /\ tookPlace = {}

(* Run goes on after a failed check: the report is complete. *)
Concludes(assertion, next) ==
    /\ report' = Append(report, assertion)
    /\ step' = next

-----------------------------------------------------------------------------
(* hostExitIP, without the jail: no answer, or none with an address, is no finding.
   http.DefaultClient goes through the proxy of the environment, if it has one. *)
Measured == IF envProxy = NoAddress THEN hostIP ELSE envProxy
Baseline ==
    /\ step = "baseline"
    /\ \/ Concludes(Fail("setup"), "pull") /\ UNCHANGED baseline
       \/ ~expired /\ baseline' = Measured /\ step' = "probe" /\ UNCHANGED report
    /\ UNCHANGED <<world, hostIP, proxyUp, expired, moved, route, tookPlace>>

(* The assertion about the address the jailed tool saw, if it saw one. *)
ExitAssertion_EmptyDiffers(ip) ==
    IF ip = baseline THEN Fail("leak") ELSE Pass
ExitAssertion(ip) ==
    IF ip = NoAddress THEN Fail("closed")
    ELSE IF ip = baseline THEN Fail("leak") ELSE Pass

(* The context is done while the jail's tool runs: podman is killed, which jail.Run
   takes for the tool's exit (run.go:196-208), so its output is an answer without
   an address and no error.  Done before that, it fails the podman call. *)
KilledMidway == ~expired /\ expired' = TRUE

(* ExitIPProbe: the jail could not be run, or the tool ended with or without an
   answer, which came by the proxy, or straight from a jail that leaks. *)
Probe ==
    /\ step = "probe"
    /\ \/ Concludes(Fail("setup"), "pull") /\ UNCHANGED <<route, expired>>
       \/ /\ ~expired /\ UNCHANGED expired
          /\ \/ Concludes(ExitAssertion(NoAddress), "pull") /\ UNCHANGED route
             \/ /\ jailed /\ proxyUp
                /\ Concludes(ExitAssertion(exitIP), "pull") /\ route' = "proxy"
             \/ ~jailed /\ Concludes(ExitAssertion(hostIP), "pull") /\ route' = "host"
       \/ KilledMidway /\ Concludes(ExitAssertion(NoAddress), "pull") /\ UNCHANGED route
    /\ UNCHANGED <<world, hostIP, proxyUp, baseline, moved, tookPlace>>

(* dnsOverTCPAssertion *)
DnsAssertion_ErrorIgnored(pulled, ran, ip) ==
    IF ~pulled THEN Fail("setup")
    ELSE IF ip # NoAddress THEN Pass ELSE Fail("forwarder")
DnsAssertion(pulled, ran, ip) ==
    IF ~pulled \/ ~ran THEN Fail("setup")
    ELSE IF ip # NoAddress THEN Pass ELSE Fail("forwarder")

(* PullImage, on the host's network; without the image there is nothing to run. *)
Pull ==
    /\ step = "pull"
    /\ \/ Concludes(DnsAssertion(FALSE, FALSE, NoAddress), "reported") /\ UNCHANGED tookPlace
       \/ ~expired /\ step' = "resolve" /\ tookPlace' = {"pull"} /\ UNCHANGED report
    /\ UNCHANGED <<world, hostIP, proxyUp, expired, baseline, moved, route>>

(* DNSProbe: getent has an answer if the forwarder serves TCP, the proxy is up
   and a resolver behind it answers; none if it is killed. *)
Resolve ==
    /\ step = "resolve"
    /\ \/ /\ Concludes(DnsAssertion(TRUE, FALSE, NoAddress), "reported")
          /\ UNCHANGED <<tookPlace, expired>>
       \/ /\ ~expired /\ UNCHANGED expired
          /\ \/ /\ Concludes(DnsAssertion(TRUE, TRUE, NoAddress), "reported")
                /\ tookPlace' = tookPlace \union {"run"}
             \/ /\ overTCP /\ proxyUp
                /\ \E ip \in Addresses : Concludes(DnsAssertion(TRUE, TRUE, ip), "reported")
                /\ tookPlace' = tookPlace \union {"run", "answer"}
       \/ /\ KilledMidway
          /\ Concludes(DnsAssertion(TRUE, TRUE, NoAddress), "reported")
          /\ UNCHANGED tookPlace
    /\ UNCHANGED <<world, hostIP, proxyUp, baseline, moved, route>>

-----------------------------------------------------------------------------
(* The world goes on during the test. *)
HostMoves ==
    /\ step \in {"baseline", "probe"}
    /\ hostIP' \in Addresses \ {hostIP}
    /\ moved' = (step = "probe")
    /\ UNCHANGED <<world, proxyUp, expired, step, baseline, report, route, tookPlace>>

ProxyTurns ==
    /\ step # "reported"
    /\ proxyUp' = ~proxyUp
    /\ UNCHANGED <<world, hostIP, expired, step, baseline, report, moved, route, tookPlace>>

Expire ==
    /\ step # "reported" /\ ~expired
    /\ expired' = TRUE
    /\ UNCHANGED <<world, hostIP, proxyUp, step, baseline, report, moved, route, tookPlace>>

LeakSteps ==
    \/ Baseline \/ Probe \/ Pull \/ Resolve
    \/ HostMoves \/ ProxyTurns \/ Expire

LeakSpec == LeakInit /\ [][LeakSteps]_leakVars

(* Report.Ok and ExitCode: every assertion passed, and there was one. *)
ReportOk(r) == r # <<>> /\ \A i \in DOMAIN r : r[i].ok
ExitCode == IF ReportOk(report) THEN 0 ELSE 1

-----------------------------------------------------------------------------
(* The types, and which part of the report there is at each step. *)
LeakTypeOK ==
    /\ jailed \in BOOLEAN /\ overTCP \in BOOLEAN /\ proxyUp \in BOOLEAN
    /\ expired \in BOOLEAN
    /\ exitIP \in Addresses /\ hostIP \in Addresses
    /\ envProxy \in Addresses \union {NoAddress}
    /\ baseline \in Addresses \union {NoAddress}
    /\ step \in {"baseline", "probe", "pull", "resolve", "reported"}
    /\ moved \in BOOLEAN
    /\ route \in {"none", "proxy", "host"}
    /\ tookPlace \in SUBSET {"pull", "run", "answer"}

(* A green verify is earned.  It exits 0 only if the jailed tool's traffic went
   through the proxy and its DNS was answered over TCP: an empty answer, a failed
   jail, a killed one or a dead proxy never pass.  A leak goes unnoticed in
   two ways only, both of which lie with the baseline: the host's address changed
   after it was measured, or it was not the host's at all, because the environment
   has an HTTP proxy (RunCommandVerify, verify.go:587-629). *)
NoFalsePass ==
    step = "reported" /\ ExitCode = 0 =>
        /\ \/ route = "proxy"
           \/ route = "host" /\ (moved \/ envProxy # NoAddress)
        /\ tookPlace = {"pull", "run", "answer"} /\ overTCP

(* No report blames what was not at fault, with one exception.  The forwarder is
   blamed only after its image was there and without an answer, by a container that
   ran to its end, or by one that was killed because the context was done, which
   verify.go:612-613 and 631-632 exclude; no failed pull and no failed jail is put down
   to it (dnsOverTCPAssertion).  And no report
   calls a leak what the proxy carried, unless the proxy exits where the baseline
   was measured. *)
BlameIsEarned ==
    \A i \in DOMAIN report :
        /\ report[i].blames = "forwarder" =>
             /\ "pull" \in tookPlace /\ "answer" \notin tookPlace
             /\ "run" \in tookPlace \/ expired
        /\ report[i].blames = "leak" => route = "host" \/ exitIP = baseline
=============================================================================
