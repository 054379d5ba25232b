---------------------------- MODULE JailLifecycle ----------------------------
(***************************************************************************)
(* The life of a netcage jail: the pair of containers of one run (the      *)
(* tun2socks sidecar that owns the netns, and the tool that joins it), the *)
(* host files the tool bind-mounts, and the netcage processes that build,  *)
(* revive, enter, stop and remove the pair.                                *)
(*                                                                         *)
(* Sources: internal/jail/run.go (Run, verifyFirewall, startSidecarDNS,    *)
(* checkReachback, Teardown), internal/jail/start.go (Start) and           *)
(* internal/manage/manage.go (the verbs rm, stop and exec).  Podman is     *)
(* outside src/internal: what it does is taken from                        *)
(* work/notes/findings/podman-network-container-dependency-lifecycle.md    *)
(* and from how the code uses it.                                          *)
(*                                                                         *)
(* A process is one invocation of the netcage command, from its launch to  *)
(* its exit.  Between two of its podman calls any other process, podman,   *)
(* the tool, the user and the host may move.                               *)
(***************************************************************************)
EXTENDS Naturals, FiniteSets

CONSTANTS
    Runs,       \* run ids (netcage-run-<id>-*)
    Procs,      \* netcage invocations; each one executes one command
    Configs,    \* jail configurations: --proxy together with --allow
    Loopback,   \* those whose proxy is on the host's loopback
    Split,      \* those with an --allow (a split tunnel)
    NFix,       \* number of fixed-content bind-mount files (resolv.conf, ...)
    MaxActive,  \* how many invocations may be in progress at once
    Verbs,      \* the commands that are issued
    Faults      \* what may go wrong, see FaultKinds

AllVerbs == {"run", "start", "stop", "rm", "exec"}

\* fail: a podman call or a file write returns an error, whether or not it had its
\* effect.   rule: a firewall rule fails, so `set -e` ends the script.   bind: the
\* DNS forwarder cannot bind.   cancel: SIGINT/SIGTERM.   crash: the netcage process
\* is killed.   die: the sidecar's process exits.   raw: the user runs
\* `podman start <tool>`.   sweep: the temp directory is cleaned.   unlink: a file
\* cannot be removed.   reboot: the host restarts.
FaultKinds == {"fail", "rule", "bind", "cancel", "crash", "die", "raw",
               "sweep", "unlink", "reboot"}

NoConfig == "no config"     \* what is baked when there is no sidecar yet
Nobody   == "nobody"        \* the launcher of a tool that never ran
User     == "user"          \* the launcher of a tool started without netcage

ASSUME LifecycleAssumption ==
    /\ Runs # {}
    /\ {Nobody, User} \cap Procs = {}
    /\ Configs # {}
    /\ NoConfig \notin Configs
    /\ Loopback \subseteq Configs
    /\ Split \subseteq Configs
    /\ NFix \in Nat \ {0}
    /\ MaxActive \in Nat \ {0}
    /\ Verbs \subseteq AllVerbs
    /\ Faults \subseteq FaultKinds

VARIABLES
    sidecar,    \* per run: the sidecar container
    tool,       \* per run: the tool container
    fw,         \* per run: the families whose OUTPUT chain is complete
    applying,   \* per run: the entrypoint's EXTRA_COMMANDS subshell still runs
    dns,        \* per run: netcage-dns is bound in the sidecar's netns
    baked,      \* per run: the configuration in the sidecar's create-time env
    autorm,     \* per run: the tool container was created with --rm
    fix,        \* per run: the fixed-content files present on the host
    mid,        \* per run: the value in the machine-id file, 0 when missing
    minted,     \* number of machine ids generated so far
    pc,         \* per process: where it is
    job,        \* per process: the command line
    at,         \* per process: the file being written or removed
    cancelled,  \* per process: its context is cancelled
    outcome,    \* per process: how its command ended
    left,       \* per process: what its Teardown could not remove, and if it said so
    probes,     \* processes whose reachback probe container exists
    seen,       \* history, per process: the netns whose chains it read (see Seen)
    launcher    \* history: who started the tool process that is running

conts   == <<sidecar, tool>>
netns   == <<fw, applying, dns, seen>>
create  == <<baked, autorm>>
files   == <<fix, mid, minted>>
ends    == <<outcome, left>>
vars    == <<sidecar, tool, fw, applying, dns, baked, autorm, fix, mid, minted,
             pc, job, at, cancelled, outcome, left, probes, seen, launcher>>

Families == {"v4", "v6"}

\* Whether a process has seen the chains of a netns, and if that netns is still
\* the one of the sidecar.
Seen == {"none", "current", "gone"}

AllFix == 1..NFix

Job == [verb : AllVerbs \cup {"none"}, run : Runs, rm : BOOLEAN,
        cfg : Configs, name : {"tool", "sidecar"}]

BeforeJail == {"resolve", "helper", "inspect", "guard"}
Building   == {"sidecar", "v4", "v6", "dns", "fix", "midstat", "mid", "reach",
               "probing", "direct", "directProbing", "tool"}
TearingDown == {"sweep", "tdTool", "tdSidecar"}
Managing   == {"stop", "rmPair", "xSidecar", "xNamed", "xRun"}
Finished   == {"done", "killed"}
PCs == {"idle", "attached"} \cup BeforeJail \cup Building \cup TearingDown
          \cup Managing \cup Finished

TypeOK ==
    /\ sidecar \in [Runs -> {"absent", "stopped", "running", "removed"}]
    /\ tool \in [Runs -> {"absent", "stopped", "running", "stranded", "removed"}]
    /\ fw \in [Runs -> SUBSET Families]
    /\ applying \in [Runs -> BOOLEAN]
    /\ dns \in [Runs -> BOOLEAN]
    /\ baked \in [Runs -> Configs \cup {NoConfig}]
    /\ autorm \in [Runs -> BOOLEAN]
    /\ fix \in [Runs -> SUBSET AllFix]
    /\ mid \in [Runs -> Nat]
    /\ minted \in Nat
    /\ pc \in [Procs -> PCs]
    /\ job \in [Procs -> Job]
    /\ at \in [Procs -> 1..(NFix + 1)]
    /\ cancelled \in [Procs -> BOOLEAN]
    /\ outcome \in [Procs -> {"none", "ok", "refused", "failed"}]
    /\ left \in [Procs -> {"nothing", "reported", "silent"}]
    /\ probes \in SUBSET Procs
    /\ seen \in [Procs -> Seen]
    /\ launcher \in [Runs -> Procs \cup {Nobody, User}]

NoJob == [verb |-> "none", run |-> CHOOSE r \in Runs : TRUE, rm |-> FALSE,
          cfg |-> CHOOSE c \in Configs : TRUE, name |-> "tool"]

Init ==
    /\ sidecar = [r \in Runs |-> "absent"]
    /\ tool = [r \in Runs |-> "absent"]
    /\ fw = [r \in Runs |-> {}]
    /\ applying = [r \in Runs |-> FALSE]
    /\ dns = [r \in Runs |-> FALSE]
    /\ baked = [r \in Runs |-> NoConfig]
    /\ autorm = [r \in Runs |-> FALSE]
    /\ fix = [r \in Runs |-> {}]
    /\ mid = [r \in Runs |-> 0]
    /\ minted = 0
    /\ pc = [p \in Procs |-> "idle"]
    /\ job = [p \in Procs |-> NoJob]
    /\ at = [p \in Procs |-> 1]
    /\ cancelled = [p \in Procs |-> FALSE]
    /\ outcome = [p \in Procs |-> "none"]
    /\ left = [p \in Procs |-> "nothing"]
    /\ probes = {}
    /\ seen = [p \in Procs |-> "none"]
    /\ launcher = [r \in Runs |-> Nobody]

-----------------------------------------------------------------------------
(***************************************************************************)
(* Containers, the netns and the processes.                                *)
(***************************************************************************)
Active(p) == pc[p] \notin {"idle"} \cup Finished
TargetOf(p) == job[p].run
Up(r) == tool[r] \in {"running", "stranded"}
SidecarExists(r) == sidecar[r] \in {"stopped", "running"}
ToolExists(r) == tool[r] \in {"stopped", "running", "stranded"}
Exists(r, name) == IF name = "tool" THEN ToolExists(r) ELSE SidecarExists(r)
IsRunning(r, name) == IF name = "tool" THEN Up(r) ELSE sidecar[r] = "running"

\* Containers joined to the sidecar's netns: podman refuses to remove the
\* sidecar while one of them exists (the dependency-lifecycle finding, fact 1).
HasDependents(r) == ToolExists(r) \/ \E q \in probes : TargetOf(q) = r

\* A podman call of p may return an error, before or after it has had its effect.
MayFail(p) == "fail" \in Faults \/ cancelled[p]

Goto(p, from, to) == pc[p] = from /\ pc' = [pc EXCEPT ![p] = to]
End(p, o) == outcome' = [outcome EXCEPT ![p] = o]

SeenAfter(S) ==
    [p \in Procs |-> IF seen[p] = "current" /\ TargetOf(p) \in S THEN "gone" ELSE seen[p]]

\* The sidecar's process (re)starts: a new netns with empty chains, in which
\* the entrypoint begins to run the baked EXTRA_COMMANDS; no DNS forwarder.
FreshNetns_NotBaked(r) ==
    /\ fw' = [fw EXCEPT ![r] = {}]
    /\ applying' = [applying EXCEPT ![r] = FALSE]
    /\ dns' = [dns EXCEPT ![r] = FALSE]
    /\ seen' = SeenAfter({r})

FreshNetns(r) ==
    /\ fw' = [fw EXCEPT ![r] = {}]
    /\ applying' = [applying EXCEPT ![r] = TRUE]
    /\ dns' = [dns EXCEPT ![r] = FALSE]
    /\ seen' = SeenAfter({r})

\* The sidecar's process is gone, and its firewall script and forwarder with it.
NoNetns(r) ==
    /\ fw' = [fw EXCEPT ![r] = {}]
    /\ applying' = [applying EXCEPT ![r] = FALSE]
    /\ dns' = [dns EXCEPT ![r] = FALSE]
    /\ seen' = SeenAfter({r})

\* `podman start <sidecar>`, and what podman does to a stopped dependency when
\* a container that joins it is started (fact 3); nothing if it runs already.
Revive(r) ==
    \/ /\ sidecar[r] = "running"
       /\ UNCHANGED <<sidecar, fw, applying, dns, seen>>
    \/ /\ sidecar[r] = "stopped"
       /\ sidecar' = [sidecar EXCEPT ![r] = "running"]
       /\ FreshNetns(r)

\* What remains of the tool container when its process ends.
ToolAtRest(r) == IF autorm[r] THEN "removed" ELSE "stopped"

\* The sidecar stops under the tool: the tool keeps a netns nobody serves.
StopSidecar(r) ==
    /\ sidecar[r] = "running"
    /\ sidecar' = [sidecar EXCEPT ![r] = "stopped"]
    /\ tool' = [tool EXCEPT ![r] = IF @ = "running" THEN "stranded" ELSE @]
    /\ NoNetns(r)

\* podman cannot bind-mount a source that is missing (crun: cannot stat).
HaveMounts(r) == fix[r] = AllFix /\ mid[r] # 0

-----------------------------------------------------------------------------
(***************************************************************************)
(* A netcage process, step by step.                                        *)
(***************************************************************************)

\* Where a run or a start goes once its deferred Teardown is armed: a kept one
\* has nothing to tear down, an ephemeral one first sweeps the bind-mount files.
ToTeardown_ContainersOnly(p) == IF job[p].rm THEN "tdTool" ELSE "done"
ToTeardown(p) == IF job[p].rm THEN "sweep" ELSE "done"

\* An error return after Teardown was deferred, and one before it.
Abort_NotDeferredYet(p, from) == Goto(p, from, "done") /\ End(p, "failed")
Abort(p, from) == Goto(p, from, ToTeardown(p)) /\ End(p, "failed")
Refuse_AfterDefer(p, from) == Goto(p, from, ToTeardown(p)) /\ End(p, "refused")
Refuse(p, from) == Goto(p, from, "done") /\ End(p, "refused")

\* The user launches a command.  A new run has a run id nobody used (UnixNano);
\* every other command names a container of a run that was launched before.
Launch(p) ==
    /\ pc[p] = "idle"
    /\ Cardinality({q \in Procs : Active(q)}) < MaxActive
    /\ \E j \in Job :
        /\ j.verb \in Verbs
        /\ (j.verb = "run") <=> \A q \in Procs : job[q].verb = "run" => TargetOf(q) # j.run
        /\ j.verb \notin {"run", "start"} => ~j.rm /\ j.cfg = NoJob.cfg
        /\ j.verb = "run" => j.name = "tool"
        /\ job' = [job EXCEPT ![p] = j]
        /\ Goto(p, "idle", CASE j.verb = "run" -> "helper"
                             [] j.verb = "start" -> "resolve"
                             [] OTHER -> "guard")
    /\ UNCHANGED <<conts, netns, create, files, at, cancelled, ends, probes, launcher>>

\* resolveManagedTool: start takes the name of an existing tool container.
ResolveTool(p) ==
    LET r == TargetOf(p) IN
    /\ \/ /\ job[p].name = "tool" /\ ToolExists(r) /\ ~cancelled[p]
          /\ Goto(p, "resolve", "helper")
          /\ UNCHANGED outcome
       \/ /\ job[p].name = "sidecar" \/ ~ToolExists(r) \/ MayFail(p)
          /\ Refuse(p, "resolve")
    /\ UNCHANGED <<conts, netns, create, files, job, at, cancelled, left, probes, launcher>>

\* dnsHelperPath: the helper binary is looked up before anything is touched.
FindHelper(p) ==
    /\ \/ /\ Goto(p, "helper", IF job[p].verb = "run" THEN "sidecar" ELSE "inspect")
          /\ UNCHANGED outcome
       \/ "fail" \in Faults /\ Refuse(p, "helper")
    /\ UNCHANGED <<conts, netns, create, files, job, at, cancelled, left, probes, launcher>>

\* reconcileJailConfig: what the request would bake is what the sidecar carries.
SameConfig_NotCompared(p) == SidecarExists(TargetOf(p))
SameConfig(p) == baked[TargetOf(p)] = job[p].cfg

\* readBakedSidecarConfig, then REVIVE or REFUSE; Teardown is deferred after it.
Reconcile(p) ==
    LET readable == SidecarExists(TargetOf(p)) IN
    /\ \/ /\ readable /\ SameConfig(p) /\ ~cancelled[p]
          /\ Goto(p, "inspect", "sidecar")
          /\ UNCHANGED outcome
       \/ /\ ~readable \/ ~SameConfig(p) \/ MayFail(p)
          /\ Refuse(p, "inspect")
    /\ UNCHANGED <<conts, netns, create, files, job, at, cancelled, left, probes, launcher>>

\* Run step 1, `podman run -d` of the sidecar with the firewall and the proxy in
\* its env.  A failed or killed podman may have created or started it.
CreateSidecar(p) ==
    LET r == TargetOf(p) IN
    /\ job[p].verb = "run"
    /\ \/ /\ ~cancelled[p]
          /\ sidecar' = [sidecar EXCEPT ![r] = "running"]
          /\ FreshNetns(r)
          /\ Goto(p, "sidecar", "v4")
          /\ UNCHANGED outcome
       \/ /\ MayFail(p)
          /\ \/ sidecar' = [sidecar EXCEPT ![r] = "running"] /\ FreshNetns(r)
             \/ sidecar' = [sidecar EXCEPT ![r] = "stopped"] /\ UNCHANGED netns
             \/ UNCHANGED <<sidecar, netns>>
          /\ Abort(p, "sidecar")
    /\ baked' = [baked EXCEPT ![r] = IF sidecar'[r] = "absent" THEN @ ELSE job[p].cfg]
    /\ UNCHANGED <<tool, autorm, files, job, at, cancelled, left, probes, launcher>>

\* A revived sidecar is verified again, whether it had stopped or not.
AfterRevive_Trusted == "dns"
AfterRevive == "v4"

\* Start step 3a, `podman start` of the existing sidecar.
ReviveSidecar(p) ==
    LET r == TargetOf(p) IN
    /\ job[p].verb = "start"
    /\ \/ ~cancelled[p] /\ Revive(r) /\ Goto(p, "sidecar", AfterRevive) /\ UNCHANGED outcome
       \/ ~SidecarExists(r) /\ UNCHANGED <<sidecar, netns>> /\ Abort(p, "sidecar")
       \/ MayFail(p) /\ UNCHANGED <<sidecar, netns>> /\ Abort(p, "sidecar")
       \/ MayFail(p) /\ Revive(r) /\ Abort(p, "sidecar")
    /\ UNCHANGED <<tool, create, files, job, at, cancelled, left, probes, launcher>>

\* checkRulesPresent on the chain of one family.
RulesPresent_AnyFamily(r, f) == fw[r] # {}
RulesPresent(r, f) == f \in fw[r]

\* verifyFirewall: `iptables -S OUTPUT`, then `ip6tables -S OUTPUT`, each a
\* `podman exec` into the sidecar.  A chain still being filled is an error too.
ProbeV4(p) ==
    LET r == TargetOf(p) IN
    /\ \/ /\ sidecar[r] = "running" /\ RulesPresent(r, "v4") /\ ~cancelled[p]
          /\ seen' = [seen EXCEPT ![p] = "current"]
          /\ Goto(p, "v4", "v6")
          /\ UNCHANGED outcome
       \/ /\ sidecar[r] # "running" \/ ~RulesPresent(r, "v4") \/ MayFail(p)
          /\ Abort(p, "v4")
          /\ UNCHANGED seen
    /\ UNCHANGED <<conts, fw, applying, dns, create, files, job, at, cancelled,
                   left, probes, launcher>>

ProbeV6(p) ==
    LET r == TargetOf(p) IN
    /\ \/ /\ sidecar[r] = "running" /\ RulesPresent(r, "v6") /\ ~cancelled[p]
          /\ Goto(p, "v6", "dns")
          /\ UNCHANGED outcome
       \/ /\ sidecar[r] # "running" \/ ~RulesPresent(r, "v6") \/ MayFail(p)
          /\ Abort(p, "v6")
    /\ UNCHANGED <<conts, netns, create, files, job, at, cancelled, left, probes, launcher>>

\* main of netcage-dns: it binds its sockets and serves until it is killed, or exits.
Helper(r) ==
    \/ dns' = [dns EXCEPT ![r] = TRUE]
    \/ "bind" \in Faults /\ UNCHANGED dns

\* startSidecarDNS: `podman exec -d` returns before the forwarder has bound, and
\* nobody looks at it again.
StartDNS(p) ==
    LET r == TargetOf(p) IN
    /\ \/ /\ sidecar[r] = "running" /\ ~cancelled[p]
          /\ Helper(r)
          /\ Goto(p, "dns", "fix")
          /\ UNCHANGED outcome
       \/ /\ sidecar[r] # "running" \/ MayFail(p)
          /\ Abort(p, "dns")
          /\ UNCHANGED dns
       \/ /\ sidecar[r] = "running" /\ MayFail(p)
          /\ Abort(p, "dns")
          /\ Helper(r)
    /\ at' = [at EXCEPT ![p] = 1]
    /\ UNCHANGED <<conts, fw, applying, seen, create, files, job, cancelled,
                   left, probes, launcher>>

\* The files are visited in order; the machine id is the last one that is removed.
NextFile(n, last) == IF n < last THEN n + 1 ELSE 1
LastFile_NoMachineId == NFix
LastFile == NFix + 1

\* write{ResolvConf,Hosts,Passwd,Group}At, in order; an overwrite is the same file.
\* A write that fails may have created its file.
WriteFix(p) ==
    LET written == [fix EXCEPT ![TargetOf(p)] = @ \cup {at[p]}] IN
    /\ \/ /\ fix' = written
          /\ at' = [at EXCEPT ![p] = NextFile(@, NFix)]
          /\ Goto(p, "fix", IF at[p] < NFix THEN "fix"
                            ELSE IF job[p].verb = "run" THEN "mid" ELSE "midstat")
          /\ UNCHANGED outcome
       \/ /\ "fail" \in Faults
          /\ Abort(p, "fix")
          /\ at' = [at EXCEPT ![p] = 1]
          /\ fix' \in {fix, written}
    /\ UNCHANGED <<conts, netns, create, mid, minted, job, cancelled, left, probes, launcher>>

\* A run probes the --allow destinations, a start does not; the reachback check
\* is made for a host-loopback proxy only.
AfterReach(p) == IF job[p].verb = "run" /\ job[p].cfg \in Split THEN "direct" ELSE "tool"
AfterFiles(p) == IF job[p].cfg \in Loopback THEN "reach" ELSE AfterReach(p)

\* writeMachineIDPreservingAt, the os.Stat: an existing value is kept.
KeepMachineID_AlwaysFresh(p) == FALSE
KeepMachineID(p) == mid[TargetOf(p)] # 0

StatMachineID(p) ==
    /\ \/ /\ Goto(p, "midstat", IF KeepMachineID(p) THEN AfterFiles(p) ELSE "mid")
          /\ UNCHANGED outcome
       \/ "fail" \in Faults /\ Abort(p, "midstat")
    /\ UNCHANGED <<conts, netns, create, files, job, at, cancelled, left, probes, launcher>>

\* writeMachineIDAt: a fresh random value, or the part of it that was written.
Mint(r) == minted' = minted + 1 /\ mid' = [mid EXCEPT ![r] = minted + 1]
MintMachineID(p) ==
    /\ \/ Mint(TargetOf(p)) /\ Goto(p, "mid", AfterFiles(p)) /\ UNCHANGED outcome
       \/ /\ "fail" \in Faults
          /\ Abort(p, "mid")
          /\ Mint(TargetOf(p)) \/ UNCHANGED <<mid, minted>>
    /\ UNCHANGED <<conts, netns, create, fix, job, at, cancelled, left, probes, launcher>>

\* checkReachback: `podman run --rm` of a throwaway container joined to the
\* sidecar's netns, which dials the proxy for three seconds.
OpenReachback(p) ==
    LET r == TargetOf(p) IN
    /\ \/ /\ ~cancelled[p] /\ Revive(r)
          /\ probes' = probes \cup {p}
          /\ Goto(p, "reach", "probing")
          /\ UNCHANGED outcome
       \/ /\ ~SidecarExists(r) \/ MayFail(p)
          /\ Abort(p, "reach")
          /\ UNCHANGED <<sidecar, netns, probes>>
       \/ /\ MayFail(p) /\ Revive(r)
          /\ Abort(p, "reach")
          /\ probes' \in {probes, probes \cup {p}}
    /\ UNCHANGED <<tool, create, files, job, at, cancelled, left, launcher>>

\* The probe answers or does not; when the podman client is killed, by the context
\* or otherwise, the container it started stays until its dial ends.
CloseReachback(p) ==
    /\ \/ /\ ~cancelled[p] /\ p \in probes
          /\ Goto(p, "probing", AfterReach(p))
          /\ probes' = probes \ {p}
          /\ UNCHANGED outcome
       \/ /\ ~cancelled[p]
          /\ Abort(p, "probing")
          /\ probes' = probes \ {p}
       \/ /\ MayFail(p)
          /\ Abort(p, "probing")
          /\ UNCHANGED probes
    /\ UNCHANGED <<conts, netns, create, files, job, at, cancelled, left, launcher>>

\* warnUnreachableDirects: the same kind of throwaway container for each --allow
\* entry (here one stands for all).  Whatever comes of it is at most a warning.
OpenDirect(p) ==
    LET r == TargetOf(p) IN
    /\ \/ /\ ~cancelled[p] /\ Revive(r)
          /\ probes' = probes \cup {p}
          /\ Goto(p, "direct", "directProbing")
       \/ /\ ~SidecarExists(r) \/ MayFail(p)
          /\ Goto(p, "direct", "tool")
          /\ UNCHANGED <<sidecar, netns, probes>>
       \/ /\ MayFail(p) /\ Revive(r)
          /\ Goto(p, "direct", "tool")
          /\ probes' \in {probes, probes \cup {p}}
    /\ UNCHANGED <<tool, create, files, job, at, cancelled, ends, launcher>>

CloseDirect(p) ==
    /\ Goto(p, "directProbing", "tool")
    /\ \/ ~cancelled[p] /\ probes' = probes \ {p}
       \/ MayFail(p) /\ UNCHANGED probes
    /\ UNCHANGED <<conts, netns, create, files, job, at, cancelled, ends, launcher>>

\* A podman that ends with an error without having the tool attached.  It is a
\* failure if podman could not be started, or exits 125-127 with its diagnostic on
\* the stderr netcage captures; any other exit is taken for the tool's and is no
\* error: that of a podman killed by the context (-1), and every one of an
\* interactive command, whose stderr is not captured (classifyPodmanSetupFailure).
ToolCallErrs(p) ==
    /\ Goto(p, "tool", ToTeardown(p))
    /\ End(p, "failed") \/ End(p, "ok")

\* The tool is up, and podman is attached to it or ends without it.
ComesUp(p) ==
    LET r == TargetOf(p) IN
    /\ HaveMounts(r) /\ Revive(r)
    /\ tool' = [tool EXCEPT ![r] = "running"]
    /\ launcher' = [launcher EXCEPT ![r] = p]
    /\ \/ ~cancelled[p] /\ Goto(p, "tool", "attached") /\ UNCHANGED outcome
       \/ MayFail(p) /\ ToolCallErrs(p)

\* Run step 4, `podman run [--rm]` of the tool in the sidecar's netns: it runs,
\* or podman cannot create it, or cannot start what it created.
RunTool(p) ==
    LET r == TargetOf(p) IN
    /\ job[p].verb = "run"
    /\ \/ ComesUp(p) /\ autorm' = [autorm EXCEPT ![r] = job[p].rm]
       \/ /\ ~SidecarExists(r) \/ ~HaveMounts(r) \/ MayFail(p)
          /\ ToolCallErrs(p)
          /\ UNCHANGED <<conts, netns, autorm, launcher>>
       \/ /\ MayFail(p) /\ SidecarExists(r)
          /\ Revive(r) \/ UNCHANGED <<sidecar, netns>>
          /\ \/ tool' = [tool EXCEPT ![r] = "stopped"]
             \/ job[p].rm /\ tool' = [tool EXCEPT ![r] = "removed"]
          /\ autorm' = [autorm EXCEPT ![r] = job[p].rm]
          /\ ToolCallErrs(p)
          /\ UNCHANGED launcher
    /\ UNCHANGED <<baked, files, job, at, cancelled, left, probes>>

\* Start step 4, `podman start -a` of the existing tool.  A tool that already
\* runs is attached to; podman first starts a sidecar that has stopped again.
StartTool(p) ==
    LET r == TargetOf(p) IN
    /\ job[p].verb = "start"
    /\ \/ /\ ~cancelled[p] /\ Up(r)
          /\ Goto(p, "tool", "attached")
          /\ UNCHANGED <<conts, netns, launcher, outcome>>
       \/ tool[r] = "stopped" /\ ComesUp(p)
       \/ /\ ~ToolExists(r) \/ MayFail(p)
          /\ ToolCallErrs(p)
          /\ UNCHANGED <<conts, netns, launcher>>
       \/ /\ tool[r] = "stopped" /\ (~HaveMounts(r) \/ MayFail(p))
          /\ Revive(r)
          /\ ToolCallErrs(p)
          /\ UNCHANGED <<tool, launcher>>
    /\ UNCHANGED <<create, files, job, at, cancelled, left, probes>>

\* The attached podman returns: the tool's process ended, or podman was killed, by
\* the context or otherwise, in which case the tool may well run on.
PodmanReturns_NoContext(p) == ~Up(TargetOf(p))
PodmanReturns(p) == ~Up(TargetOf(p)) \/ MayFail(p)

Detach(p) ==
    /\ PodmanReturns(p)
    /\ Goto(p, "attached", ToTeardown(p))
    /\ End(p, "ok") \/ End(p, "failed")
    /\ UNCHANGED <<conts, netns, create, files, job, at, cancelled, left, probes, launcher>>

-----------------------------------------------------------------------------
(***************************************************************************)
(* Teardown of an ephemeral run or start, on a context of its own: sweep   *)
(* the five files, remove the tool, remove the sidecar, carry on after     *)
(* every error.                                                            *)
(***************************************************************************)

AfterSweep_SidecarFirst(p) == IF job[p].verb = "rm" THEN "done" ELSE "tdSidecar"
AfterSweep(p) == IF job[p].verb = "rm" THEN "done" ELSE "tdTool"

\* RemoveResolvConf .. RemoveMachineID, also at the end of `netcage rm`.  A file
\* that cannot be removed is a warning.
Sweep(p) ==
    LET r == TargetOf(p)
        n == at[p]
    IN  /\ \/ n \in AllFix /\ fix' = [fix EXCEPT ![r] = @ \ {n}] /\ UNCHANGED mid
           \/ n = NFix + 1 /\ mid' = [mid EXCEPT ![r] = 0] /\ UNCHANGED fix
           \/ "unlink" \in Faults /\ UNCHANGED <<fix, mid>>
        /\ at' = [at EXCEPT ![p] = NextFile(n, LastFile)]
        /\ Goto(p, "sweep", IF n < LastFile THEN "sweep" ELSE AfterSweep(p))
        /\ UNCHANGED <<conts, netns, create, minted, job, cancelled, ends, probes, launcher>>

Leaves(p, how) ==
    left' = [left EXCEPT ![p] = IF @ = "reported" THEN @ ELSE how]

\* `podman rm -f` stops a container and then removes it; one that fails, or is
\* killed, may have got as far as either.
ToolRemoved(r) == tool' = [tool EXCEPT ![r] = IF ToolExists(r) THEN "removed" ELSE @]
ToolPartly(r) ==
    \/ UNCHANGED tool
    \/ Up(r) /\ tool' = [tool EXCEPT ![r] = ToolAtRest(r)]
    \/ ToolRemoved(r)

\* The sidecar goes, or stays; nothing is joined to it any more.
SidecarRemoved(r) ==
    /\ sidecar' = [sidecar EXCEPT ![r] = IF SidecarExists(r) THEN "removed" ELSE @]
    /\ NoNetns(r)
SidecarPartly(r) ==
    \/ UNCHANGED <<sidecar, netns>>
    \/ sidecar[r] = "running" /\ sidecar' = [sidecar EXCEPT ![r] = "stopped"] /\ NoNetns(r)
    \/ SidecarRemoved(r)

\* `podman rm -f -i <tool>`.
RemoveTool(p) ==
    LET r == TargetOf(p) IN
    /\ \/ ToolRemoved(r) /\ UNCHANGED left
       \/ "fail" \in Faults /\ Leaves(p, "reported") /\ ToolPartly(r)
    /\ Goto(p, "tdTool", "tdSidecar")
    /\ UNCHANGED <<sidecar, netns, create, files, job, at, cancelled, outcome, probes, launcher>>

\* `podman rm -f -i <sidecar>`.  With dependents podman refuses; the finding's
\* transcript has that refusal once with exit status 0, which Teardown cannot
\* tell from success.
RemoveSidecar(p) ==
    LET r == TargetOf(p) IN
    /\ \/ ~HasDependents(r) /\ SidecarRemoved(r) /\ UNCHANGED left
       \/ /\ HasDependents(r) /\ SidecarExists(r)
          /\ Leaves(p, "reported") \/ Leaves(p, "silent")
          /\ UNCHANGED <<sidecar, netns>>
       \/ /\ "fail" \in Faults /\ Leaves(p, "reported")
          /\ UNCHANGED <<sidecar, netns>> \/ (~HasDependents(r) /\ SidecarPartly(r))
    /\ Goto(p, "tdSidecar", "done")
    /\ UNCHANGED <<tool, create, files, job, at, cancelled, outcome, probes, launcher>>

-----------------------------------------------------------------------------
(***************************************************************************)
(* The management verbs that change the pair or enter it.                  *)
(***************************************************************************)

\* guardManaged, on the name the user gave: either container of the pair.
Guard(p) ==
    LET known == Exists(TargetOf(p), job[p].name) IN
    /\ \/ /\ known /\ ~cancelled[p]
          /\ Goto(p, "guard", CASE job[p].verb = "stop" -> "stop"
                                [] job[p].verb = "rm" -> "rmPair"
                                [] OTHER -> "xSidecar")
          /\ UNCHANGED outcome
       \/ (~known \/ MayFail(p)) /\ Refuse(p, "guard")
    /\ UNCHANGED <<conts, netns, create, files, job, at, cancelled, left, probes, launcher>>

\* `podman stop` of the named container.
StopNamed(p) ==
    LET r == TargetOf(p)
        name == job[p].name
    IN
    /\ \/ /\ \/ name = "tool" /\ Up(r) /\ tool' = [tool EXCEPT ![r] = ToolAtRest(r)]
                                    /\ UNCHANGED <<sidecar, netns>>
             \/ name = "sidecar" /\ StopSidecar(r)
          /\ (~cancelled[p] /\ End(p, "ok")) \/ (MayFail(p) /\ End(p, "failed"))
       \/ /\ ~IsRunning(r, name) /\ ~cancelled[p]
          /\ UNCHANGED <<conts, netns>>
          /\ End(p, IF Exists(r, name) THEN "ok" ELSE "failed")
       \/ MayFail(p) /\ UNCHANGED <<conts, netns>> /\ End(p, "failed")
    /\ Goto(p, "stop", "done")
    /\ UNCHANGED <<create, files, job, at, cancelled, left, probes, launcher>>

\* Without an error from podman the files are swept next; on one they are NOT.
AfterRm_NoSweep == "done"
AfterRm == "sweep"
AfterRmError_SweepAnyway == "sweep"
AfterRmError == "done"

\* `podman rm -f --depend` removes whatever joins the sidecar and then the sidecar.
DependentsRemoved(r) == ToolRemoved(r) /\ probes' = {q \in probes : TargetOf(q) # r}
PairRemoved(r) == DependentsRemoved(r) /\ SidecarRemoved(r)

\* One that fails, or is killed, has removed any part of that, the whole included.
PairPartly(r) ==
    \/ /\ ToolPartly(r)
       /\ \E gone \in SUBSET {q \in probes : TargetOf(q) = r} : probes' = probes \ gone
       /\ UNCHANGED <<sidecar, netns>>
    \/ DependentsRemoved(r) /\ SidecarPartly(r)

\* RmPairArgs, by the name of the sidecar.
RemovePair(p) ==
    LET r == TargetOf(p) IN
    /\ \/ /\ SidecarExists(r) /\ ~cancelled[p]
          /\ PairRemoved(r)
          /\ Goto(p, "rmPair", AfterRm)
          /\ End(p, "ok")
       \/ /\ \/ ~SidecarExists(r) /\ UNCHANGED <<conts, netns, probes>>
             \/ MayFail(p) /\ SidecarExists(r) /\ PairPartly(r)
          /\ Goto(p, "rmPair", AfterRmError)
          /\ End(p, "failed")
    /\ UNCHANGED <<create, files, job, at, cancelled, left, launcher>>

\* requireJailHealthy: the sidecar must run, then the NAMED container must.
JailUp_NamedOnly(p) == IsRunning(TargetOf(p), job[p].name)
JailUp(p) == sidecar[TargetOf(p)] = "running"

CheckSidecar(p) ==
    LET up == JailUp(p) IN
    /\ \/ up /\ ~cancelled[p] /\ Goto(p, "xSidecar", "xNamed") /\ UNCHANGED outcome
       \/ (~up \/ MayFail(p)) /\ Refuse(p, "xSidecar")
    /\ UNCHANGED <<conts, netns, create, files, job, at, cancelled, left, probes, launcher>>

CheckNamed(p) ==
    LET up == IsRunning(TargetOf(p), job[p].name) IN
    /\ \/ up /\ ~cancelled[p] /\ Goto(p, "xNamed", "xRun") /\ UNCHANGED outcome
       \/ (~up \/ MayFail(p)) /\ Refuse(p, "xNamed")
    /\ UNCHANGED <<conts, netns, create, files, job, at, cancelled, left, probes, launcher>>

\* `podman exec`, which needs the container to run at this moment.
Exec(p) ==
    /\ Goto(p, "xRun", "done")
    /\ \/ IsRunning(TargetOf(p), job[p].name) /\ ~cancelled[p] /\ End(p, "ok")
       \/ (~IsRunning(TargetOf(p), job[p].name) \/ MayFail(p)) /\ End(p, "failed")
    /\ UNCHANGED <<conts, netns, create, files, job, at, cancelled, left, probes, launcher>>

-----------------------------------------------------------------------------
(***************************************************************************)
(* Podman, the containers' own processes, the user and the host.           *)
(***************************************************************************)

\* The entrypoint's subshell completes the chain of a family, or stops short.
ApplyRules(r) ==
    /\ applying[r]
    /\ \E f \in Families \ fw[r] :
        /\ fw' = [fw EXCEPT ![r] = @ \cup {f}]
        /\ applying' = [applying EXCEPT ![r] = fw'[r] # Families]
    /\ UNCHANGED <<conts, dns, seen, create, files, pc, job, at, cancelled,
                   ends, probes, launcher>>

RuleFails(r) ==
    /\ "rule" \in Faults /\ applying[r]
    /\ applying' = [applying EXCEPT ![r] = FALSE]
    /\ UNCHANGED <<conts, fw, dns, seen, create, files, pc, job, at, cancelled,
                   ends, probes, launcher>>

\* The tool's process ends by itself.
ToolExits(r) ==
    /\ Up(r)
    /\ tool' = [tool EXCEPT ![r] = ToolAtRest(r)]
    /\ UNCHANGED <<sidecar, netns, create, files, pc, job, at, cancelled, ends, probes, launcher>>

SidecarDies(r) ==
    /\ "die" \in Faults
    /\ StopSidecar(r)
    /\ UNCHANGED <<create, files, pc, job, at, cancelled, ends, probes, launcher>>

\* An abandoned probe container ends and is removed by podman's --rm.
ProbeEnds(p) ==
    /\ p \in probes /\ pc[p] \notin {"probing", "directProbing"}
    /\ probes' = probes \ {p}
    /\ UNCHANGED <<conts, netns, create, files, pc, job, at, cancelled, ends, launcher>>

\* `podman start <tool>` outside netcage: the sidecar is revived with it.
RawStart(r) ==
    /\ "raw" \in Faults
    /\ tool[r] = "stopped" /\ HaveMounts(r) /\ Revive(r)
    /\ tool' = [tool EXCEPT ![r] = "running"]
    /\ launcher' = [launcher EXCEPT ![r] = User]
    /\ UNCHANGED <<create, files, pc, job, at, cancelled, ends, probes>>

TempSweep(r) ==
    /\ "sweep" \in Faults
    /\ fix[r] # {} \/ mid[r] # 0
    /\ fix' = [fix EXCEPT ![r] = {}]
    /\ mid' = [mid EXCEPT ![r] = 0]
    /\ UNCHANGED <<conts, netns, create, minted, pc, job, at, cancelled, ends, probes, launcher>>

\* SIGINT or SIGTERM: signal.NotifyContext cancels the command's context.
Interrupt(p) ==
    /\ "cancel" \in Faults /\ Active(p) /\ ~cancelled[p]
    /\ cancelled' = [cancelled EXCEPT ![p] = TRUE]
    /\ UNCHANGED <<conts, netns, create, files, pc, job, at, ends, probes, launcher>>

\* SIGKILL: no deferred call runs.
Kill(p) ==
    /\ "crash" \in Faults /\ Active(p)
    /\ pc' = [pc EXCEPT ![p] = "killed"]
    /\ UNCHANGED <<conts, netns, create, files, job, at, cancelled, ends, probes, launcher>>

Reboot ==
    /\ "reboot" \in Faults
    /\ \E r \in Runs : sidecar[r] = "running" \/ Up(r)
    /\ sidecar' = [r \in Runs |-> IF sidecar[r] = "running" THEN "stopped" ELSE sidecar[r]]
    /\ tool' = [r \in Runs |-> IF Up(r) THEN "stopped" ELSE tool[r]]
    /\ fw' = [r \in Runs |-> {}]
    /\ applying' = [r \in Runs |-> FALSE]
    /\ dns' = [r \in Runs |-> FALSE]
    /\ seen' = SeenAfter(Runs)
    /\ pc' = [p \in Procs |-> IF Active(p) THEN "killed" ELSE pc[p]]
    /\ probes' = {}
    /\ UNCHANGED <<create, files, job, at, cancelled, ends, launcher>>

-----------------------------------------------------------------------------
BuildStep(p) ==
    \/ ResolveTool(p) \/ FindHelper(p) \/ Reconcile(p)
    \/ CreateSidecar(p) \/ ReviveSidecar(p)
    \/ ProbeV4(p) \/ ProbeV6(p) \/ StartDNS(p)
    \/ WriteFix(p) \/ StatMachineID(p) \/ MintMachineID(p)
    \/ OpenReachback(p) \/ CloseReachback(p)
    \/ OpenDirect(p) \/ CloseDirect(p)
    \/ RunTool(p) \/ StartTool(p) \/ Detach(p)
TeardownStep(p) == Sweep(p) \/ RemoveTool(p) \/ RemoveSidecar(p)
ManageStep(p) ==
    \/ Guard(p) \/ StopNamed(p) \/ RemovePair(p)
    \/ CheckSidecar(p) \/ CheckNamed(p) \/ Exec(p)

\* What p does by itself once launched.
Work(p) == BuildStep(p) \/ TeardownStep(p) \/ ManageStep(p)

Environment ==
    \/ \E r \in Runs : \/ ApplyRules(r) \/ RuleFails(r) \/ ToolExits(r)
                       \/ SidecarDies(r) \/ RawStart(r) \/ TempSweep(r)
    \/ \E p \in Procs : ProbeEnds(p) \/ Interrupt(p) \/ Kill(p)
    \/ Reboot

Next ==
    \/ \E p \in Procs : Launch(p) \/ Work(p)
    \/ Environment

Spec == Init /\ [][Next]_vars

\* netcage's own steps are not put off for ever (its podman calls return, and
\* Teardown's have a deadline), the entrypoint's script makes progress and a
\* probe's dial times out.  Nothing makes the user launch or interrupt anything,
\* or the tool exit.
Fairness ==
    /\ \A p \in Procs : WF_vars(Work(p))
    /\ \A p \in Procs : WF_vars(ProbeEnds(p))
    /\ \A r \in Runs : WF_vars(ApplyRules(r))

FairSpec == Spec /\ Fairness

-----------------------------------------------------------------------------
(***************************************************************************)
(* Safety.                                                                 *)
(***************************************************************************)
Verified == {"dns", "fix", "midstat", "mid", "reach", "probing",
             "direct", "directProbing", "tool", "attached"}

\* No run or start gets past verifyFirewall without having read the chains, and
\* from then until its tool ends both chains are complete in the netns it read:
\* no later step, of anybody, reopens what was verified.
VerifiedJail ==
    \A p \in Procs : pc[p] \in Verified =>
        /\ seen[p] # "none"
        /\ seen[p] = "current" => fw[TargetOf(p)] = Families

\* A tool is brought up only by a run or start that read the chains, and it runs
\* behind the complete firewall for as long as the netns that was read exists,
\* also after netcage has gone (a kept run interrupted by SIGINT leaves its tool
\* running).
JailedTool ==
    \A r \in Runs, p \in Procs :
        tool[r] = "running" /\ launcher[r] = p =>
            /\ seen[p] # "none"
            /\ seen[p] = "current" => sidecar[r] = "running" /\ fw[r] = Families

\* A tool never runs under another --proxy/--allow than the ones the command that
\* brought it up was given: a changed configuration is refused, not revived stale
\* (reconcileJailConfig, ADR-0011).
ConfigHonoured ==
    \A r \in Runs : Up(r) /\ launcher[r] \in Procs => baked[r] = job[launcher[r]].cfg

Removes(p) ==
    /\ job[p].verb = "rm" \/ (job[p].verb \in {"run", "start"} /\ job[p].rm)
    /\ outcome[p] # "refused"

\* Container state is lost only to a command that says so: a pair loses a
\* container only if an ephemeral run or start, or an rm, that was not refused,
\* was aimed at it.  In particular a refused `start --rm` costs nothing.
KeptPairKept ==
    \A r \in Runs : sidecar[r] = "removed" \/ tool[r] = "removed"
        => \E p \in Procs : TargetOf(p) = r /\ Removes(p)

EndedEphemeral(p) ==
    /\ pc[p] = "done" /\ job[p].verb \in {"run", "start"} /\ job[p].rm
    /\ outcome[p] \in {"ok", "failed"}

Gone(r) == ~SidecarExists(r) /\ ~ToolExists(r)
NoFiles(r) == fix[r] = {} /\ mid[r] = 0
AtRest(r) == \A p \in Procs : Active(p) => TargetOf(p) # r

\* An ephemeral run or start that got past its refusals removes both containers
\* on every way out, whatever else is going on, unless Teardown was denied.
EphemeralGone ==
    \A p \in Procs : EndedEphemeral(p) /\ left[p] = "nothing" => Gone(TargetOf(p))

\* ... and when nobody else is using the pair it leaves no bind-mount file either.
EphemeralNoResidue ==
    \A p \in Procs :
        EndedEphemeral(p) /\ left[p] = "nothing" /\ AtRest(TargetOf(p))
            => Gone(TargetOf(p)) /\ NoFiles(TargetOf(p))

\* An rm that ended with an error; one that was killed after podman had removed
\* the pair and before the end of its sweep.
FailedRm(p) == job[p].verb = "rm" /\ outcome[p] = "failed"
KilledRm(p) == job[p].verb = "rm" /\ outcome[p] = "ok" /\ pc[p] = "killed"
Orphaned(r) == AtRest(r) /\ ~SidecarExists(r) /\ ~NoFiles(r)

\* The bind-mount files outlive the pair they were written for in one way only,
\* when commands follow one another: podman fails, or is killed, after it has
\* removed the pair, and `netcage rm` returns its error without the sweep
\* (manage.go:651-653).  Every other removal, of every way out, sweeps them, and
\* run.go:109-110 claims it of all: "whatever finally removes the pair also removes
\* this file".
FilesHavePair ==
    \A r \in Runs : Orphaned(r) => \E p \in Procs : TargetOf(p) = r /\ FailedRm(p)

Wrote(q) == job[q].verb \in {"run", "start"} /\ outcome[q] # "refused"

\* With commands on one pair at the same time the code does less: a start
\* re-creates files that another command has just swept.  Files without a pair
\* are left only by that failed rm, or by a command that wrote while a DIFFERENT
\* one removed the pair; and if that one was an `rm`, the writer did not get the
\* tool up behind its back (start.go:119, RemoveResolvConf .. RemoveMachineID).
ResidueExplained ==
    \A r \in Runs : Orphaned(r) =>
        \/ \E p \in Procs : TargetOf(p) = r /\ FailedRm(p)
        \/ \E p, q \in Procs :
              /\ p # q /\ TargetOf(p) = r /\ TargetOf(q) = r
              /\ Removes(p) /\ Wrote(q)
              /\ job[p].verb = "rm" => launcher[r] # q

\* Whatever is killed, and wherever, and however often the host reboots: files
\* are left without a pair only by an `rm` that failed, or that was killed between
\* podman's removal of the pair and the end of its sweep.  Teardown is safe because
\* it sweeps first: a pair it did not finish can still be named, and removed.
CrashResidue ==
    \A r \in Runs : Orphaned(r) =>
        \E p \in Procs : TargetOf(p) = r /\ (FailedRm(p) \/ KilledRm(p))

\* A pair at rest can be brought up again by podman alone: every source its tool
\* bind-mounts is still on the host, unless its removal was attempted and denied.
KeptPairRestartable ==
    \A r \in Runs :
        AtRest(r) /\ ToolExists(r) =>
            \/ HaveMounts(r)
            \/ \E p \in Procs : TargetOf(p) = r /\ left[p] # "nothing"

\* The machine id of a run does not change under it across revives
\* (writeMachineIDPreservingAt).
MachineIdStable ==
    [][\A r \in Runs : mid[r] # 0 /\ mid'[r] # 0 => mid'[r] = mid[r]]_vars

Entered(p) == pc[p] = "xRun" /\ outcome[p] = "none" /\ outcome'[p] = "ok"

\* An exec into the tool happens only while its sidecar runs: a tool that is
\* still up in a netns whose sidecar was stopped is refused (requireJailHealthy).
ExecInsideJail ==
    [][\A p \in Procs : Entered(p) /\ job[p].name = "tool"
            => sidecar[TargetOf(p)] = "running"]_vars

(***************************************************************************)
(* Liveness, under FairSpec.                                               *)
(***************************************************************************)

\* An interrupted command ends: it does not hang in the build, on the tool it is
\* attached to, or in Teardown.
InterruptEnds == \A p \in Procs : cancelled[p] ~> pc[p] \in Finished

\* When the tool of an ephemeral command ends, its pair is removed.
ExitRemovesPair ==
    \A p \in Procs :
        pc[p] = "attached" /\ job[p].rm /\ ~Up(TargetOf(p)) ~> Gone(TargetOf(p))

\* A revived sidecar's firewall gets complete unless the sidecar goes away: the
\* baked script heals every restart, also one that netcage did not make.
FirewallHeals ==
    \A r \in Runs : sidecar[r] = "running" ~> (sidecar[r] # "running" \/ fw[r] = Families)

-----------------------------------------------------------------------------
(***************************************************************************)
(* Refinement.                                                             *)
(***************************************************************************)
Promise == INSTANCE JailPromise WITH
    pair     <- [r \in Runs |-> CASE sidecar[r] = "absent" -> "none"
                                  [] SidecarExists(r) -> "there"
                                  [] OTHER -> "gone"],
    enforces <- baked,
    sealed   <- [r \in Runs |-> fw[r] = Families],
    tool     <- [r \in Runs |-> CASE tool[r] = "absent" -> "none"
                                  [] tool[r] = "stopped" -> "down"
                                  [] Up(r) -> "up"
                                  [] OTHER -> "gone"],
    owner    <- launcher,
    wants    <- job,
    permit   <- [p \in Procs |-> CASE seen[p] = "none" -> "none"
                                   [] seen[p] = "current" -> "valid"
                                   [] OTHER -> "void"],
    asked    <- [r \in Runs |-> \E p \in Procs : TargetOf(p) = r /\ Removes(p)]

\* The commands, interleaved step by step with each other, podman, the user and
\* the host, implement what netcage promises about a pair: it is built once and
\* never changes its configuration, its tool is brought up only by a command that
\* has read the firewall of the netns and wants this configuration, and nothing
\* is removed unasked (Run, Start, Teardown and the verbs together, ADR-0011).
PairPromise == Promise!Spec

-----------------------------------------------------------------------------
(***************************************************************************)
(* What the documentation or a comment says and the code does not do; it   *)
(* is refuted by a run of its own (README, "Findings").                    *)
(***************************************************************************)
ToolBroughtUp(r) == tool[r] # "running" /\ tool'[r] = "running" /\ launcher'[r] \in Procs

\* start.go:40-42: the tool is never started until the DNS forwarder is up.
DNSBeforeTool == [][\A r \in Runs : ToolBroughtUp(r) => dns[r]]_vars
=============================================================================
