# netcage: verification project

TLA+ models of netcage, checked with TLC, and theorems about them, checked with
TLAPS. File names below are relative to the repository; `jail/run.go` stands for
`internal/jail/run.go` and so on.

## 1. The system

netcage runs a command-line tool in a container whose only way out is a SOCKS5
proxy. One *run* is a pair of podman containers: the **sidecar** (tun2socks)
owns a network namespace with a TUN device, a firewall and a DNS forwarder; the
**tool** joins that namespace (`--network container:<sidecar>`). The netcage
binary itself is short-lived: every command is one process that makes a sequence
of podman calls and ends. All state is in podman, in the sidecar's netns, and in
a few files under the host's temp directory. Nothing is locked: two commands on
one pair, podman itself, the user, and the host interleave freely.

| component | source | state | operations | what makes it correct |
|---|---|---|---|---|
| jail lifecycle | `jail/run.go`, `jail/start.go`, `jail/jail.go` | the pair, the netns' chains and forwarder, the baked configuration, five bind-mounted files | `Run`, `Start`, `Teardown` and their steps | no tool outside a verified jail; kept pairs are kept and restartable, ephemeral ones leave nothing |
| firewall and routes | `jail/jail.go` (`firewallScript` ... `excludedRoutes`) | the OUTPUT chains of a netns | script, verification | a verified netns lets out what was asked for, nothing more, and the probe is exact |
| management verbs | `manage/manage.go` | none of its own | `ps images build pull load inspect logs stop exec commit rm` | `rm` removes the pair and its files or neither (unless podman fails midway, section 6); `exec` enters a jail that is up |
| command line and entry point | `cli/cli.go`, `main.go` | what is parsed so far | the scan of the arguments, proxy resolution, preflight, dispatch, the argv builders | podman gets the command the user wrote, and never a flag of the jail from the user (but behind `--`, section 6); never without a proxy; flag over environment over file |
| `--allow` | `cli/allowdirect.go` | none | parsing, refusal of the proxy port | accepts exactly subnets of private ranges with an explicit port |
| defaults file, proxy detection | `cli/config.go`, `setupdefault/`, `detectproxy/` | `config.json` | load, write, the setup dialogue, the handshake with each default port | no half-written or stale defaults |
| DNS forwarder | `dnsforwarder/`, `cmd/netcage-dns` | open sockets, queries in flight | `Start`, `serveUDP`, `serveTCP`, `resolveViaSOCKS` | an answer goes to the query it belongs to; nothing outlives its deadline |
| forward, ports | `forward/`, `ports/` | a listener and its relays | `Run` | no listener survives the command; refuses a jail that is down |
| leak test | `verify/verify.go` | the report so far | the baseline, the exit-IP probe, the image pull, DNS over TCP | exit code 0 is earned, and a failure is put down to its cause (but when time is up, section 6) |
| image references | `redirector/`, `devimage/`, `jail/graphroot.go` | none | string functions | |

How they interact: `run`, `start` and `verify` resolve the proxy and the
allowlist from command line, environment and file, and hand the result to the
lifecycle, which bakes it into the sidecar as the firewall script and the
excluded routes; `start` later compares a new request with what was baked. The
lifecycle starts `netcage-dns` in the sidecar's netns by a detached exec.
`exec`, `forward` and `ports` find the pair by name, check it, and enter it.
`rm` and the Teardown of an ephemeral run remove it. Podman's dependency rule
(a sidecar with dependents is not removed; starting a tool starts its sidecar)
ties the two containers of a pair together without netcage's doing.

What is hard about it, and hardly reached by the tests:

- Two commands on one pair interleave between any two podman calls, and podman,
  the tool's process, the sidecar's process, the user and the host move too.
- Every fact a command establishes (rules present, configuration equal, sidecar
  running) is about a netns or a container that may be gone at the next call:
  stale state.
- A run is a sequence of a dozen fallible calls with one deferred Teardown that
  is armed partway, so every early return is its own case.
- netcage may be killed, or the host rebooted, anywhere; nothing recovers but
  the next command.
- The firewall is an ordered list in which one misplaced rule shadows another,
  for every combination of proxy place and allowlist.
- The forwarder's goroutines share a buffer and a limited number of descriptors,
  and meet clients, proxies and resolvers that fall silent.
- `config.json` is rewritten in place with no lock after a dialogue of any
  length.
- podman's flags are parsed by four hand-written scanners and written out again by
  four builders: what is lost, moved or taken for something else in between runs
  another command, or another jail.
- The leak test compares two answers from different moments and different ways out,
  and each of its five steps may fail silently.

`PROJECT.json` lists each hazard at its line, with the properties that watch it.

## 2. The modules

| module | models | extends / instances |
|---|---|---|
| `JailPromise` | what is promised of a pair, whoever acts on it | |
| `JailLifecycle` | run, start, stop, rm, exec, Teardown; podman, faults, users | instances `JailPromise` |
| `MCJailLifecycle` | symmetry for TLC | `JailLifecycle` |
| `JailLifecycleProofs`, `JailResidueProofs` | theorems, the second on the first | `JailLifecycle`, TLAPS |
| `NetnsFirewall` | abstract firewall of one netns | |
| `JailFirewall` | the script rule by rule, `verifyFirewall`, the routes | instances `NetnsFirewall` |
| `MCJailFirewall` | addresses and networks for TLC | `JailFirewall` |
| `JailFirewallProofs` | theorems | `JailFirewall`, TLAPS |
| `DnsForwarder` | `netcage-dns` | |
| `DnsForwarderProofs` | theorems | `DnsForwarder`, TLAPS |
| `AllowDirect` | the parser of an `--allow` value | |
| `ProxyConfig` | `config.json`, `setup-default` with its detection, resolution | extends `AllowDirect` |
| `MCProxyConfig` | URLs, allowlists, symmetry, view for TLC | `ProxyConfig` |
| `ProxyConfigProofs` | theorems | `ProxyConfig`, TLAPS |
| `HostAccess` | `forward` and `ports` | |
| `HostAccessProofs` | theorems | `HostAccess`, TLAPS |
| `MCHostAccess` | sockets, and one verb at a time, for TLC | `HostAccess` |
| `CommandLine` | the parsers, the guards and the argv builders of every verb | |
| `LeakTest` | both checks of `verify` and the report | |
| `MainCommand` | one process, from its arguments to its exit code | extends `CommandLine`, `LeakTest` |
| `MCMainCommand` | the arguments of each verb, view for TLC | `MainCommand` |
| `CommandLineProofs` | how podman reads a line, and that netcage reads and writes it so: the lemmas | `CommandLine`, TLAPS |
| `MainCommandProofs` | theorems | `MainCommand`, `CommandLineProofs` |

A definition whose name has a suffix after an underscore (`CloseAll_LeaksOnError`)
is a plausible wrong version of the definition it stands before. No
specification uses it; replacing the definition by it must break the property
it is paired with in `PROJECT.json`.

### 2.1 JailLifecycle

One run id is one pair. `sidecar[r]` and `tool[r]` are the two containers; a tool
is *stranded* when it runs on in a netns whose sidecar has stopped. `fw[r]` is the
set of families whose OUTPUT chain is complete, `applying[r]` says that the
entrypoint's EXTRA_COMMANDS subshell still runs, `dns[r]` that the forwarder is
bound. `baked[r]` and `autorm[r]` were fixed when the containers were created.
`fix[r]` and `mid[r]` are the bind-mounted files in the temp directory (those of
fixed content, and the machine id, whose value matters).

A process `p` is one invocation of netcage. `pc[p]` follows the code:

| pc | code |
|---|---|
| `resolve`, `helper`, `inspect` | `Start`: find the tool, the helper binary, `readBakedSidecarConfig` and `reconcileJailConfig` |
| `sidecar` | `podman run -d` (Run) or `podman start` (Start) of the sidecar; Teardown is armed before it |
| `v4`, `v6` | `verifyFirewall`: one `podman exec` per family |
| `dns`, `fix`, `midstat`, `mid` | `startSidecarDNS`; the files, one write at a time; the machine id is looked for, then minted |
| `reach`, `probing`, `direct`, `directProbing` | `checkReachback`, and the direct probe of a split tunnel: the probe container comes, and goes |
| `tool`, `attached` | `podman run` or `podman start -a` of the tool, and being attached to it |
| `sweep`, `tdTool`, `tdSidecar` | Teardown: files, tool, sidecar |
| `guard`, `stop`, `rmPair`, `xSidecar`, `xNamed`, `xRun` | the verbs of `manage` |

Each action is one step of the code with its error returns as disjuncts. A podman
call that fails or is killed may have had its effect, none of it, or a part: `podman rm`
stops a container before it removes it, and takes the tool and the probes before the
sidecar (`ToolPartly`, `SidecarPartly`, `PairPartly`). A cancelled context makes every
call but Teardown's fail. The podman of the tool is the exception (`ToolCallErrs`): an
exit that is not 125 to 127 with podman's diagnostic, that of a killed podman (-1)
included, is taken for the tool's, and the command ends without an error; an
interactive one captures no diagnostic and takes every exit so. `Helper` is the main of
`netcage-dns`, which binds or exits unseen. Podman, the entrypoint, the user and the host are the
actions of `Environment`; `Faults` says which may happen in a run.

`seen[p]` and `launcher[r]` are history: what `p` read of which netns, and who
brought the tool up. No guard reads them.

`JailPromise` is the same pair without script, probe, file, signal or podman. A
pair is none, there or gone; a command gets a *permit* by reading the firewall of
the pair's netns, loses it with that netns, and needs it to bring the tool up in
a pair that enforces the configuration it wants; nothing is removed unasked.
`JailLifecycle` implements it (`PairPromise`) with `seen` as the permit, `launcher`
as the owner of the tool and `baked` as what the pair enforces.

### 2.2 JailFirewall and NetnsFirewall

`FirewallScript(c)` is the sequence of rules for a configuration, in the order of
`firewallScript`; `VerifyRules(c, f)` is the set `checkRulesPresent` looks for;
`ExcludedRoutes(c)` what does not go into the TUN. The entrypoint appends one
rule per step, may stop at any of them (`set -e`), and starts over when the
sidecar does, while `verifyFirewall` reads one chain, then the other. `Accepted`
is the meaning of a chain: first match, policy ACCEPT. Hosts are classes: one
member per class that rules can tell apart. The proxy is at an IPv4 address, or on the
host's loopback. A proxy given by name or by an IPv6 address, which `ParseProxy` takes as
well (`cli.go:66-72`), becomes an excluded route with `/32` behind it (`jail.go:775`), whatever
the sidecar makes of that; it is left out.

`NetnsFirewall` is the same thing as `JailLifecycle` sees it, a set of families and a
flag; `JailFirewall` implements it under the mapping "complete = the chains whose
rules are all there". Together with `ProbeExact`, this justifies the abstraction
in `JailLifecycle`.

### 2.3 DnsForwarder

Each datagram and each accepted connection is a task; `stage` is where its
goroutine is. `buf` is the buffer all of `serveUDP` shares, `query` the copy each
goroutine holds. `fds` is the set of sockets the process holds, limited by
`MaxFds`. Clients, proxy and resolver do what they like; a message is a pair of
task and number, so that an answer shows which question it belongs to.

### 2.4 AllowDirect and ProxyConfig

`Parses` follows `parseAllowDirect` with the arithmetic of masks and endpoints, on
addresses of `Bits` bits. `Permitted` is the reference: sets of addresses, with no
masks in it. `ProxyConfig` has the file (`file`, its `mode`, and its last
`author`) and the setups, each a read, a detection, a dialogue and an in-place write
of three steps (truncate, write, chmod). The detection is a function of what listens
on each default port (`Peers`, `Handshake`), and all that comes of it is a default
for the dialogue if exactly one port was confirmed. `mine` and `outdated` are
history: the allowlist the user left in the file, and the setups that had read the
file before. A command that runs a jail reads the file once and changes nothing: it
is the operator `Goes(cl)`, evaluated for every command line. The host's loopback is one
address, standing for those the code recognises (127.0.0.1, ::1, localhost); another
127.x it takes for a remote proxy (`cli.go:258-264`), and that is not modelled.

### 2.5 HostAccess

`forward`: two checks of the jail, the look for a connector, socat with a child
per connection, each forward contending with the others for the host's port, and the runner that waits for the pipes the children hold.
`ports`: two reads of `/proc/net`, in two families, decoded by the byte order of
the host; an IPv4 address mapped into IPv6 is shown as the IPv4 address it is (`To4`). Meanwhile the jail's containers and sockets change. `during` and
`throughout` are history: the sockets that listened at some moment, and at every
moment, of the listing. socat and nc are outside the repository and modelled from
how the code calls them.

### 2.6 CommandLine

An argument is the sequence of texts between its equals signs, so that
`--memory=1g`, `--memory 1g` and a word that merely looks like a flag are told
apart without going through characters. `Scan` takes one argument: as the value of
the flag that waits for one, as a positional, the marker, a switch, a flag with a
value, a flag passed on as it is (`inspect`), or it is refused. `Parse` ends the
line, with the rules of its verb; `Preflight` dials the proxy; `Hand` is the guard
on the named container and `Line`, the arguments podman gets (`ToolRunArgs`,
`ExecArgs`, `CommitArgs`, ...).

`Reading` is not netcage's code: it is how podman reads arguments, by podman's own
flag tables. The properties read the user's line and the emitted one with it, and
compare.

### 2.7 LeakTest and MainCommand

The facts the leak test is to find out (`jailed`, `overTCP`) are variables it never
reads. It sees answers: `Baseline` of the host, `Probe` of a jailed tool, `Pull` of
the image and `Resolve` over TCP, each of which may fail, while the host moves, the
proxy goes up and down and the context expires: before a podman call, which then fails,
or during it (`KilledMidway`), which `jail.Run` takes for the tool's own exit. `moved`, `route` and `tookPlace` are
history. `MainCommand` composes the two: a process scans, parses, dials and
dispatches, a `verify` goes through the leak test, and the report is its exit code.

## 3. The runs

All of them together take about fifteen minutes with two workers.

| run | shows | states |
|---|---|---|
| `jail_concurrent` | two commands on one pair at once, with calls that fail with any part of their effect, failing rules, a dying sidecar, a raw `podman start`: `VerifiedJail`, `JailedTool`, `ConfigHonoured`, `KeptPairKept`, `EphemeralGone`, `ResidueExplained`, and the refinement `PairPromise` | 345k |
| `jail_crash` | three commands one after the other, with SIGKILL at any step, failing rules, a forwarder that does not bind, reboots and temp sweeps: `CrashResidue`, `MachineIdStable` | 256k |
| `jail_sequential` | three commands one after the other over two configurations, with signals that kill the podman of the moment halfway: what each leaves is what the next needs (`EphemeralNoResidue`, `FilesHavePair`, `KeptPairRestartable`, `ExecInsideJail`) | 354k |
| `jail_live` | liveness of two concurrent commands, with signals and files that cannot be removed (`InterruptEnds`, `ExitRemovesPair`, `FirewallHeals`) | 59k |
| `jail_firewall` | every proxy place and every allowlist of up to two entries, every interleaving of script, restart and probes: the probe is exact, a verified netns lets out what was asked for and nothing more; refinement of `NetnsFirewall` | 155k |
| `dns_forwarder` | `OwnAnswers`, `NoLeakedSocket`, `NoStall`, `Served` with too few descriptors | 20k |
| `proxy_config` | two setups over every file and every answer of two default ports, two edits by hand, a death at any step, and in each state every command line: `SavedIsStrict`, `AllowListKept`, `TornOnlyByWriter`, `NoSilentFallback`, `NoDialToOwnProxy`; every `--allow` value: `AllowExact` | 430k |
| `host_access` | two forwards that contend for a port, with their connections, or a listing over sockets of both families that come and go, while the jail stops and starts: `NoResidue`, `InterruptUnbinds`, `ListingSound`, `ListingComplete` | 108k |
| `command` | every verb with up to five arguments, and a `verify` through its leak test: `SameCommand`, `JailFlagsOwned`, `NoFalsePass`, `BlameIsEarned` | 1056k |
| `find_dns`, `find_saved_default`, `find_deny_list` | the findings of section 6 | |

The type invariants are not properties of a run. `TypeCorrect`, `ForwarderTypes`,
`ConfigTypes` and the invariants of section 5 prove those of the modules that have
theorems.

### Bounds, and why they are enough

- *Lifecycle.* One run id: pairs of different runs share nothing but the proxy (no
  name, file or netns), so a second one adds only interleavings of independent
  steps. Two commands at once or three in sequence: a hazard here involves the
  command that built the pair, one that races it or comes later, and for what is
  left behind a third that meets it. The theorems of section 5 hold for any
  number. `jail_crash` has no signals and no failing calls, `jail_sequential` and
  `jail_concurrent` no crashes: all together are too many states, and
  `CrashResidueHolds` has them together. `jail_concurrent` needs no signals: where any
  call may fail, a cancelled context adds nothing but that some must. Two configurations where a changed one matters, one of them with a proxy
  on the loopback and one with an `--allow`, so that both probes occur. `NFix` is 1
  or 2 of the four files of fixed content: they are written and swept in a loop,
  and 2 has a partial loop. `MaxActive` bounds the commands in progress.
- *Firewall.* One host per class of address that a rule distinguishes, two on the
  LAN; two `--allow` entries, because the hazards are between entries (a repeated
  one, one that a drop of the other shadows, one of each class). Three ports: clear
  DNS, the proxy's, another. `DropRanges` are two, one of which contains the map
  address.
- *Forwarder.* Two datagrams, the least that can overwrite each other's buffer; a
  connection of two messages, the least for the order of answers; four descriptors
  of the six that would be used, so that accept and every dial can fail.
- *Configuration.* Addresses of four bits: ranges of two lengths, in the middle of
  the space and apart from each other as the real ones are, and prefixes that
  straddle each of their edges. Ports 1 to 4 and each way of writing one. URLs: three
  that can be saved, two of them at the default ports, so that none, one or both are
  detected, and one for every reason to refuse. Two edits by hand, at any moment: one
  that a setup has not seen, and one more that changes or removes the file under the
  setup that has. Symmetry in the two setups is sound, for the run checks invariants only.
  The view leaves out what a setup has read once no later step reads it.
- *Host access.* Two forwards, so that one meets the port the other holds; two
  connections, so that one can outlive the other. Three sockets, of IPv4, IPv6 and IPv4
  mapped into IPv6, and two restarts, so that the sidecar can be another one at each of
  the two reads. A forward and a listing are not followed at the same time (`OneVerb`):
  they share nothing but the jail, which stops and starts under both.
- *Command line.* Per verb the arguments its parser and its builder tell apart: a
  word, the marker, a switch, a flag with a value of each kind (repeated or not,
  short or long, with and without an equals sign), one refused, one of podman's that
  netcage does not know, a value on a switch that has none and the two forms of a
  value that `--pause` heeds. Five arguments, the least for a flag that takes a flag for
  its value, another before the image, and a flag of the tool behind it.
- *Leak test.* Two addresses: all it does with them is to compare them.

`CHECK_DEADLOCK FALSE` is set in the `Jail*.cfg` of the lifecycle and its findings:
every process executes one command and ends, after which nothing has to happen. In
`DnsForwarder`, `ProxyConfig` and `HostAccess` that end is the stuttering action
`Finished`, so that TLC reports any other deadlock.

### Fairness, and what justifies it

- `JailLifecycle`: weak fairness of each process' own steps (a podman call
  returns; `Interrupt` makes it return at once, and Teardown's context has a
  deadline of its own, `jail.go:288`), of the end of an abandoned probe (its dial
  has a timeout) and of the entrypoint's script. Nothing is fair about the user,
  signals, the tool or the sidecar's death. `jail_live` takes configurations
  without probes: the probe container of a cancelled command can outlive the
  command and makes podman refuse to remove the sidecar, so that `ExitRemovesPair`
  is false with them (section 6).
- `DnsForwarder`: the goroutines' own steps and the deadlines that are armed.
  Nothing is fair about client, proxy or resolver.
  `Served` (every datagram is taken up as long as the forwarder lives) needs no
  more than that.
- `HostAccess`: the forward's own steps.
- `ProxyConfig`, `JailFirewall` and `MainCommand`: safety only. How long a dialogue
  or a leak test takes is up to the user and to a context, and nothing waits for it.

## 4. What the properties are about

The ones a reviewer of the code would argue about:

- `VerifiedJail`, `JailedTool`: whatever others do, the netns a command verified
  stays closed until its tool ends, or the netns itself has gone. The condition
  "the netns that was read still exists" is essential. A sidecar that dies after
  `verifyFirewall` is silently started again by podman together with the tool,
  and the entrypoint may then stop short.
- `ConfigHonoured`: a `start` with another `--proxy` or `--allow` never runs on a
  sidecar that was baked with the old ones.
- `KeptPairKept`: no path of a refused, failed or interrupted command costs a
  container that nobody asked to remove.
- `PairPromise`: all of that in one statement, as a state machine that knows no
  netcage: who may bring a tool up, in what, and who may take what away.
- `EphemeralGone`, `EphemeralNoResidue`, `FilesHavePair`, `KeptPairRestartable`:
  the two directions of cleaning up, nothing too much and nothing too little.
- `ResidueExplained`, `CrashResidue`: files without a pair do occur. The two
  properties say by whom: by an `rm` whose podman failed or was stopped after it had
  removed the pair; by a command that wrote while another one removed the pair, and
  which never got the tool up if that one was an `rm`; or by an `rm` that was killed
  between podman's removal and the end of its sweep, and by no other death.
- `ProbeExact`: the verification looks for presence of rules only, not for order or
  number, and still passes exactly when the chain is complete.
- `DirectOnlyNamed`, `NamedReachable`, `OnlyLoopbackUDP`: order and overlap of
  rules, as a statement about packets.
- `NoDialToOwnProxy`: flag, environment and file can contribute a proxy and an
  allowlist that only together are wrong.
- `AllowListKept`: a reconfigure carries the allowlist it read through a dialogue of
  any length; which edits of the user does it lose, and which not?
- `SameCommand`, `JailFlagsOwned`: what podman reads in the emitted line is what it
  would read in the user's, and no value, positional or repeated flag becomes a flag
  of the jail, but in the one place that `find_deny_list` is about.
- `NoFalsePass`, `BlameIsEarned`: no silence passes for an answer, and no failure
  for a leak; the first names the two ways in which a leak does pass, the second the one
  in which the forwarder is blamed for what it never had the time to do.
- `OwnAnswers`, `NoLeakedSocket`, `NoStall`, `Served`; `ListingSound`,
  `ListingComplete`; `NoResidue`, `InterruptUnbinds`.

## 5. The proofs

Every theorem holds for all values of the constants that meet the named assumption
of its module, and the assumptions say what the constants *are*: `DropRanges` is a
sequence of different sets of IPv4 hosts that together are the private ones and the map
address; the private ranges are aligned, none ends where another begins and none
overlaps the host's loopback (`RangesAssumption`, true of 10/8, 172.16/12, 192.168/16
and 169.254/16); a socket has an address of its family and is on the loopback if
that address is. None restricts a behaviour. Where a statement needs a restriction on
who may fail or on how many commands run, it is a hypothesis of that theorem.

### 5.1 The lifecycle, whoever interleaves

`JailLifecycleProofs`, for any sets of runs, processes and configurations, any number
of files, any number of commands at a time and every choice of faults
(`LifecycleAssumption`):

| theorem | statement |
|---|---|
| `TypeCorrect` | `Spec => []TypeOK` |
| `JailInvariant` | `Spec => [](TypeOK /\ JailInv)` |
| `VerifiedJailHolds` | `Spec => []VerifiedJail` |
| `JailedToolHolds` | `Spec => []JailedTool` |
| `ConfigHonouredHolds` | `Spec => []ConfigHonoured` |
| `KeptPairKeptHolds` | `Spec => []KeptPairKept` |
| `EphemeralGoneHolds` | `Spec => []EphemeralGone` |
| `PairPromiseHolds` | `Spec => PairPromise`: `JailLifecycle` implements `JailPromise` |

None of these properties is inductive. `ConfigHonoured` says something of the moment
a tool runs, and depends on what was compared long before. `JailInv` adds what is
in between:

- `IdleInv`, `PathInv`: what a process cannot be before it is launched, and which
  verb leads to which step. A process in Teardown is an ephemeral run or start.
- `RunIdInv`: a run id belongs to one run. Without it a second run could bake
  another configuration under a running tool.
- `CreatedInv`: how far a command has got tells which containers exist or existed,
  and that the baked configuration is the requested one.
- `SeenInv`: what was read of a chain is still true of the netns it was read in.
- `LauncherInv`: who brought a tool up had verified its netns and its
  configuration.
- `RemovedInv`: a removed container, and one podman will remove, has a remover.
- `GoneInv`: what Teardown removed stays removed.

The argument is in two layers. The first goes through the actions once
for each part of the state and summarises what any step may do to it (`PairStep`:
containers come and go at the hands of the right processes; `NetnsMovesStep`: a
netns that was read goes away or gains rules; `ControlStep`, `JobStep`,
`LauncherMovesStep`, `RemoverStep`, `TeardownMovesStep`, `EndedStep`,
`DoneStays`). The second derives each conjunct of the invariant from these
summaries.

The refinement uses the same invariant and the same summaries: what is new is
`ToolMovesStep`, how a tool comes up and goes down. Then each part of the
promise's next-state relation has a lemma (`PairLifeStep`, `ToolLifeStep`,
`PermitLifeStep`, `SettledStep`). That a command which brings a tool up holds a
permit is `SeenInv`; that the permit, if still valid, is one for a sealed netns
*after* the step, in which podman may have revived the sidecar, is `LauncherInv`.

### 5.2 What the lifecycle leaves behind

The promises about files, the machine id and `exec` are weaker in the code, and
`JailResidueProofs` proves each under the hypotheses it needs, still for any
sets, configurations and number of files, and for every fault not named:

| theorem | commands at a time | without | the property would be false with it because |
|---|---|---|---|
| `ResidueExplainedHolds` | any | crash, reboot, unlink | a killed `rm`, or one that cannot unlink, leaves files by itself |
| `CrashResidueHolds` | one | unlink | a file that cannot be removed stays |
| `FilesHavePairHolds` | one | crash, reboot, unlink | an `rm` killed in its sweep leaves files, and so does a file that cannot be removed |
| `EphemeralNoResidueHolds` | one | unlink | a file that cannot be removed stays |
| `KeptPairRestartableHolds` | one | crash, reboot, sweep | a Teardown killed in its sweep, or the temp sweep, takes mounts from a tool that exists |
| `MachineIdStableHolds` | one | | two starts each mint one |
| `ExecInsideJailHolds` | one | die | the sidecar may die between the two inspections of `exec` |

"One at a time" is `MaxActive = 1`: no command begins while another runs, but each
may still be killed anywhere, and podman, the containers and the host still move
in between. The hypotheses name kinds of faults of the model, and the runs of
section 3 that check the property allow no fault the theorem does not.

Two invariants carry them. `FilesInv` holds for any number of commands and every
fault: the cursor of a loop over the files is at its start outside the loop, a
tool never exists without its sidecar (`PairWhole`), files exist only of a run whose
sidecar was created, and an `rm` that sweeps has removed the pair. `SequentialInv`
is about commands that follow one another: the one that is running is the only one
(`AloneInv`), its sidecar exists as long as it builds on it (`HeldInv`), files before
the cursor are written (`WrittenInv`) or swept (`SweptInv`), a file without a sidecar
is one an `rm` is still to sweep, was killed sweeping, or never swept because its podman
failed (`OrphanInv`), and a tool has
its mounts unless somebody is taking them away (`MountInv`). `ConcurrentInv` replaces
this when commands overlap: a pair that is gone has a remover on its way out
(`RemovedByInv`), a file behind the cursor of a Teardown was written by another command
(`LateInv`), and a file without a sidecar is one an `rm` will still reach, or one with
a writer and a different remover (`StrayInv`), or one left by an `rm` whose podman
failed. The writer beside an `rm` is *toolless*: its tool never came up, and never will,
for podman attaches to nothing without a sidecar. What it reports is not the criterion:
a command whose podman was killed ends without an error.

These rest on a summary of what a step does to the control state
(`StageStep`), to a file (`FileMovesStep`: who wrote it held the pair) and to a pair (`LossStep`: who
took it away was a Teardown or an `rm`, which then sweeps or has failed).

### 5.3 The firewall

`JailFirewallProofs`, for any sets of addresses in classes, any ports, any sequence of
drop ranges and any split of the allowlist (`FirewallAssumption`):

| theorem | statement |
|---|---|
| `FirewallTypes` | `Spec => []TypeOK` |
| `ProbeExactHolds` | `Spec => []ProbeExact` |
| `OnlyLoopbackUDPHolds`, `DirectOnlyNamedHolds` | what a verified netns lets out is what was asked for |
| `NamedReachableHolds`, `ProxyReachableHolds` | and what was asked for does get out |
| `NetnsSpecHolds` | `Spec => NetnsSpec`: the script implements `NetnsFirewall` |

`FirewallInv` adds to the types that a verification which has passed a family has seen
its chain complete, and that it still is unless the sidecar was restarted
(`VerifiedInv`). `ProbeExact` follows from where the rules are in the script
(`ScriptShape`, `Positions`): the last rule of a chain is one the probe looks for, and
the script has it nowhere else, whatever an allowlist repeats (`LastIsVerified`); so
whoever finds it has found the end. The packet theorems are about a first match in a
long concatenation. `TrustedAccepts` reduces them all: in a verified netns a packet is
let out exactly if it has an accept or no drop, that is, no accept is shadowed by a
drop. It takes a least-index argument for the first match (`FirstMatch`), and the fact
that the accepts precede every drop they overlap (`AcceptsPass`, `RulesPassOrDrop`).

### 5.4 The other components

`DnsForwarderProofs` (`ForwarderAssumption`; any number of datagrams, connections,
messages and descriptors), `HostAccessProofs` (`NamesAssumption`, `HostAssumption`;
any forwards, connections and sockets), `ProxyConfigProofs` (`ConfigAssumption`,
`AllowAssumption`, `RangesAssumption`; any setups, edits, URLs, allowlists and any
width of addresses), `MainCommandProofs` (`CommandAssumption`, `LeakAssumption`; any
arguments and addresses):

| theorem | statement |
|---|---|
| `ForwarderTypes` | `Spec => []TypeOK` of `DnsForwarder`, the limit on descriptors included |
| `OwnAnswersHolds` | `Spec => []OwnAnswers` |
| `NoLeakedSocketHolds` | `Spec => []NoLeakedSocket` |
| `NoResidueHolds` | `Spec => []NoResidue` of `HostAccess` |
| `ListingSoundHolds`, `ListingCompleteHolds` | `Spec => []ListingSound`, `Spec => []ListingComplete` |
| `ConfigTypes` | `Spec => []TypeOK` of `ProxyConfig` |
| `AllowListKeptHolds` | `Spec => []AllowListKept` |
| `TornOnlyByWriterHolds` | `Spec => []TornOnlyByWriter` |
| `ParsesExactly` | `Parses(raw) <=> Permitted(raw)`, and the entry stands for the addresses that were written |
| `SavedIsStrictHolds` | `Spec => []SavedIsStrict` |
| `NoSilentFallbackHolds`, `NoDialToOwnProxyHolds` | of every command line, in every state of the file |
| `AllowExactHolds` | `Spec => []AllowExact` |
| `NoFalsePassHolds`, `BlameIsEarnedHolds` | `LeakSpec => []NoFalsePass`, `LeakSpec => []BlameIsEarned` |
| `CommandRunsLeakTest` | `Spec => LeakSpec` of `MainCommand` |
| `VerifyEarnsItsExit` | `Spec => [](exit = 0 => NoFalsePass /\ step = "reported" /\ ExitCode = 0)` |

The invariant of `DnsForwarder` has four parts: `TypeInv`; `AnswerInv`, that the
last message a task read is the one it holds and all before it were answered,
which is what makes an appended answer the next one; `SocketInv`, who holds each
open socket; and `CountInv`, the limit, whose proof is that opening needs a free
descriptor. That of `HostAccess` says which stages of a forward may have a
listener (`ListenerInv`) and relays (`RelayInv`): the runner's wait on the pipes
is what carries it to the end; and of a listing that what it has parsed so far has a row
for each socket that listened throughout and none of a socket that never did
(`ListingInv`), with both encodings of an address shown to be read back as they were.

That of `ProxyConfig`, `ListInv`, is about the setups that are up to date: while no
outdated setup has written they all carry the user's list, and they do so in any
case while the file is missing, which only the user brings about; the second half is
needed for a setup whose write found no file and which ends without a trace.
`StrictInv` says of each stage of a setup what has been checked of what it carries.
`ParsesExactly` is arithmetic: that an aligned block of `2^k` addresses lies in the
private ranges is shown by its two ends, as the code does it, because no two ranges
touch. The width of an address is a parameter, so `2^(a+b) = 2^a * 2^b` is needed of
every `a` and `b`; instead of an induction it is proved by counting the subsets of a
set of `a + b` elements in two ways (`PowerOfSum`). The invariant of the leak test says
at each step what the baseline is worth (`BaselineInv`) and what each assertion in the
report rests on (`ExitInv`, `DnsInv`: a forwarder without an answer had its container
run, or the context was done).

### 5.5 The command line

`CommandLineProofs` and `MainCommandProofs`, for lines of any length of any arguments
(`CommandAssumption`: an argument has a text, and the words netcage does not know are not
names it makes up itself):

| theorem | statement |
|---|---|
| `ScanInvariant` | `Spec => []ScanInv` |
| `JailFlagsOwnedHolds` | `Spec => []JailFlagsOwned` |
| `UserInvariant` | `Spec => []UserInv` |
| `SameCommandHolds` | `Spec => []SameCommand` |

Both properties compare what podman reads on the line it is handed with what it would
read on another one. Neither is inductive: they speak of the moment of the hand-over, and
what they say depends on every argument since the first. Two invariants carry them.
`ScanInv` says what the scan can have parsed of a verb: which flags, each with a value
that verb gives it, and that a line past `Parse` was accepted. `UserInv` says that
netcage and podman agree at *every* argument: there is a reading of the user's line up to
here with the same positionals, waiting for the same value, its flags ended or not as
netcage has it, and what netcage has parsed is what it takes (`Heeds`) of the flags of
that reading. For `inspect`, which passes on what it does not know, it says instead that
what would be written out so far is read as the user's line is, or that podman has
refused it already. One step of `UserInv` is one argument on each side. This is where
the tables of the two must fit (`TablesAgree`): a flag that one takes for a switch and
the other for one with a value would make them drift apart for good.

The line that is written is not read step by step with the user's, since netcage reorders
it. So it is taken to pieces. `Says(v, a, f)` says that wherever flags may come podman
reads the arguments `a` as the flags `f`; it composes (`SaysConcat`, `SaysIf`,
`SaysEach`), and the lines of `run`, `exec` and `commit` are built of such pieces
(`SaysRun`, `SaysExec`, `SaysCommit`), up to the image or the container, after which all
is the command's (`SaysWords`). The values of a flag are then collected from the pieces
(`ValuesInConcat`, `ValuesInKept`, `Joined`): `RunReadValues` gives them for each flag of
a run, `ExecReadValues` and `CommitReadValues` for the others. `JailFlagsOwned` is read
off there. It is false of a line whose image is a flag, and says so (`FlagBehindMarker`): `MarkInv`
carries along where the end-of-flags marker was, and shows that no other line has a flag
in the place of its image. For a `ps`, whose arguments netcage does not parse, it needs
only that podman never forgets a flag it has read (`ReadingMore`). `SameCommand` compares those values
with the ones in the reading that `UserInv` provides (`RunSame`, `ExecSame`,
`CommitSame`, `InspectSame`, `StartSame`).

`Reading` and `FlattenSeq` are recursive functions over a sequence. The library's
induction theorems take an operator as a parameter, so induction is derived for sets
from the well-foundedness of the naturals (`NatSetInduction`, `SeqSetInduction`); a
statement about every sequence is proved as the membership in the set of those it holds of.

### 5.6 Only model-checked

On the instances of section 3: every liveness property (`InterruptEnds`,
`ExitRemovesPair`, `FirewallHeals`, `NoStall`, `Served`, `InterruptUnbinds`) and the
use of `ENABLED` in fairness, which the prover does not do. Every invariant and every
refinement that a passing run checks is also a theorem.

## 6. Findings

Three runs refute a sentence of the documentation or a comment (details and quotes
in `PROJECT.json`):

- `find_dns`: the tool is started whether or not the DNS forwarder has bound;
  `start.go:40-42` says the forwarder is up.
- `find_saved_default`: a reconfigure keeps the file's allowlist, which may name
  the new proxy's port on the loopback; the default that was reported saved is
  then refused by every bare command.
- `find_deny_list`: behind `--` the first argument is the image whatever it looks like
  (`cli.go:477-482`, `939-945`), and the emitted line has no marker before it
  (`jail.go:929-930`), so podman reads a refused flag there. `jail.go:924-926` says that
  no network- or isolation-relevant flag can come in. `JailFlagsOwned` shows that this is
  the only such place.

Three more are the exceptions that properties of passing runs make, each of which says
that there is no other:

- `ProxyReachable`: with a proxy at a private LAN address and any LAN `--allow`, the
  range drops catch the sidecar's own dial to the proxy, and the jail has no way out;
  `jail.go:446-447` says that the accepts prevent that.
- `FilesHavePair`, `ResidueExplained`, `CrashResidue`: `rm` returns on an error of podman
  before its sweep (`manage.go:651-653`). A signal, or a failure, after podman has
  removed the pair leaves the bind-mount files, and no later command finds a pair to
  sweep them for; `run.go:109-110` says that whatever finally removes the pair also
  removes the files.
- `BlameIsEarned`: a podman killed by the context is taken for a tool that exited with -1
  and no output (`run.go:196-208`), so a `verify` whose three minutes end during the
  lookup says that the forwarder does not answer over TCP; `verify.go:612-613` and
  `631-632` say that only a container that ran and returned empty is blamed on it.

Disagreements met while modelling, which no run pins down:

- A kept run leaves its sidecar *running*; `CONTEXT.md:19` says stopped.
- A kept run that fails before its tool is created leaves a lone sidecar;
  `CONTEXT.md:19` knows only pairs that are both kept or both gone.
- SIGINT during a reachback or direct probe of an ephemeral run can leave the
  sidecar: the probe container still depends on it when Teardown removes it.
- `run.go:665-666` says that nothing of the run remains after the sweep; a `start`
  that lost a race against `rm` re-creates files that nobody removes later.
- `start.go:40-42` says that the tool runs behind a verified firewall; a sidecar
  that dies between `verifyFirewall` and the start of the tool comes back with the
  tool, and nobody verifies it again.
- `run.go:512-513` says the machine id is stable; two concurrent starts after the
  temp directory was swept each mint one.
- `exec` given the sidecar's name succeeds while the tool is stopped
  (`manage.go:701` against `682-683`).
- `setup-default` writes the allowlist it read at its beginning: what another
  setup or the user saved meanwhile is lost without a question (`AllowListKept`
  excepts the setups that had read the file before, and only these). It also cannot
  repair a file that does not decode.
- `loadConfig` says that a proxy of another scheme in the file is an error; it is
  not looked at when the flag or the environment wins.
- `dnsforwarder.Start` says it serves until ctx is done; `serveTCP` returns on the
  first error of Accept, also on a shortage of descriptors. When ctx is done the
  accepted connections are served on. The dial of the proxy has no deadline.
- netcage killed by SIGKILL leaves its socat listener, which the verb's comment
  says does not outlive it; and after SIGTERM with a relay open the port is given
  back at once while the command returns only when the relays end.
- `exec` and `commit` accept a value on a switch and, but for `--pause`, take the
  switch as given whatever it says: `--tty=false` attaches a terminal.
  `commit --pause=True`, which podman takes for true, becomes `--pause=false`.
  `SameCommand` excepts these values (`Heeded`), and an `inspect` that podman would
  refuse to read.
- The lines of `exec` and `commit`, too, have no `--` before the container and the
  image-ref: one that begins with a dash is read as a flag. `SameCommand` takes them to
  be words, as podman's names are (`NamesAreWords`).
- `run -i` or `-t` alone gives `-it`.
- `logs`, `stop` and `rm` ignore every argument after the first, `images` all of
  them, and `verify` the flags that only a tool has, without a word.
- The baseline of the leak test is fetched with `http.DefaultClient`, which goes
  through the proxy of the environment when there is one; the comment says direct.
- An empty answer of `getent` is put down to the forwarder, also when the proxy has
  gone down since, or the resolver behind it does not answer.
- A `run` or `start` whose podman is killed by a signal ends with exit code -1 of "the
  tool" and no error, although the tool may run on.
- The comment of `Handshake` says that a server which accepts no method is not
  confirmed; it is, as SOCKS5 that refuses.

## 7. Not modelled, and why

- The probes and assertions of `verify/verify.go` that only integration tests call
  (IPv6, UDP, ICMP, loopback, DNS on the LAN, split tunnel): pure functions of an
  output. What they look for is what `JailFirewall` says of packets.
- Proxy detection beyond the answer on each port: hints from process names and the
  printed report inform the user only.
- Image references and the graph root: functions of strings, without state. The
  default image is a name in `CommandLine`.
- `socks5hfixture/`: a SOCKS server for the tests.
- `ps`, `images`, `logs`, `inspect`, `commit`, `build`, `pull`, `load` after the
  hand-over: they read, or pass through to podman, and change no state of a jail.
- Proxies given by host name or IPv6 address in the firewall and the routes, and
  proxies at a 127.x address other than 127.0.0.1 (sections 2.2 and 2.4).
- The flags of `netcage-dns`, and that its context is never cancelled: its sockets go
  with the sidecar.
- Help and version text, tables, JSON and messages.
- A configuration directory that cannot be resolved, and a file that cannot be read.

## 8. Plan

1. *Done first, because it is what netcage is for:* the lifecycle, its theorems, the
   firewall and its refinement, and then the components a run depends on
   (forwarder, configuration, host access).
2. *Done next:* the promise of a pair and the proof that the lifecycle implements it;
   the command line from arguments to podman's; the leak test; detection; the theorems
   on the defaults file and on `verify`.
3. *Left, as models:* `HostAccess` over the pair of `JailLifecycle` instead of a jail of
   its own that stops and starts.
4. *Done, as proofs:* the firewall and its refinement, the listing of `HostAccess`, the
   `--allow` parser and what rests on it, and what the lifecycle leaves behind, under
   the faults and the concurrency each statement allows.
5. *Done, as proofs:* the command line, `JailFlagsOwned` and `SameCommand`, by reading
   both lines one argument after the other and in pieces.
