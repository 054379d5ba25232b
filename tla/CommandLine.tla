----------------------------- MODULE CommandLine -----------------------------
(***************************************************************************)
(* One netcage process from its arguments to the podman command line it    *)
(* hands over: run of main.go, Parse of internal/cli/cli.go, the parsers   *)
(* and argv builders of internal/manage, ToolRunArgs of internal/jail.     *)
(*                                                                         *)
(* An argument is the sequence of texts it has between its equals signs:   *)
(* --memory=1g is <<"--memory", "1g">>, a word is <<"alpine">>.  The scan  *)
(* takes one argument at a time.  What podman makes of a command line is   *)
(* Reads, by podman's own flag tables; the user means what podman would    *)
(* make of the user's line.                                                *)
(***************************************************************************)
EXTENDS Integers, Sequences, SequencesExt

CONSTANTS
    Arguments,  \* per verb, the arguments its users give it
    MaxArgs,    \* bound: the arguments of a line after the verb
    Unknown,    \* dash-led words no verb knows
    BareMounts, \* -v values without a container target
    WorkMounts, \* -v values mounted at /work
    Managed,    \* the names and ids of a pair of containers labelled netcage.managed
    Sidecars,   \* those of the sidecar
    PortParts   \* per text, the numbers between its colons; 0 for a part that is none

(* An argument has a text, and netcage's own names have no dash. *)
ASSUME CommandAssumption ==
    /\ MaxArgs \in Nat /\ Sidecars \subseteq Managed
    /\ \A v \in DOMAIN Arguments : Arguments[v] \subseteq Seq(STRING) \ {<<>>}
    /\ Unknown \intersect {"devimage", "netcage-run-id-tool"} = {}

VARIABLES
    verb,       \* args[0]
    argv,       \* the arguments scanned so far
    ended,      \* endOfFlags
    pending,    \* the flag whose value is the next argument, or ""
    flags,      \* what was parsed: <<long name, value>>, in order
    pos,        \* the positionals
    phase,      \* "scan", "parsed", "dispatched", "handed" or "exited"
    exit,       \* the exit code of a process that ended by itself, else -1
    line        \* the podman arguments after the podman verb

cmdVars == <<verb, argv, ended, pending, flags, pos, phase, exit, line>>
scanned == <<verb, argv, ended, pending, flags, pos>>

-----------------------------------------------------------------------------
(* The flag tables. *)
JailVerbs == {"run", "start", "verify"}
RawVerbs == {"ps", "images", "build", "pull", "load", "logs", "stop", "rm"}
IsManagement(v) == v \in RawVerbs \union {"exec", "commit", "inspect"}

denyReasons == {"--network", "-p", "--publish", "--dns", "--privileged",
                "--cap-add", "--device", "--name", "--add-host"}
passThroughValueFlags ==
    {"--memory", "--cpus", "--memory-swap", "--tmpfs", "--hostname", "--pull",
     "--platform", "--env-file", "--ulimit", "--shm-size"}

Short ==
    [w \in {"-i", "-t", "-v", "-w", "-e", "-u", "-l"} |->
        CASE w = "-i" -> "--interactive" [] w = "-t" -> "--tty" [] w = "-v" -> "--volume"
          [] w = "-w" -> "--workdir" [] w = "-e" -> "--env" [] w = "-u" -> "--user"
          [] w = "-l" -> "--label"]
ExecShort == [w \in {"-i", "-t", "-w", "-e", "-u"} |-> Short[w]]
CommitShort ==
    [w \in {"-m", "-a", "-c", "-f", "-q"} |->
        CASE w = "-m" -> "--message" [] w = "-a" -> "--author" [] w = "-c" -> "--change"
          [] w = "-f" -> "--format" [] w = "-q" -> "--quiet"]
InspectShort == [w \in {"-f", "-t"} |-> IF w = "-f" THEN "--format" ELSE "--type"]
Bundles == {"-it", "-ti"}

Table(switches, valued, short) ==
    [switch |-> switches, valued |-> valued, short |-> short]
NoShort == [w \in {} |-> ""]

RunValued == {"--proxy", "--allow", "--volume", "--workdir", "--env", "--user",
              "--entrypoint", "--label"} \union passThroughValueFlags
RunTable_ReadOnlyTakesValue ==
    Table({"--interactive", "--tty", "--rm"}, RunValued \union {"--read-only"}, Short)
RunTable ==
    Table({"--interactive", "--tty", "--rm", "--read-only"}, RunValued, Short)

(* What each verb takes before, or between, its positionals. *)
TableOf(v) ==
    CASE v \in JailVerbs -> RunTable
      [] v = "exec" -> Table({"--interactive", "--tty"},
                             {"--workdir", "--user", "--env"}, ExecShort)
      [] v = "commit" -> Table({"--pause", "--quiet"},
                               {"--message", "--author", "--change", "--format"},
                               CommitShort)
      [] v = "inspect" -> Table({}, {"--format", "--type"}, InspectShort)
      [] v = "forward" -> Table({}, {"--bind"}, NoShort)
      [] v \in {"ports", "detect-proxy"} -> Table({"--json"}, {}, NoShort)
      [] OTHER -> Table({}, {}, NoShort)

Mixed(v) == v \in {"commit", "inspect", "forward", "ports", "detect-proxy"}
Marks(v) == v \in JailVerbs \union {"exec", "commit", "inspect"}

LongName(t, a) == IF a[1] \in DOMAIN t.short THEN t.short[a[1]] ELSE a[1]
Words(t) == t.switch \union t.valued \union DOMAIN t.short
(* podman's own tables, of the verbs that share flags with netcage's. *)
PodmanTable(v) ==
    CASE v = "run" ->
           Table({"--interactive", "--tty", "--rm", "--read-only", "--privileged"},
                 (RunValued \ {"--proxy", "--allow"})
                   \union (denyReasons \ {"-p", "--privileged"}),
                 [w \in DOMAIN Short \union {"-p"} |->
                     IF w = "-p" THEN "--publish" ELSE Short[w]])
      [] v = "exec" -> TableOf("exec")
      [] v = "commit" -> TableOf("commit")
      [] v = "inspect" -> Table({"--size"}, {"--format", "--type"},
                                [w \in DOMAIN InspectShort \union {"-s"} |->
                                 IF w = "-s" THEN "--size" ELSE InspectShort[w]])
      [] OTHER -> Table({"--all", "--quiet"}, {"--filter", "--format"},
                        [w \in {"-a", "-q", "-f"} |->
                            CASE w = "-a" -> "--all" [] w = "-q" -> "--quiet"
                              [] w = "-f" -> "--filter"])

DashedWords ==
    {"--"} \union Bundles \union denyReasons \union Unknown
      \union UNION {Words(TableOf(v)) \union Words(PodmanTable(v)) : v \in DOMAIN Arguments}
Dashed(a) == a[1] \in DashedWords

Empty == <<"">>
Yes == <<"true">>

-----------------------------------------------------------------------------
Init ==
    /\ verb \in DOMAIN Arguments
    /\ argv = <<>>
    /\ ended = (verb \in RawVerbs)      \* their arguments are taken as they are
    /\ pending = ""
    /\ flags = <<>>
    /\ pos = <<>>
    /\ phase = "scan"
    /\ exit = -1
    /\ line = <<>>

Exit(code) == phase' = "exited" /\ exit' = code
Usage == Exit(IF IsManagement(verb) THEN 1 ELSE 2)
Stay == UNCHANGED <<phase, exit>>
Note(parsed) == flags' = flags \o parsed

(* next: whatever follows a flag that wants a value is the value. *)
ScanValue(a) ==
    /\ pending # ""
    /\ Note(<<<<pending, a>>>>)
    /\ pending' = ""
    /\ UNCHANGED <<ended, pos>> /\ Stay

(* The first positional ends the flags, for the verbs that run a command. *)
EndsFlags_Never(v) == FALSE
EndsFlags(v) == ~Mixed(v)
ScanPositional(a) ==
    /\ pending = ""
    /\ ended \/ ~Dashed(a)
    /\ pos' = Append(pos, a)
    /\ ended' = (ended \/ EndsFlags(verb))
    /\ UNCHANGED <<pending, flags>> /\ Stay

AtFlag(a) == pending = "" /\ ~ended /\ Dashed(a)

(* inspect takes one name, and only after the marker once there is one. *)
Marker(a) == a = <<"--">> /\ Marks(verb) /\ (verb = "inspect" => pos = <<>>)
ScanMarker(a) ==
    /\ AtFlag(a) /\ Marker(a)
    /\ ended' = TRUE
    /\ UNCHANGED <<pending, flags, pos>> /\ Stay

(* Only exec and commit accept a value on a switch, of the long form; only
   --pause heeds it. *)
Switch(a) ==
    LET t == TableOf(verb) IN
        /\ \/ LongName(t, a) \in t.switch
           \/ a[1] \in Bundles /\ "--tty" \in t.switch
        /\ Len(a) > 1 => verb \in {"exec", "commit"} /\ a[1] \in t.switch
Switched(a) ==
    IF a[1] \in Bundles THEN <<<<"--interactive", Yes>>, <<"--tty", Yes>>>>
    ELSE IF a[1] = "--pause" /\ Len(a) > 1
    THEN <<<<"--pause", IF Tail(a) \in {Yes, <<"1">>} THEN Yes ELSE <<"false">>>>>>
    ELSE <<<<LongName(TableOf(verb), a), Yes>>>>
ScanSwitch(a) ==
    /\ AtFlag(a) /\ Switch(a)
    /\ Note(Switched(a))
    /\ UNCHANGED <<ended, pending, pos>> /\ Stay

Valued(a) == LongName(TableOf(verb), a) \in TableOf(verb).valued
(* The value may follow an equals sign; of a short flag only for the jail verbs. *)
Inline(a) ==
    /\ Len(a) > 1 /\ verb # "inspect"
    /\ a[1] \in DOMAIN TableOf(verb).short => verb \in JailVerbs
ScanValued(a) ==
    /\ AtFlag(a) /\ Valued(a)
    /\ \/ Len(a) = 1 /\ pending' = LongName(TableOf(verb), a) /\ UNCHANGED flags
       \/ /\ Inline(a)
          /\ Note(<<<<LongName(TableOf(verb), a), Tail(a)>>>>)
          /\ UNCHANGED pending
    /\ UNCHANGED <<ended, pos>> /\ Stay

(* inspect forwards the flags it does not know, and those with a value in them,
   as they are written. *)
Verbatim(a) == verb = "inspect" /\ a # <<"--">> /\ ~(Valued(a) /\ Len(a) = 1)
ScanVerbatim(a) ==
    /\ AtFlag(a) /\ Verbatim(a)
    /\ Note(<<<<"", a>>>>)
    /\ UNCHANGED <<ended, pending, pos>> /\ Stay

(* A jail-breaching flag, or one that is unknown to the verb. *)
Denied(a) == verb \in JailVerbs /\ a[1] \in denyReasons
Taken(a) ==
    /\ ~Denied(a)
    /\ \/ Marker(a) \/ Switch(a) \/ Verbatim(a)
       \/ Valued(a) /\ (Len(a) = 1 \/ Inline(a))
ScanRefused(a) ==
    /\ AtFlag(a) /\ ~Taken(a)
    /\ Usage
    /\ UNCHANGED <<ended, pending, flags, pos>>

Scan ==
    /\ phase = "scan" /\ Len(argv) < MaxArgs
    /\ \E a \in Arguments[verb] :
         /\ argv' = Append(argv, a)
         /\ \/ ScanValue(a) \/ ScanPositional(a) \/ ScanMarker(a) \/ ScanSwitch(a)
            \/ ScanValued(a) \/ ScanVerbatim(a) \/ ScanRefused(a)
    /\ UNCHANGED <<verb, line>>

-----------------------------------------------------------------------------
(* What was parsed: the values of a flag, the one that counts, and whether a
   switch is on. *)
ValuesIn(parsed, name) ==
    FlattenSeq([i \in DOMAIN parsed |->
                   IF parsed[i][1] = name THEN <<parsed[i][2]>> ELSE <<>>])
LastIn(parsed, name) ==
    IF ValuesIn(parsed, name) = <<>> THEN Empty ELSE Last(ValuesIn(parsed, name))
Values(name) == ValuesIn(flags, name)
Value(name) == LastIn(flags, name)
On(name) == Values(name) # <<>>

IsPassThrough(f) == f[1] \in passThroughValueFlags \union {"--label", "--read-only"}
PassThroughFlags ==
    FlattenSeq([i \in DOMAIN flags |-> IF IsPassThrough(flags[i]) THEN <<flags[i]>> ELSE <<>>])

(* resolveRepoMountDefaults: a bare mount goes to /work, and so does the tool. *)
OneOf(a, texts) == Len(a) = 1 /\ a[1] \in texts
MountOf(m) == IF OneOf(m, BareMounts) THEN <<m[1] \o ":/work">> ELSE m
AtWork(mounts) == \E i \in DOMAIN mounts : OneOf(mounts[i], BareMounts \union WorkMounts)
Workdir ==
    IF Value("--workdir") = Empty /\ AtWork(Values("--volume"))
    THEN <<"/work">> ELSE Value("--workdir")

(* rejectStartCreateFlags *)
CreatesNothing ==
    /\ \A f \in {"--volume", "--env"} : ~On(f)
    /\ \A f \in {"--workdir", "--user", "--entrypoint"} : Value(f) = Empty
    /\ PassThroughFlags = <<>>

GoodPort(n) == n \in 1 .. 65535
PortSpec(a) ==
    /\ Len(a) = 1 /\ Len(PortParts[a[1]]) \in {1, 2}
    /\ \A i \in DOMAIN PortParts[a[1]] : GoodPort(PortParts[a[1]][i])

(* What each parser asks of the whole line. *)
Accepted ==
    /\ pending = ""
    /\ CASE verb = "start" -> Len(pos) = 1 /\ CreatesNothing
         [] verb \in {"verify", "detect-proxy", "setup-default"} -> pos = <<>>
         [] verb = "exec" -> Len(pos) >= 2
         [] verb = "commit" -> Len(pos) = 2
         [] verb = "inspect" -> Len(pos) = 1
         [] verb = "ports" -> Len(pos) = 1
         [] verb = "forward" ->
              /\ \A i \in DOMAIN Values("--bind") :
                   Values("--bind")[i] \in {<<"127.0.0.1">>, <<"0.0.0.0">>}
              /\ Len(pos) = 2 /\ PortSpec(pos[2])
         [] verb \in {"logs", "stop", "rm"} -> pos # <<>>
         [] verb \in {"build", "pull", "load"} ->      \* refuseUserRoot
              \A i \in DOMAIN pos : pos[i][1] # "--root"
         [] OTHER -> TRUE

(* The line ends.  The proxy, the allow list and the file are resolved as
   ProxyConfig says, which may refuse the command too. *)
Parse ==
    /\ phase = "scan"
    /\ \/ ~Accepted /\ Usage
       \/ verb \in JailVerbs /\ Usage
       \/ Accepted /\ phase' = "parsed" /\ UNCHANGED exit
    /\ UNCHANGED <<scanned, line>>

(* Preflight dials the proxy, if the verb has one. *)
IsProxyless == verb \notin JailVerbs
Preflight ==
    /\ phase = "parsed"
    /\ \/ phase' = "dispatched" /\ UNCHANGED exit
       \/ ~IsProxyless /\ Exit(1)
    /\ UNCHANGED <<scanned, line>>

-----------------------------------------------------------------------------
(* The argv builders.  One label stands for netcage's three, one mount for the
   five fixtures. *)
Tool == <<"netcage-run-id-tool">>
Sidecar == <<"netcage-run-id-sidecar">>
JailNetwork == <<"container:netcage-run-id-sidecar">>
RunLabel == <<"netcage.run-id", "id">>
Fixtures == <<"/tmp/netcage-id:/etc/fixture:ro">>
FixedHostname == <<"netcage">>
DefaultImage == <<"devimage">>
ManagedFilter == <<"label", "netcage.managed", "true">>

Each(word, values) == FlattenSeq([i \in DOMAIN values |-> <<<<word>>, values[i]>>])
One(word, value) == IF value = Empty THEN <<>> ELSE <<<<word>>, value>>
If(condition, args) == IF condition THEN args ELSE <<>>
AsWritten(f) ==
    IF f[1] = "" THEN <<f[2]>>
    ELSE IF f[1] \in TableOf(verb).switch THEN <<<<f[1]>>>> ELSE <<<<f[1]>>, f[2]>>
AllAsWritten(parsed) == FlattenSeq([i \in DOMAIN parsed |-> AsWritten(parsed[i])])

(* A terminal is attached for either of -i and -t. *)
Interactive == On("--interactive") \/ On("--tty")
ToolRunArgs ==
    <<<<"--name">>, Tool>> \o If(On("--rm"), <<<<"--rm">>>>)
      \o <<<<"--label">>, RunLabel, <<"--network">>, JailNetwork>>
      \o If(Interactive, <<<<"-it">>>>)
      \o <<<<"-v">>, Fixtures, <<"--hostname">>, FixedHostname>>
      \o Each("-v", [i \in DOMAIN Values("--volume") |-> MountOf(Values("--volume")[i])])
      \o One("-w", Workdir) \o Each("-e", Values("--env")) \o One("-u", Value("--user"))
      \o One("--entrypoint", Value("--entrypoint")) \o AllAsWritten(PassThroughFlags)
      \o IF pos = <<>> THEN <<DefaultImage>> ELSE pos

ExecArgs ==
    If(On("--interactive"), <<<<"-i">>>>) \o If(On("--tty"), <<<<"-t">>>>)
      \o One("-w", Value("--workdir")) \o One("-u", Value("--user"))
      \o Each("-e", Values("--env")) \o pos

CommitArgs ==
    One("-m", Value("--message")) \o One("-a", Value("--author"))
      \o Each("-c", Values("--change")) \o One("-f", Value("--format"))
      \o If(On("--pause"),
            IF Value("--pause") = Yes THEN <<<<"--pause">>>> ELSE <<<<"--pause", "false">>>>)
      \o If(On("--quiet"), <<<<"-q">>>>)
      \o <<Tool, pos[2]>>      \* toolNameFor(m.runID)

PsArgs == <<<<"-a">>, <<"--filter">>, ManagedFilter>> \o pos

Line ==
    CASE verb = "run" -> ToolRunArgs
      [] verb = "exec" -> ExecArgs
      [] verb = "commit" -> CommitArgs
      [] verb = "inspect" -> AllAsWritten(flags) \o pos
      [] verb = "ps" -> PsArgs
      [] verb \in {"build", "pull", "load"} -> pos
      [] verb \in {"logs", "stop"} -> <<pos[1]>>
      [] verb = "rm" -> <<<<"-f">>, <<"--depend">>, Sidecar>>
      [] OTHER -> <<>>

(* guardManaged, before any verb on a container; exec also wants the jail up,
   commit a tool.  The host-access verbs guard themselves. *)
Named == verb \in {"inspect", "logs", "stop", "rm", "exec", "commit", "forward", "ports"}
Guarded ==
    Named => /\ OneOf(pos[1], Managed)
             /\ verb = "commit" => pos[1][1] \notin Sidecars

(* podman gets the line; the verbs without one go on in their own component. *)
Hand ==
    /\ phase = "dispatched" /\ verb # "verify"
    /\ \/ Guarded /\ phase' = "handed" /\ line' = Line /\ UNCHANGED exit
       \/ (Guarded => verb \in {"run", "start", "exec", "forward", "ports"})
            /\ Exit(1) /\ UNCHANGED line
    /\ UNCHANGED scanned

CommandSteps == Scan \/ Parse \/ Preflight \/ Hand

-----------------------------------------------------------------------------
(* podman's own reading of the arguments of one of its verbs, one at a time.  The
   table of run may have extra flags that take a value. *)
Fresh == [flags |-> <<>>, pos |-> <<>>, pending |-> "", ended |-> FALSE, ok |-> TRUE]
Got(r, parsed) == [r EXCEPT !.flags = @ \o parsed]
Reads(v, t, r, a) ==
    IF r.pending # "" THEN [Got(r, <<<<r.pending, a>>>>) EXCEPT !.pending = ""]
    ELSE IF r.ended \/ ~Dashed(a)
    THEN [r EXCEPT !.pos = Append(@, a), !.ended = @ \/ v \in {"run", "exec"}]
    ELSE IF a = <<"--">> THEN [r EXCEPT !.ended = TRUE]
    ELSE IF a[1] \in Bundles
    THEN Got(r, <<<<"--interactive", Yes>>, <<"--tty", Yes>>>>)
    ELSE IF LongName(t, a) \in t.switch
    THEN Got(r, <<<<LongName(t, a), IF Len(a) > 1 THEN Tail(a) ELSE Yes>>>>)
    ELSE IF LongName(t, a) \notin t.valued THEN [r EXCEPT !.ok = FALSE]
    ELSE IF Len(a) = 1 THEN [r EXCEPT !.pending = LongName(t, a)]
    ELSE Got(r, <<<<LongName(t, a), Tail(a)>>>>)

ReadingTable(v, extra) == [PodmanTable(v) EXCEPT !.valued = @ \union extra]
Reading(v, extra, args) ==
    LET after[n \in 0 .. Len(args)] ==
            IF n = 0 THEN Fresh
            ELSE Reads(v, ReadingTable(v, extra), after[n - 1], args[n])
    IN  after[Len(args)]

(* A switch may have a value, and these are the ones that turn it on. *)
Truths == {Yes, <<"1">>, <<"t">>, <<"T">>, <<"TRUE">>, <<"True">>}

Repeatable == {"--volume", "--env", "--label", "--tmpfs", "--ulimit", "--env-file",
               "--change", "--filter"}

(* What the user asked for with a flag, with the defaults netcage promises. *)
AskedAll(asked, f) ==
    CASE verb = "run" /\ f = "--volume" ->
           <<Fixtures>> \o [i \in DOMAIN ValuesIn(asked, f) |-> MountOf(ValuesIn(asked, f)[i])]
      [] verb = "run" /\ f = "--label" -> <<RunLabel>> \o ValuesIn(asked, f)
      [] OTHER -> ValuesIn(asked, f)
AskedLast(asked, f) ==
    CASE verb = "run" /\ f = "--hostname" /\ ValuesIn(asked, f) = <<>> -> FixedHostname
      [] verb = "run" /\ f = "--workdir" /\ LastIn(asked, f) = Empty
           /\ AtWork(ValuesIn(asked, "--volume")) -> <<"/work">>
      [] OTHER -> LastIn(asked, f)
AskedOn(asked, f) ==
    IF verb = "run" /\ f \in {"--interactive", "--tty"}
    THEN \E g \in {"--interactive", "--tty"} : LastIn(asked, g) \in Truths
    ELSE LastIn(asked, f) \in Truths

(* netcage takes a switch as turned on whatever its value says, and of --pause it
   knows two of the truths. *)
Heeded(asked) ==
    \A i \in DOMAIN asked :
        asked[i][1] \in TableOf(verb).switch =>
            IF asked[i][1] = "--pause" THEN asked[i][2] \notin Truths \ {Yes, <<"1">>}
            ELSE asked[i][2] \in Truths

(* The image, the container and the image-ref of the line are words, as podman's
   names are.  netcage does not look: behind the end-of-flags marker they may begin
   with a dash, and the emitted line, which has no marker, gives them to podman as
   they are (cli.go:477-482, 939-946, jail.go:929-930). *)
NamesAreWords ==
    \A i \in DOMAIN pos : i <= (IF verb = "commit" THEN 2 ELSE 1) => ~Dashed(pos[i])

SameReading(user, given) ==
    LET t == PodmanTable(verb) IN
        /\ user.ok /\ given.ok /\ user.pending = "" /\ given.pending = ""
        /\ given.pos = CASE user.pos = <<>> -> <<DefaultImage>>
                         [] verb = "commit" -> <<Tool, user.pos[2]>>
                         [] OTHER -> user.pos
        /\ \A f \in t.valued \ denyReasons :
             IF f \in Repeatable
             THEN ValuesIn(given.flags, f) = AskedAll(user.flags, f)
             ELSE LastIn(given.flags, f) = AskedLast(user.flags, f)
        /\ \A f \in t.switch :
             LastIn(given.flags, f) \in Truths <=> AskedOn(user.flags, f)
LosesNothing(user) ==
    /\ Len(user.pos) = 1
    /\ \A i \in DOMAIN user.flags :
         user.flags[i][1] \in {"--proxy", "--allow", "--interactive", "--tty", "--rm"}
           \/ LastIn(user.flags, user.flags[i][1]) = Empty

(* netcage runs the command its user wrote.  What podman reads in the line it is
   handed is what podman would read in the user's own: the same image or container,
   the same command, every repeated value in its order, of the others the last,
   and every switch, with the promised defaults where the user gave none.  No
   value is taken for an image and no flag of the tool for one of netcage's
   (ParseWithEnv, cli.go:441-605, and ToolRunArgs, jail.go:819-932; ParseExecArgs,
   ParseCommitArgs and ParseInspectArgs, manage.go).  The exceptions are the values
   on switches that netcage does not heed, and what podman inspect would refuse.  A
   start is handed over only when nothing the user asked for is lost on it. *)
SameCommand ==
    phase = "handed" /\ NamesAreWords =>
        /\ verb \in {"run", "exec", "commit", "inspect"} =>
             LET user == Reading(verb, IF verb = "run" THEN {"--proxy", "--allow"} ELSE {}, argv)
             IN  Heeded(user.flags) /\ (verb = "inspect" => user.ok) =>
                   SameReading(user, Reading(verb, {}, line))
        /\ verb = "start" => LosesNothing(Reading("run", {"--proxy", "--allow"}, argv))

(* podman has exactly one --name and one --network, netcage's, and no refused flag. *)
JailOwned(given) ==
    /\ ValuesIn(given, "--name") = <<Tool>>
    /\ ValuesIn(given, "--network") = <<JailNetwork>>
    /\ \A i \in DOMAIN given :
         given[i][1] \in denyReasons => given[i][1] \in {"--name", "--network"}

(* The image is a flag, and the argument before it was the end-of-flags marker. *)
FlagBehindMarker ==
    /\ pos # <<>> /\ Dashed(pos[1])
    /\ Len(pos) < Len(argv) /\ argv[Len(argv) - Len(pos)] = <<"--">>

(* The jail stays netcage's on every line but one.  However the user's arguments are
   cut into flags, values and positionals, podman reads exactly one --name and one
   --network in the line of a run, netcage's own, and none of the refused flags,
   unless the user wrote a flag in the place of the image, directly behind the
   end-of-flags marker: on that line netcage's deny list does not hold (the finding
   of DenyListHolds).  And the first filter of a ps is the managed label, which the
   user's only narrow (denyFlag, cli.go:1015-1032; PsArgs, manage.go:73-77). *)
JailFlagsOwned ==
    phase = "handed" =>
        LET given == Reading(verb, {}, line).flags IN
            /\ verb = "run" => JailOwned(given) \/ FlagBehindMarker
            /\ verb = "ps" => ValuesIn(given, "--filter")[1] = ManagedFilter

(* What the code says of its deny list and does not do: the parser only lets vetted
   flags through, "so this cannot introduce a network/isolation-relevant flag"
   (jail.go:924-926).  A run of its own refutes it, with a line podman accepts. *)
DenyListHolds ==
    phase = "handed" /\ verb = "run" =>
        LET given == Reading(verb, {}, line) IN
            given.ok /\ given.pos # <<>> => JailOwned(given.flags)
=============================================================================
