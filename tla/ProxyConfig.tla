---------------------------- MODULE ProxyConfig -----------------------------
(* The persisted default of netcage, ~/.config/netcage/config.json: what
   setup-default writes, and how every command that runs a jail resolves its
   proxy and its allow list from the command line, the environment and the file.

   Sources: internal/cli/config.go (loadConfig, ReadConfigView, WriteConfig),
   internal/cli/cli.go (ParseProxy, ParseWithEnv), internal/setupdefault, and
   runSetupDefault of main.go.

   A setup reads the file, talks to the user for as long as that takes, and
   writes the file in place: truncate, write, chmod.  Several may run at once,
   the user may edit the file, and a setup may be killed anywhere.  A command
   reads the file once: it changes nothing here, and is the operator Goes with
   what it resolves, for the file as it is. *)
EXTENDS AllowDirect

CONSTANTS
    Setups,         \* processes of netcage setup-default
    Loopback,       \* the proxy host that names the host's loopback, see below
    URLs,           \* the proxy URLs users type
    DefaultPorts,   \* the ports detect-proxy probes on the loopback
    AllowLists,     \* the allow lists of the file and of the command line
    MaxEdits        \* bound: edits of the file by hand

(* A proxy URL, or nothing.  Port 0 is one that was left out. *)
Blank == [scheme |-> "", host |-> "", port |-> 0, auth |-> FALSE]
Candidate(p) ==
    [scheme |-> "socks5h", host |-> Loopback, port |-> p, auth |-> FALSE]

ASSUME ConfigAssumption ==
    /\ \A u \in URLs : /\ DOMAIN u = {"scheme", "host", "port", "auth"}
                       /\ u.scheme \in {"socks5h", "socks5"}
                       /\ u.port \in 0 .. MaxPort
                       /\ u.auth \in BOOLEAN
    /\ \A p \in DefaultPorts : Candidate(p) \in URLs
    /\ AllowLists \subseteq SUBSET RawAllows
    /\ {} \in AllowLists
    /\ MaxEdits \in Nat
    /\ "hand" \notin Setups

(* "torn" is content that does not decode: empty, cut short, or not JSON. *)
Contents == [state : {"ok"}, proxy : URLs \union {Blank}, allow : AllowLists]
              \union [state : {"missing", "torn"}, proxy : {Blank}, allow : {{}}]
Missing == [state |-> "missing", proxy |-> Blank, allow |-> {}]
Torn == [state |-> "torn", proxy |-> Blank, allow |-> {}]
Content(u, as) == [state |-> "ok", proxy |-> u, allow |-> as]

VARIABLES
    file,       \* a member of Contents
    author,     \* who wrote or truncated it last: a setup, or "hand"
    mode,       \* "0600", or "loose" for any other mode
    pc,         \* [Setups -> STRING]: where each setup is
    existing,   \* [Setups -> Contents]: the file as the setup read it
    sole,       \* [Setups -> port or 0]: the only confirmed proxy, if there is one
    chosen,     \* [Setups -> URL]: the proxy the user chose
    edits,      \* edits by hand so far
    mine,       \* history: the allow list the user left in the file
    outdated    \* history: the setups that read the file before that

past == <<mine, outdated>>
vars == <<file, author, mode, pc, existing, sole, chosen, edits, past>>

Stages == {"start", "choose", "confirm", "write", "chmod", "saved", "ended",
           "died-writing"}

Init ==
    /\ file \in {Missing, Torn} \union
                {Content(u, as) : u \in URLs \union {Blank}, as \in AllowLists}
    /\ author = "hand"
    /\ mode \in {"0600", "loose"}
    /\ pc = [s \in Setups |-> "start"]
    /\ existing = [s \in Setups |-> Missing]
    /\ sole = [s \in Setups |-> 0]
    /\ chosen = [s \in Setups |-> Blank]
    /\ edits = 0
    /\ mine = file.allow
    /\ outdated = {}

Goto(s, p) == pc' = [pc EXCEPT ![s] = p]

-----------------------------------------------------------------------------
(* ParseProxy: the one validator of every proxy URL. *)
ParseProxy(u) == u.scheme = "socks5h" /\ u.port # 0

(* proxyHostIsLoopback knows 127.0.0.1, ::1 and localhost, for which Loopback stands.
   Any other 127.x host is a remote one to netcage, in every module. *)
ProxyOnHostLoopback(u) == u.host = Loopback

(* What a command resolves.  cl.flag is Blank for an explicit empty --proxy and
   NotGiven without the flag; cl.env is Blank when NETCAGE_PROXY is unset or
   empty; cl.allow holds the --allow values. *)
NotGiven == [scheme |-> "-", host |-> "", port |-> 0, auth |-> FALSE]
CommandLines ==
    [flag : URLs \union {Blank, NotGiven}, env : URLs \union {Blank},
     allow : AllowLists]

(* loadConfig: a missing file is no config; content that does not decode, or an
   allow entry that does not parse, is an error whoever wins the resolution. *)
Loads == file.state # "torn" /\ \A raw \in file.allow : Parses(raw)

(* flag > env > config; an explicit flag wins even when it is empty. *)
Source_BlankFlagIgnored(cl) ==
    IF cl.flag \notin {NotGiven, Blank} THEN "flag"
    ELSE IF cl.env # Blank THEN "env"
    ELSE IF file.proxy # Blank THEN "config" ELSE "flag"
Source(cl) ==
    IF cl.flag # NotGiven THEN "flag"
    ELSE IF cl.env # Blank THEN "env"
    ELSE IF file.proxy # Blank THEN "config" ELSE "flag"

(* The winner's proxy; without a source the flag's empty default. *)
ResolvedProxy(cl) ==
    CASE Source(cl) = "env" -> cl.env
      [] Source(cl) = "config" -> file.proxy
      [] OTHER -> IF cl.flag = NotGiven THEN Blank ELSE cl.flag

(* Any --allow replaces the file's list. *)
ResolvedAllow(cl) == IF cl.allow # {} THEN cl.allow ELSE file.allow

(* refuseHostLoopbackProxyPort, on the final list. *)
OwnProxyPort_FlagOnly(cl) ==
    /\ ProxyOnHostLoopback(ResolvedProxy(cl))
    /\ \E raw \in cl.allow :
         Entry(raw).hostLoopback /\ raw.port = ResolvedProxy(cl).port
OwnProxyPort(cl) ==
    /\ ProxyOnHostLoopback(ResolvedProxy(cl))
    /\ \E raw \in ResolvedAllow(cl) :
         Entry(raw).hostLoopback /\ raw.port = ResolvedProxy(cl).port

(* ParseWithEnv up to the positionals: the command runs a jail. *)
Goes(cl) ==
    /\ Loads
    /\ ResolvedProxy(cl) # Blank
    /\ ParseProxy(ResolvedProxy(cl))
    /\ \A raw \in cl.allow : Parses(raw)
    /\ ~OwnProxyPort(cl)

BareCommand == [flag |-> NotGiven, env |-> Blank, allow |-> {}]

-----------------------------------------------------------------------------
(* What may listen on a port of the loopback: nothing, a server that never
   answers, or in part, one that speaks something else, and SOCKS5 with and
   without a method for netcage.  Handshake confirms the last two: a refusal is
   SOCKS5 all the same, and what came short is not. *)
Peers == {"closed", "silent", "short", "other", "noauth", "refuses"}
Handshake(peer) == peer \in {"noauth", "refuses"}
Confirmed(peer) == {p \in DefaultPorts : Handshake(peer[p])}

(* The port that is the only confirmed one, if there is one. *)
Sole(ports) == IF Cardinality(ports) = 1 THEN CHOOSE p \in ports : TRUE ELSE 0

(* runSetupDefault: ReadConfigView reads the file once, undecoded but for the
   JSON; the detection that follows confirms some of the default ports, which
   matters only when it is a single one and there is no current proxy. *)
Begin(s) ==
    /\ pc[s] = "start"
    /\ \/ file.state = "torn" /\ Goto(s, "ended") /\ UNCHANGED <<existing, sole>>
       \/ /\ file.state # "torn"
          /\ existing' = [existing EXCEPT ![s] = file]
          /\ \E peer \in [DefaultPorts -> Peers] :
               sole' = [sole EXCEPT ![s] =
                   IF file.proxy = Blank THEN Sole(Confirmed(peer)) ELSE 0]
          /\ Goto(s, "choose")
    /\ UNCHANGED <<file, author, mode, chosen, edits, past>>

(* An answer, or what a bare Enter stands for: the current proxy, else the sole
   detected one, else nothing. *)
Default(s) ==
    IF existing[s].proxy # Blank THEN existing[s].proxy
    ELSE IF sole[s] # 0 THEN Candidate(sole[s]) ELSE Blank

(* chooseProxy: nothing aborts, what NormalizeProxyInput refuses is asked for
   again, and the rest is a proxy to persist, credentials included. *)
Answer(s, typed) ==
    LET raw == IF typed = Blank THEN Default(s) ELSE typed IN
        \/ raw = Blank /\ Goto(s, "ended") /\ UNCHANGED chosen
        \/ /\ raw # Blank /\ ParseProxy(raw)
           /\ chosen' = [chosen EXCEPT ![s] = raw]
           /\ Goto(s, "confirm")

Choose(s) ==
    /\ pc[s] = "choose"
    /\ \E typed \in URLs \union {Blank} : Answer(s, typed)
    /\ UNCHANGED <<file, author, mode, existing, sole, edits, past>>

(* The exit IP could not be verified, and the user does not persist the proxy
   anyway. *)
Rechoose(s) ==
    /\ pc[s] = "confirm"
    /\ Goto(s, "choose")
    /\ UNCHANGED <<file, author, mode, existing, sole, chosen, edits, past>>

(* The user says no to the write, or standard input ends. *)
Decline(s) ==
    /\ pc[s] \in {"choose", "confirm"}
    /\ Goto(s, "ended")
    /\ UNCHANGED <<file, author, mode, existing, sole, chosen, edits, past>>

(* WriteConfig refuses credentials, which the user may leave out in another
   answer, and an allow entry of the existing list that does not parse. *)
Credentialed(u) == u.auth
BadAllow_Trusted(s) == FALSE
BadAllow(s) == \E raw \in existing[s].allow : ~Parses(raw)

Refuse_AfterTruncation(s) ==
    /\ Credentialed(chosen[s]) \/ BadAllow(s)
    /\ Goto(s, IF Credentialed(chosen[s]) THEN "choose" ELSE "ended")
    /\ file' = Torn
    /\ author' = s
    /\ UNCHANGED mode
Refuse(s) ==
    /\ Credentialed(chosen[s]) \/ BadAllow(s)
    /\ Goto(s, IF Credentialed(chosen[s]) THEN "choose" ELSE "ended")
    /\ UNCHANGED <<file, author, mode>>

(* os.WriteFile opens and truncates; only a file it creates gets mode 0600. *)
Truncate(s) ==
    /\ ~Credentialed(chosen[s])
    /\ ~BadAllow(s)
    /\ file' = Torn
    /\ author' = s
    /\ mode' = IF file.state = "missing" THEN "0600" ELSE mode
    /\ Goto(s, "write")

(* The user confirms the write, and WriteConfig validates before it opens. *)
Confirm(s) ==
    /\ pc[s] = "confirm"
    /\ Refuse(s) \/ Truncate(s)
    /\ UNCHANGED <<existing, sole, chosen, edits, past>>

(* existingAllowDirect: a reconfigure carries the allow list it read. *)
KeptAllow_OnlyValid(s) == IF existing[s].proxy = Blank THEN {} ELSE existing[s].allow
KeptAllow(s) == existing[s].allow

(* The content is written in one piece at the start of the file: what another
   writer left behind it is not decoded.  Or the write fails, part of it done. *)
Write(s) ==
    /\ pc[s] = "write"
    /\ \/ /\ file' = IF file.state = "missing" THEN Missing
                     ELSE Content(chosen[s], KeptAllow(s))
          /\ author' = IF file.state = "missing" THEN author ELSE s
          /\ Goto(s, "chmod")
       \/ /\ file' = IF file.state = "missing" THEN Missing ELSE Torn
          /\ author' = IF file.state = "missing" THEN author ELSE s
          /\ Goto(s, "died-writing")
    /\ UNCHANGED <<mode, existing, sole, chosen, edits, past>>

(* The mode is normalised by path, which fails when the file was removed meanwhile. *)
Chmod(s) ==
    /\ pc[s] = "chmod"
    /\ IF file.state = "missing" THEN Goto(s, "ended") /\ UNCHANGED mode
       ELSE Goto(s, "saved") /\ mode' = "0600"
    /\ UNCHANGED <<file, author, existing, sole, chosen, edits, past>>

(* A setup is killed. *)
Crash(s) ==
    /\ pc[s] \in {"choose", "confirm", "write", "chmod"}
    /\ Goto(s, IF pc[s] \in {"write", "chmod"} THEN "died-writing" ELSE "ended")
    /\ UNCHANGED <<file, author, mode, existing, sole, chosen, edits, past>>

(* The user edits or removes the file. *)
Edit ==
    /\ edits < MaxEdits
    /\ edits' = edits + 1
    /\ file' \in {Missing, Torn} \union
                 {Content(u, as) : u \in URLs \union {Blank}, as \in AllowLists}
    /\ author' = "hand"
    /\ mode' \in {"0600", "loose"}
    /\ mine' = file'.allow
    /\ outdated' = {s \in Setups : pc[s] \in {"choose", "confirm", "write"}}
    /\ UNCHANGED <<pc, existing, sole, chosen>>

Finished ==
    /\ \A s \in Setups : pc[s] \in {"saved", "ended", "died-writing"}
    /\ UNCHANGED vars

Next ==
    \/ \E s \in Setups :
         \/ Begin(s) \/ Choose(s) \/ Rechoose(s) \/ Decline(s) \/ Confirm(s)
         \/ Write(s) \/ Chmod(s) \/ Crash(s)
    \/ Edit \/ Finished

Spec == Init /\ [][Next]_vars

-----------------------------------------------------------------------------
(* The types, and that a proxy was chosen before anything is confirmed. *)
TypeOK ==
    /\ file \in Contents
    /\ author \in Setups \union {"hand"}
    /\ mode \in {"0600", "loose"}
    /\ pc \in [Setups -> Stages]
    /\ existing \in [Setups -> Contents]
    /\ sole \in [Setups -> DefaultPorts \union {0}]
    /\ chosen \in [Setups -> URLs \union {Blank}]
    /\ \A s \in Setups : pc[s] \in {"confirm", "write", "chmod", "saved"}
                            => chosen[s] # Blank
    /\ edits \in 0 .. MaxEdits
    /\ mine \in AllowLists
    /\ outdated \in SUBSET Setups

(* What a setup leaves in the file is strict and free of credentials, whatever
   it read, whoever edited the file since and whoever else writes: a socks5h
   proxy with host and port, no user and password, and only allow entries that
   may be allowed (WriteConfig, config.go:216-237). *)
SavedIsStrict ==
    file.state = "ok" /\ author \in Setups =>
        /\ file.proxy.scheme = "socks5h" /\ file.proxy.port # 0
        /\ ~file.proxy.auth
        /\ \A raw \in file.allow : Permitted(raw)

(* The user's split-tunnel list is not dropped: as long as every setup that
   wrote the file had read it after the user's last edit, what is in it is the
   user's list, however many setups overwrite each other's proxy.  A setup that
   read it before, and then waited for an answer, does lose the edit
   (existingAllowDirect, setupdefault.go:206-217 and 272). *)
AllowListKept ==
    file.state = "ok" /\ (\A s \in outdated : pc[s] \in {"choose", "confirm", "ended"})
        => file.allow = mine

(* A file that does not decode, and so stops every command, is the work of the
   user, or of a setup that is writing or died writing: a setup that refuses, is
   declined or aborts leaves the file alone (the order of WriteConfig). *)
TornOnlyByWriter ==
    file.state = "torn" /\ author \in Setups => pc[author] \in {"write", "died-writing"}

(* A command reads nothing but the file, which a setup in its dialogue has not
   touched: the states without a dialogue are enough to look at. *)
NoDialogue == \A s \in Setups : pc[s] \notin {"choose", "confirm"}

(* No command falls through: an explicit --proxy, even an empty one, is the
   only one considered, then the environment, then the file; a winner that does
   not parse stops the command instead of handing over to the next; and a broken
   file stops it whoever would win (ParseWithEnv, cli.go:630-660). *)
NoSilentFallback == NoDialogue =>
    \A cl \in CommandLines : Goes(cl) =>
        /\ file.state # "torn"
        /\ \A raw \in file.allow \union cl.allow : Permitted(raw)
        /\ cl.flag # NotGiven => ResolvedProxy(cl) = cl.flag
        /\ cl.flag = NotGiven /\ cl.env # Blank => ResolvedProxy(cl) = cl.env
        /\ ResolvedProxy(cl) \in {cl.flag, cl.env, file.proxy}
        /\ ResolvedProxy(cl).scheme = "socks5h"

(* No jail is allowed to dial its own proxy directly: whatever mix of flag,
   environment and file the proxy and the allow list come from, no entry of the
   final list covers the host's loopback at the port of a proxy on it
   (refuseHostLoopbackProxyPort, allowdirect.go:213-234). *)
NoDialToOwnProxy == NoDialogue =>
    \A cl \in CommandLines :
        Goes(cl) /\ ResolvedProxy(cl).host = Loopback =>
            \A raw \in ResolvedAllow(cl) :
                AddressesOf(raw.host) \subseteq HostLoopback
                    => raw.port # ResolvedProxy(cl).port

(* The allow list is exact.  Giving a bare command that runs one --allow more
   stops it unless the value may be allowed and is not its own proxy, for every
   address, prefix and port: also a prefix with host bits, one that straddles a
   range's edge, the widest and the narrowest.  The entry the command goes on
   with stands for the addresses that were written and the class they are in.  Every
   file is a first one, so the states before any setup begins are enough
   (parseAllowDirect and its endpoint checks, allowdirect.go:141-350). *)
AllowExact ==
    (\A s \in Setups : pc[s] = "start") /\ Goes(BareCommand) =>
        \A raw \in RawAllows :
            LET cl == [BareCommand EXCEPT !.allow = {raw}]
                onLoopback == AddressesOf(raw.host) \subseteq HostLoopback
            IN  /\ Goes(cl) <=>
                     /\ Permitted(raw)
                     /\ ~(/\ onLoopback /\ raw.port = file.proxy.port
                          /\ file.proxy.host = Loopback)
                /\ Goes(cl) =>
                     /\ AddressesOf(Entry(raw).network) = AddressesOf(raw.host)
                     /\ Entry(raw).hostLoopback <=> onLoopback

(* "From now on a bare `netcage run` uses this proxy" (setupdefault.go:163-168):
   once a setup reported its proxy saved, and nobody touched the file, a bare
   command resolves it. *)
SavedDefaultServes ==
    \A s \in Setups : pc[s] = "saved" /\ author = s /\ file.state = "ok" =>
        Goes(BareCommand) /\ ResolvedProxy(BareCommand) = chosen[s]
=============================================================================
