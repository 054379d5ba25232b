----------------------------- MODULE JailPromise -----------------------------
(***************************************************************************)
(* What netcage promises about the pair of containers of a run, whoever    *)
(* acts on it and however the steps of its commands interleave:            *)
(*                                                                         *)
(*   - the pair is built once, by the run, and enforces the configuration  *)
(*     of that run for as long as it exists; once removed it stays removed;*)
(*   - a command brings the tool up only with a permit, which it gets by   *)
(*     reading the firewall of the pair's netns, and only if the pair      *)
(*     enforces the configuration the command was given;                   *)
(*   - the permit is void when that netns is gone, and as long as it is    *)
(*     valid the netns behind it does not lose its seal;                   *)
(*   - nothing is removed unless a command was asked to remove it.         *)
(*                                                                         *)
(* No script, no probe, no file, no signal and no podman: JailLifecycle    *)
(* shows that the commands, step by step, implement it.                    *)
(***************************************************************************)
CONSTANTS
    Runs, Procs,
    NoConfig,   \* what an unbuilt pair enforces
    Nobody,     \* the owner of a tool that never ran
    User        \* the owner of a tool started without netcage

VARIABLES
    pair,       \* per run: "none", "there" or "gone"
    enforces,   \* per run: the configuration of the pair
    sealed,     \* per run: the firewall of its netns is complete
    tool,       \* per run: "none", "down", "up" or "gone"
    owner,      \* per run: who brought the tool up last
    wants,      \* per command: the run it is for and the configuration it wants
    permit,     \* per command: "none", "valid" or "void"
    asked       \* per run: some command on it is to remove the pair

vars == <<pair, enforces, sealed, tool, owner, wants, permit, asked>>

Init ==
    /\ pair = [r \in Runs |-> "none"]
    /\ enforces = [r \in Runs |-> NoConfig]
    /\ sealed = [r \in Runs |-> FALSE]
    /\ tool = [r \in Runs |-> "none"]
    /\ owner = [r \in Runs |-> Nobody]
    /\ permit = [p \in Procs |-> "none"]
    /\ asked = [r \in Runs |-> FALSE]

-----------------------------------------------------------------------------
Build(r, p) ==
    /\ pair[r] = "none" /\ pair'[r] = "there"
    /\ wants[p].run = r /\ enforces'[r] = wants[p].cfg

Remove(r) ==
    /\ pair[r] = "there" /\ pair'[r] = "gone"
    /\ asked[r]
    /\ enforces'[r] = enforces[r]

PairLife(r) ==
    \/ UNCHANGED <<pair[r], enforces[r]>>
    \/ \E p \in Procs : Build(r, p)
    \/ Remove(r)

\* A command brings the tool up.
Enter(r, p) ==
    /\ tool[r] \in {"none", "down"} /\ tool'[r] = "up"
    /\ owner'[r] = p
    /\ pair[r] = "there"
    /\ wants[p].run = r /\ wants[p].cfg = enforces[r]
    /\ permit[p] # "none"
    /\ permit'[p] = "valid" => sealed'[r]

\* The user does, without netcage: a tool that came up before.
EnterRaw(r) ==
    /\ tool[r] = "down" /\ tool'[r] = "up"
    /\ owner'[r] = User
    /\ pair[r] = "there"

\* Its container is created and does not start, or its process ends.
Rest(r) ==
    /\ tool[r] \in {"none", "up"} /\ tool'[r] = "down"
    /\ owner'[r] = owner[r]

Discard(r) ==
    /\ tool[r] # "gone" /\ tool'[r] = "gone"
    /\ asked[r]
    /\ owner'[r] = owner[r]

ToolLife(r) ==
    \/ UNCHANGED <<tool[r], owner[r]>>
    \/ \E p \in Procs : Enter(r, p)
    \/ EnterRaw(r) \/ Rest(r) \/ Discard(r)

\* A netns behind a valid permit stays sealed.
PermitLife(p) ==
    \/ /\ permit'[p] = permit[p]
       /\ permit[p] = "valid" /\ sealed[wants[p].run] => sealed'[wants[p].run]
    \/ permit[p] = "valid" /\ permit'[p] = "void"
    \/ /\ permit[p] # "valid" /\ permit'[p] = "valid"
       /\ pair[wants[p].run] = "there"

\* What a command is for is settled before it gets a permit.
Settled(p) == permit[p] # "none" => wants'[p] = wants[p]

Next ==
    /\ \A r \in Runs : PairLife(r) /\ ToolLife(r)
    /\ \A p \in Procs : PermitLife(p) /\ Settled(p)

Spec == Init /\ [][Next]_vars
=============================================================================
