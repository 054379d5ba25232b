\* Two commands on one pair at the same time; podman calls and rules fail, the sidecar stops, the user starts the tool.
SPECIFICATION Spec
CONSTANTS
    Runs = {r1}
    Procs = {p1, p2}
    Configs = {c1, c2}
    Loopback = {c1}
    Split = {c2}
    NFix = 1
    MaxActive = 2
    Verbs = {"run", "start", "stop", "rm"}
    Faults = {"fail", "rule", "die", "raw"}
SYMMETRY ProcSymmetry
INVARIANT VerifiedJail
INVARIANT JailedTool
INVARIANT ConfigHonoured
INVARIANT KeptPairKept
INVARIANT EphemeralGone
INVARIANT ResidueExplained
PROPERTY PairPromise
\* Every process runs one command and ends; then nothing has to happen.
CHECK_DEADLOCK FALSE
