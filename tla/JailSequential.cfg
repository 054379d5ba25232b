\* Three commands one after the other: what each leaves behind for the next one.
SPECIFICATION Spec
CONSTANTS
    Runs = {r1}
    Procs = {p1, p2, p3}
    Configs = {c1, c2}
    Loopback = {c1}
    Split = {c2}
    NFix = 2
    MaxActive = 1
    Verbs = {"run", "start", "stop", "rm", "exec"}
    Faults = {"cancel", "rule"}
SYMMETRY ProcSymmetry
INVARIANT EphemeralNoResidue
INVARIANT FilesHavePair
INVARIANT KeptPairRestartable
PROPERTY ExecInsideJail
\* Every process runs one command and ends; then nothing has to happen.
CHECK_DEADLOCK FALSE
