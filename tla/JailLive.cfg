\* Two commands at the same time under FairSpec.
SPECIFICATION FairSpec
CONSTANTS
    Runs = {r1}
    Procs = {p1, p2}
    Configs = {c1}
    Loopback = {}
    Split = {}
    NFix = 1
    MaxActive = 2
    Verbs = {"run", "start", "stop", "rm"}
    Faults = {"cancel", "unlink"}
PROPERTY InterruptEnds
PROPERTY ExitRemovesPair
PROPERTY FirewallHeals
\* Every process runs one command and ends; then nothing has to happen.
CHECK_DEADLOCK FALSE
