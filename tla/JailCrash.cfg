\* Three commands one after the other; netcage is killed, the host reboots, the temp directory is swept.
SPECIFICATION Spec
CONSTANTS
    Runs = {r1}
    Procs = {p1, p2, p3}
    Configs = {c1}
    Loopback = {c1}
    Split = {c1}
    NFix = 1
    MaxActive = 1
    Verbs = {"run", "start", "rm"}
    Faults = {"rule", "bind", "crash", "sweep", "reboot"}
SYMMETRY ProcSymmetry
INVARIANT CrashResidue
PROPERTY MachineIdStable
\* Every process runs one command and ends; then nothing has to happen.
CHECK_DEADLOCK FALSE
