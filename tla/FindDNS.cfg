\* start.go: the tool is never started until the DNS forwarder is up.
SPECIFICATION Spec
CONSTANTS
    Runs = {r1}
    Procs = {p1}
    Configs = {c1}
    Loopback = {}
    Split = {}
    NFix = 1
    MaxActive = 1
    Verbs = {"run"}
    Faults = {"bind"}
PROPERTY DNSBeforeTool
\* Every process runs one command and ends; then nothing has to happen.
CHECK_DEADLOCK FALSE
