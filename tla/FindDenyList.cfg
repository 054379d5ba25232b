\* The deny list of run, on every line of up to three arguments.
SPECIFICATION Spec
CONSTANTS
    Arguments <- MCArguments
    MaxArgs = 3
    Unknown = {"-x", "-s", "-f", "--root"}
    BareMounts = {"repo"}
    WorkMounts = {"repo:/work"}
    Managed = {"c", "s"}
    Sidecars = {"s"}
    PortParts <- MCPortParts
    Addresses = {ip1, ip2}
    NoAddress = none
VIEW View
INVARIANT DenyListHolds
