\* Every verb with up to five arguments, and the leak test of a verify between
\* two addresses.
SPECIFICATION Spec
CONSTANTS
    Arguments <- MCArguments
    MaxArgs = 5
    Unknown = {"-x", "-s", "-f", "--root"}
    BareMounts = {"repo"}
    WorkMounts = {"repo:/work"}
    Managed = {"c", "s"}
    Sidecars = {"s"}
    PortParts <- MCPortParts
    Addresses = {ip1, ip2}
    NoAddress = none
VIEW View
INVARIANTS
    SameCommand
    JailFlagsOwned
    NoFalsePass
    BlameIsEarned
