SPECIFICATION Spec
CONSTANTS
    Ports = {"p0"}
    Leases = {"lease a", "lease b"}
    static_address <- MCStatic
    DefaultMode = "auto"
    DHCP_TIMEOUT = 3
    ADDR_POLL = 2
    CLOCK = 8
    MaxCommands = 2
    MaxFlaps = 2
    MaxLosses = 1
    MaxWatch = 8
INVARIANTS ModeKept InStep AddressInTime
PROPERTIES DhcpGetsItsTime
