SPECIFICATION FSpec
CONSTANTS
    NUM_PORTS = 2
    Partners = {"none", "off", "rs544", "port"}
    StationPorts = {0}
    APP_FEC_MODE = "off"
    DesignFec = "rs528"
    LINK_RETRY = 5
    FEC_FALLBACK = 6
    BOOT = 0
    ALIGN = 2
    CLOCK = 12
    MaxStep = 2
    MaxEvents = 2
    MaxWatch = 23
    Leases = {"lease a"}
    static_address <- MCStatic
    DefaultMode = "auto"
    DHCP_TIMEOUT = 1
    ADDR_POLL = 1
    AUTOSTART = 2
    LB_CLOCK = 4
    MaxCommands = 2
    MaxFlaps = 1
    MaxLosses = 1
INVARIANTS FecAsChosen LinkInTime TestAddressed
PROPERTIES EachModeGetsItsTime StartsWhenCalm
