SPECIFICATION DiscoverySpec
CONSTANTS
    Threads = {"first", "second"}
    Packages <- MCPackages
    Modules <- MCModules
    Registers <- MCRegisters
    Calls <- MCCalls
    MaxFailures = 3
INVARIANTS
    DiscoveryTypeOK
    OneEnsemble
PROPERTIES
    CallsEnd
CHECK_DEADLOCK FALSE
