SPECIFICATION GatewaySpec
CONSTANTS
    b1 = b1
    b2 = b2
    none = none
    Browsers = {b1, b2}
    Media = {b1, b2}
    Permits = 3
    Stall = 2
    Window = 3
    Nobody = none
INVARIANTS HolderAgrees
PROPERTIES FullIntervalOfPings SilentYields
CHECK_DEADLOCK FALSE
