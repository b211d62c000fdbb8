SPECIFICATION Spec
CONSTANTS
    ping = ping
    MaxSessions = 1
    Loops = {ping}
    TeleportCap = 1
CHECK_DEADLOCK FALSE
INVARIANT CanReconnect
