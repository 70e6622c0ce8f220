SPECIFICATION Spec
CONSTANTS
    Mode = "Required"
    Service = "app"
    Audience = {"aud", "aud2"}
    Ingress <- IngressContexts
    Expiry = {0, 1, 2, 4}
    MaxCalls = 3
    MaxTime = 3
CHECK_DEADLOCK FALSE
INVARIANTS
    Stripped
    AskedOnce
    InstalledBound
PROPERTIES
    InstalledLive
