CONSTANTS
    None = None
    Forged = Forged
    Scenarios = {"commit", "apply", "approve", "run", "billing", "login", "proxy"}
SPECIFICATION Spec
PROPERTIES
    LocksAreReturned
    RecoverySettles
    StopIsObeyed
    ServiceSettles
    ProxyLetsGo
