SPECIFICATION RouterSpec
CONSTANTS
    Profiles = {1, 2, 3}
    NoProfile = NoProfile
    profile <- McProfile
    GatewayRequests <- McGatewayRequests
    MaxGatewayCalls = 1
    Providers = {1, 2}
    registration <- McRegistration
    Requests <- McRequests
    Paths = {1, 2}
    NoTimeout = NoTimeout
    max_provider_retries = 1
    max_failovers = 1
    MaxRequests = 2
    MaxPreviews = 1
INVARIANTS
    RoutingTypeOK
    CompletionIsOwnWork
    UnattendedStaysInProfile
    EveryCallHasItsRow
CHECK_DEADLOCK FALSE
