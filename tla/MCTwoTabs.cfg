SPECIFICATION Spec
CONSTANTS
    ann = ann
    bob = bob
    acme = acme
    apex = apex
    zeta = zeta
    None = None
    Tabs = {tab1, tab2}
    Users = {ann, bob}
    Clients = {acme, apex, zeta}
    Tenant <- MCTenant
    MaxCalls = 1
INVARIANT CacheHoldsTrackedClient
