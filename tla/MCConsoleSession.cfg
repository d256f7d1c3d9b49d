SPECIFICATION FairSpec
CONSTANTS
    ann = ann
    bob = bob
    acme = acme
    apex = apex
    zeta = zeta
    None = None
    Tabs = {tab1}
    Users = {ann, bob}
    Clients = {acme, apex, zeta}
    Tenant <- MCTenant
    MaxCalls = 2
INVARIANT TypeOK
INVARIANT RolesAreOfTheToken
INVARIANT CacheHoldsTrackedClient
PROPERTY LetInWithValidClient
