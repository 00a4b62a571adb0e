SPECIFICATION Spec
CONSTANTS
    None = None
    Unreadable = Unreadable
    a1 = a1
    a2 = a2
    url = url
    token = token
    payee = payee
    Accounts <- MCAccounts
    Endpoints = {url}
    Contracts = {token}
    PublicKeys = {payee}
    MaxI128 = 1000
    MaxU32 = 100000
    MaxBps = 10000
    Drafts <- MCDrafts
    Empty <- MCEmpty
    TokenPlaces <- MCPlaces
    RetryLimit = 1
    InitialVaults <- MCVaults
    MaxSlas = 1
    MaxTxs = 2
CHECK_DEADLOCK FALSE
INVARIANTS
    DashboardTypeOK
    ReviewIsTyped
    ListIsOwn
    ConfirmedIsReflected
    CancelHashShown
PROPERTIES
    CardsNeverRevive
    RetryEnds
