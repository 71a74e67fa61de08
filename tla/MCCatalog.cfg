CONSTANTS
    Documents = {"d1", "d2"}
    PlansOf <- MCPlansOf
    DefaultRollout <- MCDefaultRollout
    Offered = {"d1", "d2"}
    Compatible <- MCCompatible
    Accounts = {a1}
    Renewable = {a1}
    Guests = {g1}
    Manifests <- MCManifests
    Callers = {"pricing", "admin"}
    Ops <- MCOps
    MaxActivations = 2
    MaxEdits = 2
    Formulas <- MCFormulas
    TierLists <- MCTierLists
    MaxHalves = 9
    Books <- MCBooks
    Usages <- MCUsages
    MoneyScale = 10
    NoPlan = NoPlan
    None = None
SPECIFICATION FairSpec
INVARIANTS PricedByOwnRevision   
PROPERTIES CacheConverges RolloutsKeepChoices
CHECK_DEADLOCK FALSE
