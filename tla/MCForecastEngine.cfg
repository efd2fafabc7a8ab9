SPECIFICATION FairSpec
CONSTANTS
    None = None
    shop = shop
    other = other
    r1 = r1
    p1 = p1
    p2 = p2
    Merchants = {shop, other}
    Cohort = {shop, other}
    Start <- MCStart
    Override = None
    ShadowMin = 1
    Runs = {r1}
    Posts = {p1, p2}
    MerchantOf <- MCMerchantOf
    Asks <- MCAsks
    MaxDay = 1
    MaxFailures = 1
CHECK_DEADLOCK FALSE
INVARIANTS
    TypeOK
    ChoiceStands
PROPERTY
    EligibleArePromoted
