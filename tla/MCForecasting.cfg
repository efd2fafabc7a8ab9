SPECIFICATION MCSpec
CONSTANTS
    None = None
    NoCandidate = NoCandidate
    r1 = r1
    s1 = s1
    s2 = s2
    Runs = {r1}
    Skus = {s1, s2}
    Eligible = {s1, s2}
    Threshold <- MCThreshold
    ProphetLimit = 2
    MaxSeriesDays = 5
    MaxHorizon = 2
    Week = 2
    WeeklyStrength <- MCWeeklyStrength
    ZeroShare <- MCZeroShare
    MinNonzero = 2
    MinActive = 2
    TrendMinDaily <- MCTrendMinDaily
    Tolerance <- MCTolerance
    AlphaGrid <- MCAlphaGrid
    HoltGrid <- MCHoltGrid
    Damping <- MCHalf
    CrostonAlpha <- MCHalf
    LegacyAlpha <- MCHalf
    HoldoutSteps <- MCHoldoutSteps
    Spread <- MCSpread
    ToSigma <- MCToSigma
    ToBand <- MCToBand
    LeastError <- MCLeastError
    EvalHoldout = 2
    EvalMinTrain = 3
    HighVelocity <- MCTrendMinDaily
    MinEvaluable = 2
    MapeRatioMax <- MCMapeRatioMax
    BiasMax <- MCBiasMax
    CoverageMin <- MCCoverageMin
    ZHalf <- MCZHalf
    Held = 1
    MinHistory = 4
    Folds = 3
    LeastTrain = 1
    ManyZeros <- MCWeeklyStrength
    SlowDaily <- MCSlowDaily
    FastDaily <- MCFastDaily
    Externals <- MCExternals
    Portfolios <- MCPortfolios
INVARIANTS
    NodeTypeOK
    RunIsHonest
PROPERTIES
    FlatWithinSales
    SummaryIsOfAllDays
    BacktestIsOfAllDays
