SPECIFICATION SystemSpec
CONSTANTS
    Components = {"auth", "email", "onboarding", "fees", "claim", "registry", "sync", "listing", "client", "placement", "ledger", "profiles", "stripe", "patient", "sink", "instrument", "limit", "login"}

    \* OperatorAuth and ReplayWindow
    n1 = n1
    n2 = n2
    n3 = n3
    Handlers = {h1, h2}
    Indices = {0, 1, 2}
    MinActiveKeys = 2
    Threshold = 2
    WindowBits = 3
    SeqLimit = 8
    Nonces = {n1, n2, n3}
    Transmissions <- MCTransmissions
    MaxRotations = 1

    \* EmailVerification and Onboarding
    Sessions = {s1, s2}
    VerificationMaxAttempts = 1
    MaxCodes = 2
    Keysets = {k1, k2}
    NoKeys = none
    Runs = {r1}
    Submitters = {p1}
    Parts = {{"A", "B"}}
    MaxDeaths = 1

    \* Fees
    Publishers = {p1, p2}
    FeeSeqLimit = 4
    Instants = {0, 2}
    Grain = 2

    \* NodeClaim
    Devices = {d1, d2}
    Tokens = {t1, t2}
    Clicks = {k1}
    NoNode = NoNode
    ClaimMayFail = {"spire", "delete", "mark", "timeout", "save", "expire"}
    MaxClaimFaults = 1
    MaxNodes = 2

    \* NodeRegistry
    a1 = a1
    a2 = a2
    a3 = a3
    m1 = m1
    m2 = m2
    None = None
    Agents = {a1, a2, a3}
    Members = {m1, m2}
    Provider <- MCProvider
    SecretSent = {a1, a2}
    MaxOutages = 1
    MaxRestarts = 1
    MaxErrors = 1
    MaxChanges = 1

    \* OptOutSync
    Categories = {compute}
    Printers = {p1, p2}
    MaxPosts = 2
    MaxPlugs = 2
    MaxSyncFaults = 1

    \* NodeListing
    Keys = {k1, k2}
    NoKey = NoKey
    NoEntry = NoEntry
    Classes = {"server", "unknown"}
    ListingHandlers = {h1, h2}
    MaxSeq = 4
    ListingSeqLimit = 4
    MaxListingFaults = 1

    \* Placement
    x1 = x1
    x2 = x2
    x3 = x3
    Nodes = {x1, x2}
    Profile <- MCProfile
    PlacementRequests <- MCPlacementRequests
    Utils = {75}
    PlacementTier = 1
    NoSample = NoSample
    OptOutStates <- MCOptOutStates
    MaxInFlight = 1

    \* Ledger
    Jobs = {j1, j2}
    Prints = {j2}
    Seeded = {j1, j2}
    Amount <- MCAmount
    Charged = {j2}
    Cost <- MCCost
    Share = 65
    Staff = {s1}
    Percentages = {0, 33}
    NoJob = NoJob
    LedgerMayFail = {"metering", "stripe", "answer", "mark", "crash", "resolve"}
    MaxLedgerFaults = 1
    MaxDisputes = 2

    \* ResourceProfiles
    Rows = {y1, y2, y3}
    ProfileRequests = {r1, r2}
    FailAt = {"plain", "clear"}
    MaxProfileFaults = 1

    \* StripeOnboarding
    Tabs = {t1, t2}
    NoAccount = NoAccount
    MaxAccounts = 2
    MaxStripeChanges = 1
    MaxDeliveries = 1
    MaxStripeFaults = 1

    \* SoundingSink
    Callers = {c1, c2}
    BufferSize = 2
    BatchSize = 2
    MaxEvents = 3

    \* Instrument and Ladder
    InstrumentRequests <- MCShapes

    \* RateLimit
    Addresses = {e1, e2}
    Requests = {r1, r2}
    Burst = 1
    Unit = 2

    \* LoginLimiter
    LoginRequests = {r1}
    maxAttempts = 5
    MaxWindows = 6

INVARIANTS
    SystemTypeOK
    AcceptedOnce
    WindowExact
    CodeHonoured
    NamedRowsExist
    FlagsOfVersion
    AppliedOnce
    EnrolledKeyHeld
    SpreadsAmongEquals
    
    SupplyMirrorsMatch
    PaidOnce
    PayoutsEarned
    
    
    
    CompleteEarned
    Conserved
    WrittenInOrder
    ToweringAgrees
PROPERTIES
    ActivationEarned
    
    
    
    
    OnlyFailuresCharge
    
    DuePaid
