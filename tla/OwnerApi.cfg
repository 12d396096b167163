\* Sessions: of one tick, three requests under way, windows of two ticks with two attempts, room for one
\* address and two passwords at a time.
\* Trips: pages of one trip. Routes: pages of two variants, two pages of a source.
SPECIFICATION ApiSpec
CONSTANTS
    Browsers <- MCBrowsers
    AddressOf <- MCAddressOf
    Scripts <- MCScripts
    SessionTTL = 1
    MaxOpen = 3
    LoginWindow = 2
    LoginAttempts = 2
    MaxTrackedAddresses = 1
    HashConcurrency = 2
    Forms <- MCForms
    Cities = {"a", "b"}
    Today = 1
    PageSize = 1
    Plans <- MCPlans
    Replies <- MCReplies
    MaxCandidates = 3
    MaxParts = 2
    MaxAttempts = 2
    ExportPage = 2
    MaxExportPages = 2
    Readers = {"owner", "other"}
    Owner = "owner"
INVARIANTS AttemptsBounded SignedOutStaysOut RetriesAgree PagesSkipNothing ExportIsWhole
PROPERTIES NothingHalfDone
CHECK_DEADLOCK FALSE
