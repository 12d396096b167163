\* The instance of OwnerApi.cfg, with one request under way at once: what an address may
\* try within one window.
SPECIFICATION ApiSpec
CONSTANTS
    Browsers <- MCBrowsers
    AddressOf <- MCAddressOf
    Scripts <- MCScripts
    SessionTTL = 1
    MaxOpen = 1
    LoginWindow = 2
    LoginAttempts = 2
    MaxTrackedAddresses = 1
    HashConcurrency = 2
    Forms <- MCForms
    Cities = {"a", "b"}
    Today = 1
    PageSize = 1
    Plans <- MCPlans
    Replies <- MCReplies
    MaxCandidates = 3
    MaxParts = 2
    MaxAttempts = 2
    ExportPage = 2
    MaxExportPages = 2
    Readers = {"owner", "other"}
    Owner = "owner"
INVARIANTS AttemptsPerWindow
CHECK_DEADLOCK FALSE
