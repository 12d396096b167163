\* Limits of the search out of reach; only the deadline cuts it.
SPECIFICATION CheckSpec
CONSTANTS
    Steps <- MCSteps
    Transfers <- MCTransfers
    Before <- MCBefore
    After <- MCAfter
    Buffer = 1
    MaxConnection = 5
    MaxJourney = 13
    MaxCombinations = 100
    MaxJourneys = 10
    MaxJourneysPerDay = 0
    From = 0
    End = 16
    DayLength = 8
    Timetables <- MCTimetables
    Inputs <- MCInputs
    Worlds <- MCWorlds
    Settings <- MCSettings
    Supported <- MCSupported
    JourneyDays = 1
    MaxCandidates = 4
    MaxAccess = 2
    MaxLegs = 2
    MaxBad = 2
INVARIANTS AbsenceIsChecked
CHECK_DEADLOCK FALSE
