\* Search: every timetable of up to three departures per leg; all limits within reach.
\* Report: seven saved graphs, two timetables and six sets of limits; at most two calls are not answered in full.
SPECIFICATION CheckSpec
CONSTANTS
    Steps <- MCSteps
    Transfers <- MCTransfers
    Before <- MCBefore
    After <- MCAfter
    Buffer = 1
    MaxConnection = 5
    MaxJourney = 13
    MaxCombinations = 13
    MaxJourneys = 2
    MaxJourneysPerDay = 1
    From = 0
    End = 16
    DayLength = 8
    Timetables <- MCTimetables
    Inputs <- MCInputs
    Worlds <- MCWorlds
    Settings <- MCSettings
    Supported <- MCSupported
    JourneyDays = 1
    MaxCandidates = 4
    MaxAccess = 2
    MaxLegs = 2
    MaxBad = 2
INVARIANTS FoundIsThose NarrowingIsSafe MatchersAgree RowsAreTrue CompleteIsAll
CHECK_DEADLOCK FALSE
