\* Building: two networks under five sets of limits; at most two calls fail.
\* Comparing: nine maps, six budgets, six replies, three timetables.
SPECIFICATION PlannersSpec
CONSTANTS
    Catalog <- MCCatalog
    OriginAt = 0
    DestinationAt = 60
    AirportRadius = 5
    HubRadius = 30
    RailRadius = 3
    Worlds <- MCWorlds
    Settings <- MCSettings
    MaxFailures = 2
    Maps <- MCMaps
    Budgets <- MCBudgets
    Replies <- MCReplies
    Timetables <- MCTimetables
    Origin = 1
    Destination = 2
    Adults = 1
    MaxExplorationLegs = 6
    Boarding <- MCBoarding
    Exit <- MCExit
    Reserve = 1
    MaxConnection = 6
    MaxJourney = 14
    From = 0
    Until = 6
INVARIANTS SchemesHold CutIsTold PlannersAgree JourneysAreThose
CHECK_DEADLOCK FALSE
