------------------------------- MODULE OwnerApi -------------------------------
(***************************************************************************)
(* What Cabinet offers to the owner of trips, in three parts that share no *)
(* state: accounts and sessions (Sessions), creation and list of trips     *)
(* (TripApi), and the routes of one trip (RouteView). Every call of the    *)
(* last two asks GetCurrentUser first, which changes nothing. A behaviour  *)
(* shows one part and leaves the others alone.                             *)
(***************************************************************************)
EXTENDS Sessions

CONSTANTS
    Forms, Cities, Today, PageSize,
    Plans, Replies, MaxCandidates, MaxParts, MaxAttempts, ExportPage, MaxExportPages, Readers, Owner

ASSUME PagesAreNotEmpty == {PageSize, ExportPage, MaxExportPages} \subseteq Nat \ {0}
ASSUME ResultsAreLists ==
    /\ Plans \subseteq [candidates : Seq(STRING), failures : Nat, error : STRING]
    /\ Replies \subseteq [body : STRING, candidates : Nat, finish : STRING,
                         paths : Seq([steps : Nat, warnings : Nat])]

VARIABLES
    part,
    form, call, trips, begun, active, day, walk,
    building, runs, past, export

Trips == INSTANCE TripApi
Routes == INSTANCE RouteView

tripVars == <<form, call, trips, begun, active, day, walk>>
routeVars == <<building, runs, past, export>>

ApiInit ==
    /\ part \in {"sessions", "trips", "routes"}
    /\ Init /\ Trips!Init /\ Routes!Init
    /\ part # "sessions" => asks = CHOOSE script \in Scripts : TRUE
    /\ part # "trips" => walk.all /\ form = CHOOSE sent \in Forms : TRUE

ApiNext ==
    /\ UNCHANGED part
    /\ \/ part = "sessions" /\ Next /\ UNCHANGED <<tripVars, routeVars>>
       \/ part = "trips" /\ Trips!Next /\ UNCHANGED <<vars, routeVars>>
       \/ part = "routes" /\ Routes!Next /\ UNCHANGED <<vars, tripVars>>

ApiSpec == ApiInit /\ [][ApiNext]_<<part, vars, tripVars, routeVars>>

(***************************************************************************)
(* A repeated creation gets the trip of its key: see TripApi.              *)
(***************************************************************************)
RetriesAgree == Trips!RetriesAgree

(***************************************************************************)
(* The pages of the list of all trips skip none: see TripApi.              *)
(***************************************************************************)
PagesSkipNothing == Trips!PagesSkipNothing

(***************************************************************************)
(* An export shows one moment of the building, whole: see RouteView.       *)
(***************************************************************************)
ExportIsWhole == Routes!ExportIsWhole

==============================================================================
