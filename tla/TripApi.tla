-------------------------------- MODULE TripApi --------------------------------
(***************************************************************************)
(* CreateTrip and ListTrips of Cabinet for a signed-in owner. The browser  *)
(* repeats a creation with the same request id until it has an answer; the *)
(* transaction serializes repetitions with an advisory lock. Lists are     *)
(* read page by page while trips are created and end.                      *)
(*                                                                         *)
(* A call of CreateTrip names its transaction and the trip it inserts.     *)
(***************************************************************************)
EXTENDS Naturals, Sequences, FiniteSets

CONSTANTS
    Forms,      \* what is sent: sequences of [key, content], the request id of one owner and
                \* content = [origin, destination, from, to, adults]
    Cities,     \* the cities of the catalog
    Today,      \* the first day; there is a next one
    PageSize    \* trips on a page, 20 in the code

VARIABLES
    form,       \* the calls of CreateTrip and what each asks for
    call,       \* per call: [step, known, answer, trip]
    trips,      \* the rows of trip_requests by id: [key, content, active]
    begun,      \* the transactions in the order of their created_at
    active,     \* the active cities of the catalog
    day,        \* today, at the origin
    walk        \* a reader of the list: [all, offset, first, seen, more]

vars == <<form, call, trips, begun, active, day, walk>>

Calls == DOMAIN form
NoTrip == 0
NotSent == [step |-> "unsent", known |-> {}, answer |-> "none", trip |-> NoTrip]

Init ==
    /\ form \in Forms
    /\ call = [c \in Calls |-> NotSent]
    /\ trips = << >> /\ begun = << >>
    /\ active = Cities /\ day = Today
    /\ walk \in [all : BOOLEAN, offset : {0}, first : {{}}, seen : {{}}, more : {TRUE}]

------------------------------------------------------------------------------
(* CreateTrip *)
Valid(x) ==
    /\ x.origin # x.destination
    /\ x.adults \in 1..9
    /\ x.from <= x.to

Step(c, s) == call[c].step = s
Goes(c, s) == call' = [call EXCEPT ![c].step = s]
Answers(c, a) == call' = [call EXCEPT ![c].step = "answered", ![c].answer = a]
Confirms(c, t) == call' = [call EXCEPT ![c].step = "answered", ![c].answer = "saved", ![c].trip = t]

\* created_at is the time at which the transaction begins.
Send(c) ==
    /\ Step(c, "unsent") /\ \A b \in 1..(c - 1) : ~Step(b, "unsent")
    /\ call' = [call EXCEPT ![c].step = IF Valid(form[c].content) THEN "begun" ELSE "answered",
                           ![c].answer = IF Valid(form[c].content) THEN "none" ELSE "invalid",
                           ![c].known = DOMAIN trips]
    /\ begun' = IF Valid(form[c].content) THEN Append(begun, c) ELSE begun
    /\ UNCHANGED <<form, trips, active, day, walk>>

InTransaction == {"locked", "new", "inserting"}
Lock(c) ==
    /\ Step(c, "begun")
    /\ \A b \in Calls : call[b].step \in InTransaction => form[b].key # form[c].key
    /\ Goes(c, "locked")
    /\ UNCHANGED <<form, trips, begun, active, day, walk>>

Earlier(c) == {t \in DOMAIN trips : trips[t].key = form[c].key}

\* Mutant of SameTrip: the number of adults is not compared.
SameWay(x, y) == [x EXCEPT !.adults = 1] = [y EXCEPT !.adults = 1]

SameTrip(x, y) == x = y

\* A trip with this request id is found before anything else is looked at.
Look(c) ==
    /\ Step(c, "locked")
    /\ IF Earlier(c) = {} THEN Goes(c, "new")
       ELSE \E t \in Earlier(c) :
              IF SameTrip(trips[t].content, form[c].content) THEN Confirms(c, t) ELSE Answers(c, "conflict")
    /\ UNCHANGED <<form, trips, begun, active, day, walk>>

ReadCities(c) ==
    LET x == form[c].content IN
    /\ Step(c, "new")
    /\ CASE ~({x.origin, x.destination} \subseteq active) -> Answers(c, "city gone")
         [] {x.origin, x.destination} \subseteq active /\ x.from < day -> Answers(c, "past")
         [] OTHER -> Goes(c, "inserting")
    /\ UNCHANGED <<form, trips, begun, active, day, walk>>

\* The trip and its event; a commit may have been done although its answer is an error.
Insert(c) ==
    /\ Step(c, "inserting")
    /\ trips' = [t \in DOMAIN trips \cup {c} |->
                   IF t = c THEN [key |-> form[c].key, content |-> form[c].content, active |-> TRUE] ELSE trips[t]]
    /\ Confirms(c, c) \/ Answers(c, "unavailable")
    /\ UNCHANGED <<form, begun, active, day, walk>>

Fail(c) ==
    /\ call[c].step \in InTransaction \cup {"begun"}
    /\ Answers(c, "unavailable")
    /\ UNCHANGED <<form, trips, begun, active, day, walk>>

------------------------------------------------------------------------------
(* What goes on meanwhile *)
TripEnds(t) ==
    /\ trips[t].active
    /\ trips' = [trips EXCEPT ![t].active = FALSE]
    /\ UNCHANGED <<form, call, begun, active, day, walk>>

CityGoes(city) ==
    /\ active' = active \ {city} /\ active' # active
    /\ UNCHANGED <<form, call, trips, begun, day, walk>>

DayPasses ==
    /\ day = Today /\ day' = Today + 1
    /\ UNCHANGED <<form, call, trips, begun, active, walk>>

------------------------------------------------------------------------------
(* ListTrips *)
Listed(all) == {t \in DOMAIN trips : all \/ trips[t].active}

\* The newest first: what stands in front of a trip in the list.
Newer(s, t) == \E i, j \in DOMAIN begun : begun[i] = s /\ begun[j] = t /\ i > j
Ahead(t) == Cardinality({s \in Listed(walk.all) : Newer(s, t)})

\* One row beyond the page tells whether there are more.
Rows == {t \in Listed(walk.all) : Ahead(t) \in walk.offset..(walk.offset + PageSize)}

\* Mutant of More: a page that was cut is taken for the last one.
MoreThanRead == Cardinality(Rows) > PageSize + 1

More == Cardinality(Rows) > PageSize

Page == {t \in Rows : Ahead(t) < walk.offset + PageSize}

ListTrips ==
    /\ walk.more
    /\ walk' = [walk EXCEPT !.offset = @ + PageSize, !.seen = @ \cup Page, !.more = More,
                            !.first = IF walk.offset = 0 THEN Listed(walk.all) ELSE @]
    /\ UNCHANGED <<form, call, trips, begun, active, day>>

CreateTrip(c) == Lock(c) \/ Look(c) \/ ReadCities(c) \/ Insert(c) \/ Fail(c)

Next ==
    \/ \E c \in Calls : Send(c) \/ CreateTrip(c)
    \/ \E t \in DOMAIN trips : TripEnds(t)
    \/ \E city \in Cities : CityGoes(city)
    \/ DayPasses \/ ListTrips

Spec == Init /\ [][Next]_vars

------------------------------------------------------------------------------
(***************************************************************************)
(* "A repetition with the same key and parameters returns the same id;     *)
(* other parameters with the same key are refused" (trip-request.md:54):   *)
(* there is one trip per key, every answer with an id names the trip that  *)
(* was asked for, and a repetition of a trip that was saved is never told  *)
(* that the trip cannot be made, even when its city is gone or its day     *)
(* over, or its first answer was an error.                                 *)
(***************************************************************************)
RetriesAgree ==
    /\ \A s, t \in DOMAIN trips : trips[s].key = trips[t].key => s = t
    /\ \A c \in Calls : call[c].step = "answered" =>
         /\ call[c].answer = "saved" =>
              trips[call[c].trip].key = form[c].key /\ trips[call[c].trip].content = form[c].content
         /\ \A t \in call[c].known :
              trips[t].key = form[c].key /\ trips[t].content = form[c].content
                => call[c].answer \in {"saved", "unavailable"}

(***************************************************************************)
(* Whoever turns the pages of the list of all trips to the last one sees   *)
(* every trip that was there at the first page, whatever is created, or    *)
(* commits late behind trips already read, meanwhile. The list of active   *)
(* trips does not promise that: rows leave it between two pages.           *)
(***************************************************************************)
PagesSkipNothing == walk.all /\ ~walk.more => walk.first \subseteq walk.seen

==============================================================================
