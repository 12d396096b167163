------------------------------- MODULE Catalogs -------------------------------
(***************************************************************************)
(* The imports of reference data: the cities of Cabinet from GeoNames and  *)
(* the airports of Search from OurAirports. Several processes may import   *)
(* the same catalog. Each downloads files that the source may renew in the *)
(* meantime, reads them, and publishes what it has read in one transaction *)
(* under an advisory lock; it may fail or be stopped at any step.          *)
(***************************************************************************)
EXTENDS Integers, Sequences, FiniteSets

CONSTANTS
    Processes,
    Upstreams,      \* what the sources offer: a world is [kind, files], a file its versions
    MinRows, MaxRows,   \* the size of a snapshot that is taken for complete
    MinRetained,    \* the percentage of the previous rows that must remain
    BatchSize,      \* rows per statement, 500 in the code
    MaxClock,       \* bound: ticks between the starts of imports
    MaxImports      \* bound: imports started

Marked(n) == n.preferred \in BOOLEAN /\ n.short \in BOOLEAN /\ n.id \in Nat

\* A source has each of its files in two versions. A name is never empty, and has
\* a positive number and two marks.
ASSUME UpstreamsAssumption ==
    \A u \in Upstreams, v \in 1..2 :
        u.kind = "cities" => \A n \in u.files["names"][v] : Marked(n) /\ n.name # "none"

VARIABLES
    source,     \* the world
    version,    \* the version the source offers
    clock,
    catalog,    \* the rows by source_id: [row, active]
    countries,  \* the countries the cities refer to, with their Russian names
    imported,   \* the import the catalog shows: [files, fetched, count]
    started,    \* the imports started
    job         \* per process

vars == <<source, version, clock, catalog, countries, imported, started, job>>

Cities == source.kind = "cities"
NoImport == [files |-> << >>, fetched |-> 0, count |-> 0]
NoRow == [row |-> "none", active |-> FALSE]
Idle ==
    [step |-> "idle", started |-> 0, files |-> << >>, todo |-> {}, chosen |-> << >>, codes |-> << >>,
     rows |-> << >>, left |-> {}, draft |-> << >>]

Init ==
    /\ source \in Upstreams
    /\ version = 1 /\ clock = 1
    /\ catalog = << >> /\ countries = << >> /\ imported = NoImport
    /\ started = 0
    /\ job = [p \in Processes |-> Idle]

------------------------------------------------------------------------------
(* Downloads *)
\* The rows of f, and those of g that f does not have.
Over(f, g) == [x \in DOMAIN f \cup DOMAIN g |-> IF x \in DOMAIN f THEN f[x] ELSE g[x]]
With(f, x, v) == Over([y \in {x} |-> v], f)

Step(p, s) == job[p].step = s
Goes(p, s) == job' = [job EXCEPT ![p].step = s]
Ends(p) == job' = [job EXCEPT ![p] = Idle]

\* The files of an import, in the order of their downloads.
Files == IF Cities THEN <<"countries", "cities", "regions", "names">> ELSE <<"airports">>
Content(took, f) == source.files[f][took[f]]
ContentOf(p, f) == Content(job[p].files, f)

\* An import is dated by its start, not by its download.
Start(p) ==
    /\ Step(p, "idle") /\ started < MaxImports
    /\ job' = [job EXCEPT ![p].step = "download", ![p].started = clock]
    /\ started' = started + 1
    /\ UNCHANGED <<source, version, clock, catalog, countries, imported>>

Download(p) ==
    /\ Step(p, "download")
    /\ LET n == Cardinality(DOMAIN job[p].files) + 1
       IN  job' = [job EXCEPT ![p].files = With(@, Files[n], version),
                              ![p].step = IF n = Len(Files) THEN "parse" ELSE @]
    /\ UNCHANGED <<source, version, clock, catalog, countries, imported, started>>

\* The source offers a new version; time passes between starts.
Renew ==
    /\ version < 2 /\ version' = version + 1
    /\ UNCHANGED <<source, clock, catalog, countries, imported, started, job>>

Tick ==
    /\ clock < MaxClock /\ clock' = clock + 1
    /\ UNCHANGED <<source, version, catalog, countries, imported, started, job>>

------------------------------------------------------------------------------
(* Reading the files *)
\* A record that does not parse, a repeated identity or a row of an unknown country refuses a file whole.
Sound(p) ==
    IF Cities
    THEN /\ \A c \in ContentOf(p, "cities") : \E k \in ContentOf(p, "countries") : k.code = c.country
         /\ \A c, d \in ContentOf(p, "cities") : c.id = d.id => c = d
         /\ \A f \in {"countries", "regions"} : \A x, y \in ContentOf(p, f) : x.code = y.code => x = y
    ELSE \A a, b \in ContentOf(p, "airports") : a.sound /\ (a.id = b.id => a = b)

RowsOf(p) ==
    IF Cities THEN {c.id : c \in ContentOf(p, "cities")} ELSE {a.id : a \in ContentOf(p, "airports")}

Sized(p) == Cardinality(RowsOf(p)) \in MinRows..MaxRows

\* The airports are ready for publication; the cities first get their names.
Parse(p) ==
    /\ Step(p, "parse")
    /\ IF ~Sound(p) \/ ~Sized(p) THEN Ends(p)
       ELSE IF Cities
            THEN job' = [job EXCEPT ![p].step = "names", ![p].todo = ContentOf(p, "names")]
            ELSE job' = [job EXCEPT ![p].step = "publish",
                                    ![p].rows = [i \in RowsOf(p) |-> CHOOSE a \in ContentOf(p, "airports") : a.id = i]]
    /\ UNCHANGED <<source, version, clock, catalog, countries, imported, started>>

\* Mutant of Better: of two equal marks the later one in the file wins.
BetterLater(n, old) ==
    IF n.preferred # old.preferred THEN n.preferred
    ELSE IF n.short # old.short THEN n.short ELSE TRUE

\* Preferred names before short ones, then the smaller identity (localizedName.better).
Better(n, old) ==
    IF n.preferred # old.preferred THEN n.preferred
    ELSE IF n.short # old.short THEN n.short ELSE n.id < old.id

\* Cities, countries and regions have identities of one kind.
Known(p) == UNION {{x.id : x \in ContentOf(p, f)} : f \in {"countries", "cities", "regions"}}

\* What is neither dated nor historic, and belongs to something of the files; codes are for cities.
Candidate(p, n) ==
    /\ n.current /\ n.lang \in {"ru", "iata"}
    /\ n.of \in IF n.lang = "ru" THEN Known(p) ELSE RowsOf(p)
Get(f, x, default) == IF x \in DOMAIN f THEN f[x] ELSE default

Chosen(chosen, n) ==
    IF n.of \notin DOMAIN chosen \/ Better(n, chosen[n.of]) THEN With(chosen, n.of, n) ELSE chosen

\* The lines of the file come in any order. Two codes of a city make it ambiguous.
ReadName(p) ==
    /\ Step(p, "names")
    /\ \E n \in job[p].todo :
         job' = [job EXCEPT
                   ![p].todo = @ \ {n},
                   ![p].chosen = IF Candidate(p, n) /\ n.lang = "ru" THEN Chosen(@, n) ELSE @,
                   ![p].codes = IF Candidate(p, n) /\ n.lang = "iata"
                                THEN With(@, n.of, Get(@, n.of, {}) \cup {n.name}) ELSE @]
    /\ UNCHANGED <<source, version, clock, catalog, countries, imported, started>>

Code(codes) == IF Cardinality(codes) = 1 THEN CHOOSE c \in codes : TRUE ELSE "none"

RussianName(chosen, i) == IF i \in DOMAIN chosen THEN chosen[i].name ELSE "none"

\* A region without a Russian name is shown by its own; a city may have none.
RegionName(chosen, regions, code) ==
    LET of == {r \in regions : r.code = code} IN
    IF of = {} THEN "none"
    ELSE LET r == CHOOSE r \in of : TRUE
         IN  IF r.id \in DOMAIN chosen THEN chosen[r.id].name ELSE r.name

Localized(p, c) ==
    [id |-> c.id, name |-> RussianName(job[p].chosen, c.id), code |-> Code(Get(job[p].codes, c.id, {})),
     region |-> RegionName(job[p].chosen, ContentOf(p, "regions"), c.region)]

\* Only cities with a Russian name are published, and no import is without them.
Named(p) ==
    /\ Step(p, "names") /\ job[p].todo = {}
    /\ LET named == {c \in ContentOf(p, "cities") : c.id \in DOMAIN job[p].chosen} IN
       IF named = {} THEN Ends(p)
       ELSE job' = [job EXCEPT ![p].step = "publish",
                               ![p].rows = [i \in {c.id : c \in named} |->
                                              Localized(p, CHOOSE c \in named : c.id = i)]]
    /\ UNCHANGED <<source, version, clock, catalog, countries, imported, started>>

------------------------------------------------------------------------------
(* Publication: one transaction under a lock *)
Locked == \E p \in Processes : job[p].step \in {"locked", "write"}

\* The publication of cities does not wait for another one; that of airports does.
Lock(p) ==
    /\ Step(p, "publish")
    /\ IF Locked THEN Cities /\ Ends(p) ELSE Goes(p, "locked")
    /\ UNCHANGED <<source, version, clock, catalog, countries, imported, started>>

\* Mutant of Acceptable: an import of the same age is taken as well.
AcceptableAgain(p) ==
    \/ Cities \/ imported = NoImport
    \/ /\ job[p].started >= imported.fetched
       /\ Cardinality(DOMAIN job[p].rows) * 100 >= imported.count * MinRetained

\* Airports are refused from an older start, or when too many of them are gone.
Acceptable(p) ==
    \/ Cities \/ imported = NoImport
    \/ /\ job[p].started > imported.fetched
       /\ Cardinality(DOMAIN job[p].rows) * 100 >= imported.count * MinRetained

Deactivated == [i \in DOMAIN catalog |-> [row |-> catalog[i].row, active |-> FALSE]]

Compare(p) ==
    /\ Step(p, "locked")
    /\ IF Acceptable(p)
       THEN job' = [job EXCEPT ![p].step = "write", ![p].left = DOMAIN job[p].rows, ![p].draft = Deactivated]
       ELSE Ends(p)
    /\ UNCHANGED <<source, version, clock, catalog, countries, imported, started>>

\* One statement inserts or renews a batch of rows.
Upsert(p) ==
    /\ Step(p, "write") /\ job[p].left # {}
    /\ LET first == {i \in job[p].left : Cardinality({k \in job[p].left : k < i}) < BatchSize}
       IN  job' = [job EXCEPT ![p].left = @ \ first,
                              ![p].draft = Over([i \in first |-> [row |-> job[p].rows[i], active |-> TRUE]], @)]
    /\ UNCHANGED <<source, version, clock, catalog, countries, imported, started>>

\* Countries are renewed and never removed.
CountriesOf(p) ==
    IF Cities THEN [k \in {k.code : k \in ContentOf(p, "countries")} |->
                      RussianName(job[p].chosen, (CHOOSE c \in ContentOf(p, "countries") : c.code = k).id)]
    ELSE << >>

Publish(p) ==
    /\ Step(p, "write") /\ job[p].left = {}
    /\ catalog' = job[p].draft
    /\ countries' = Over(CountriesOf(p), countries)
    /\ imported' = [files |-> job[p].files, fetched |-> job[p].started, count |-> Cardinality(DOMAIN job[p].rows)]
    /\ Ends(p)
    /\ UNCHANGED <<source, version, clock, started>>

\* An error, the deadline or a signal; an open transaction is rolled back.
Stop(p) ==
    /\ ~Step(p, "idle")
    /\ Ends(p)
    /\ UNCHANGED <<source, version, clock, catalog, countries, imported, started>>

Import(p) ==
    \/ Start(p) \/ Download(p) \/ Parse(p) \/ ReadName(p) \/ Named(p)
    \/ Lock(p) \/ Compare(p) \/ Upsert(p) \/ Publish(p) \/ Stop(p)

Next == Renew \/ Tick \/ \E p \in Processes : Import(p)

Spec == Init /\ [][Next]_vars

------------------------------------------------------------------------------
(* What is read of a catalog *)
Active == {i \in DOMAIN catalog : catalog[i].active}

\* The airports the planner works with.
PlannerAirports == {a \in {catalog[i].row : i \in Active} : a.scheduled}

------------------------------------------------------------------------------
(* Properties *)
\* The names of i in a language, and the order of docs/ops/city-catalog.md among
\* them, which is the same whatever the order of the lines.
NamesOf(files, i, lang) == {n \in Content(files, "names") : n.of = i /\ n.current /\ n.lang = lang}
Marks(n) == (IF n.preferred THEN 0 ELSE 2) + (IF n.short THEN 0 ELSE 1)
NoWorse(n, m) == Marks(n) < Marks(m) \/ (Marks(n) = Marks(m) /\ n.id <= m.id)
Best(files, i, name) ==
    \E n \in NamesOf(files, i, "ru") :
        n.name = name /\ \A m \in NamesOf(files, i, "ru") : NoWorse(n, m)

\* A city under its best name, with its code if there is just one, in a region
\* under its best name or, without one, its own.
CityTold(files, c, row) ==
    /\ Best(files, c.id, row.name)
    /\ row.code # "none" <=> Cardinality({n.name : n \in NamesOf(files, c.id, "iata")}) = 1
    /\ \A r \in Content(files, "regions") : r.code = c.region =>
         IF NamesOf(files, r.id, "ru") = {} THEN row.region = r.name ELSE Best(files, r.id, row.region)

\* What users are shown is one import, whole: of the files it downloaded, every
\* city that has a current Russian name, told as above and in a country that is known.
CitiesAreOneImport ==
    Cities /\ imported # NoImport =>
        /\ Active = {c.id : c \in {c \in Content(imported.files, "cities") : NamesOf(imported.files, c.id, "ru") # {}}}
        /\ \A c \in Content(imported.files, "cities") : c.id \in Active =>
             c.country \in DOMAIN countries /\ CityTold(imported.files, c, catalog[c.id].row)

\* The planner sees one download of the airports, whole, with the count that the
\* next import is compared with.
AirportsAreOneImport ==
    ~Cities /\ imported # NoImport =>
        /\ PlannerAirports = {a \in Content(imported.files, "airports") : a.scheduled}
        /\ imported.count = Cardinality(Active)

\* Whatever imports overlap, fail or stop at any step, what is shown of a catalog
\* is one import, whole.
ShownIsOneImport == CitiesAreOneImport /\ AirportsAreOneImport

\* Of imports that run at once, one that started no later than the one shown
\* never replaces it, and no import loses more rows than the threshold allows.
NeverOlder ==
    [][~Cities /\ imported' # imported /\ imported # NoImport =>
         /\ imported'.fetched > imported.fetched
         /\ Cardinality({i \in DOMAIN catalog' : catalog'[i].active}) * 100 >= Cardinality(Active) * MinRetained]_vars
==============================================================================
