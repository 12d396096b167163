---------------------------- MODULE CatalogsProofs ----------------------------
(***************************************************************************)
(* Proofs about the imports of reference data, for any number of           *)
(* processes, any files and any limits.                                    *)
(***************************************************************************)
EXTENDS Catalogs, FiniteSetTheorems, TLAPS

Fields == {"step", "started", "files", "todo", "chosen", "codes", "rows", "left", "draft"}

\* The job of a process is a record of these fields.
Shaped == DOMAIN job = Processes /\ \A p \in Processes : DOMAIN job[p] = Fields

\* The source stays the one it was and offers one of its two versions.
Sourced == source \in Upstreams /\ version \in 1..2

(* What is kept of a process. *)
\* The names are of a version there is, the files are sound before any name is read,
\* and no name is chosen before.
FilesTold(p) ==
    /\ Cities /\ job[p].step \notin {"idle", "download"} => job[p].files["names"] \in 1..2
    /\ job[p].step \notin {"idle", "download", "parse"} => Sound(p)
    /\ job[p].step \in {"idle", "download", "parse"} => job[p].chosen = << >> /\ job[p].codes = << >>

\* What has been read of the names.
Read(p) == ContentOf(p, "names") \ job[p].todo
Russian(p) == {n \in Read(p) : Candidate(p, n) /\ n.lang = "ru"}
Coded(p) == {n \in Read(p) : Candidate(p, n) /\ n.lang = "iata"}

\* Of what has been read, the best name of each thing and all codes of each city are kept.
BestOf(chosen, names) ==
    /\ DOMAIN chosen = {n.of : n \in names}
    /\ \A i \in DOMAIN chosen :
         /\ chosen[i] \in names /\ chosen[i].of = i
         /\ \A m \in names : m.of = i => NoWorse(chosen[i], m)

AllOf(codes, names) ==
    /\ DOMAIN codes = {n.of : n \in names}
    /\ \A i \in DOMAIN codes : codes[i] = {n.name : n \in {m \in names : m.of = i}}

NamesTold(p) ==
    job[p].step = "names" =>
        /\ Cities /\ job[p].todo \subseteq ContentOf(p, "names")
        /\ BestOf(job[p].chosen, Russian(p)) /\ AllOf(job[p].codes, Coded(p))

\* The rows to publish are those of the files, whole.
TellsCities(files, rows) ==
    /\ DOMAIN rows = {c.id : c \in {c \in Content(files, "cities") : NamesOf(files, c.id, "ru") # {}}}
    /\ \A c \in Content(files, "cities") : c.id \in DOMAIN rows => CityTold(files, c, rows[c.id])

TellsAirports(files, rows) ==
    {a \in {rows[i] : i \in DOMAIN rows} : a.scheduled} = {a \in Content(files, "airports") : a.scheduled}

RowsTold(p) ==
    job[p].step \in {"publish", "locked", "write"} =>
        IF Cities THEN TellsCities(job[p].files, job[p].rows) ELSE TellsAirports(job[p].files, job[p].rows)

\* The draft shows the rows that were written, and no other.
DraftTold(p) ==
    job[p].step = "write" =>
        /\ job[p].left \subseteq DOMAIN job[p].rows
        /\ {i \in DOMAIN job[p].draft : job[p].draft[i].active} = DOMAIN job[p].rows \ job[p].left
        /\ \A i \in DOMAIN job[p].rows \ job[p].left : job[p].draft[i].row = job[p].rows[i]

JobTold(p) == FilesTold(p) /\ NamesTold(p) /\ RowsTold(p) /\ DraftTold(p)

(* What is kept between processes. *)
Writing(p) == job[p].step \in {"locked", "write"}

\* One process publishes at a time, so what it compared with is still shown when it commits.
OneWriter == \A p, q \in Processes : Writing(p) /\ Writing(q) => p = q
StillAcceptable == \A p \in Processes : job[p].step = "write" => Acceptable(p)

Inductive ==
    /\ Shaped /\ Sourced
    /\ \A p \in Processes : JobTold(p)
    /\ OneWriter /\ StillAcceptable
    /\ ShownIsOneImport

(***************************************************************************)
(* The order of the names                                                  *)
(***************************************************************************)

LEMMA MarksAreNumbers ==
    ASSUME NEW n, Marked(n)
    PROVE  Marks(n) \in 0..3
BY DEF Marked, Marks

\* What Better prefers is no worse, and so is what it leaves.
LEMMA BetterIsNoWorse ==
    ASSUME NEW n, NEW m, Marked(n), Marked(m)
    PROVE  /\ Better(n, m) => NoWorse(n, m)
           /\ ~Better(n, m) => NoWorse(m, n)
           /\ NoWorse(n, n)
<1>1. CASE n.preferred = m.preferred /\ n.short = m.short
  BY <1>1 DEF Marked, Marks, NoWorse, Better
<1>2. CASE n.preferred = m.preferred /\ n.short # m.short
  BY <1>2 DEF Marked, Marks, NoWorse, Better
<1>3. CASE n.preferred # m.preferred
  BY <1>3 DEF Marked, Marks, NoWorse, Better
<1> QED
  BY <1>1, <1>2, <1>3

LEMMA NoWorseIsTransitive ==
    ASSUME NEW k, NEW n, NEW m, Marked(k), Marked(n), Marked(m), NoWorse(k, n), NoWorse(n, m)
    PROVE  NoWorse(k, m)
<1>1. Marks(k) \in 0..3 /\ Marks(n) \in 0..3 /\ Marks(m) \in 0..3
  BY MarksAreNumbers
<1> QED
  BY <1>1 DEF Marked, NoWorse

LEMMA WithTells ==
    ASSUME NEW f, NEW x, NEW v
    PROVE  /\ DOMAIN With(f, x, v) = DOMAIN f \cup {x}
           /\ With(f, x, v)[x] = v
           /\ \A y \in DOMAIN f : y # x => With(f, x, v)[y] = f[y]
BY DEF With, Over

(***************************************************************************)
(* One process does not disturb what is kept of another.                   *)
(***************************************************************************)
SameFiles(p) == job'[p].files = job[p].files /\ source' = source
Untouched(p) == job'[p] = job[p] /\ source' = source

LEMMA FilesUntouched ==
    ASSUME NEW p, SameFiles(p)
    PROVE  /\ \A f : ContentOf(p, f)' = ContentOf(p, f)
           /\ Cities' = Cities
           /\ Sound(p)' <=> Sound(p)
           /\ RowsOf(p)' = RowsOf(p)
           /\ \A n : Candidate(p, n)' <=> Candidate(p, n)
<1>1. /\ \A f : ContentOf(p, f)' = ContentOf(p, f)
      /\ Cities' = Cities
  BY DEF SameFiles, ContentOf, Content, Cities
<1>2. Sound(p)' <=> Sound(p)
  BY <1>1 DEF Sound
<1>3. RowsOf(p)' = RowsOf(p) /\ Known(p)' = Known(p)
  BY DEF SameFiles, RowsOf, Known, ContentOf, Content, Cities
<1>4. \A n : Candidate(p, n)' <=> Candidate(p, n)
  BY <1>3 DEF Candidate
<1> QED
  BY <1>1, <1>2, <1>3, <1>4

LEMMA TellsUntouched ==
    ASSUME source' = source, NEW files, NEW rows
    PROVE  /\ TellsCities(files, rows)' <=> TellsCities(files, rows)
           /\ TellsAirports(files, rows)' <=> TellsAirports(files, rows)
BY DEF TellsCities, TellsAirports, CityTold, Best, NamesOf, Content

LEMMA JobUntouched ==
    ASSUME NEW p, Untouched(p), JobTold(p)
    PROVE  JobTold(p)'
<1>0. SameFiles(p)
  BY DEF Untouched, SameFiles
<1>1. FilesTold(p)'
  BY <1>0, FilesUntouched DEF JobTold, FilesTold, Untouched
<1>2. Russian(p)' = Russian(p) /\ Coded(p)' = Coded(p)
  BY <1>0, FilesUntouched DEF Russian, Coded, Read, Untouched
<1>3. NamesTold(p)'
  <2>1. /\ BestOf(job[p].chosen, Russian(p)) => BestOf(job[p].chosen, Russian(p))'
        /\ AllOf(job[p].codes, Coded(p)) => AllOf(job[p].codes, Coded(p))'
    BY <1>2, Zenon DEF Untouched
  <2> QED
    BY <2>1, <1>0, FilesUntouched DEF JobTold, NamesTold, Untouched
<1>4. RowsTold(p)'
  BY <1>0, FilesUntouched, TellsUntouched DEF JobTold, RowsTold, Untouched
<1>5. DraftTold(p)'
  BY DEF JobTold, DraftTold, Untouched
<1> QED
  BY <1>1, <1>3, <1>4, <1>5 DEF JobTold

(***************************************************************************)
(* What each step of an import keeps of its own process                    *)
(***************************************************************************)
LEMMA ShapedSteps ==
    ASSUME Shaped, NEW p \in Processes, Import(p)
    PROVE  Shaped' /\ \A q \in Processes : q # p => job'[q] = job[q]
<1>1. DOMAIN Idle = Fields
  BY DEF Idle, Fields
<1>2. CASE Start(p)
  BY <1>2 DEF Shaped, Start, Fields
<1>3. CASE Download(p)
  BY <1>3 DEF Shaped, Download, Fields
<1>4. CASE Parse(p)
  BY <1>1, <1>4 DEF Shaped, Parse, Ends, Fields
<1>5. CASE ReadName(p)
  BY <1>5 DEF Shaped, ReadName, Fields
<1>6. CASE Named(p)
  BY <1>1, <1>6 DEF Shaped, Named, Ends, Fields
<1>7. CASE Lock(p)
  BY <1>1, <1>7 DEF Shaped, Lock, Ends, Goes, Fields
<1>8. CASE Compare(p)
  BY <1>1, <1>8 DEF Shaped, Compare, Ends, Fields
<1>9. CASE Upsert(p)
  BY <1>9 DEF Shaped, Upsert, Fields
<1>10. CASE Publish(p)
  BY <1>1, <1>10 DEF Shaped, Publish, Ends, Fields
<1>11. CASE Stop(p)
  BY <1>1, <1>11 DEF Shaped, Stop, Ends, Fields
<1> QED
  BY <1>2, <1>3, <1>4, <1>5, <1>6, <1>7, <1>8, <1>9, <1>10, <1>11 DEF Import

\* Nothing is kept of a process that is idle.
LEMMA IdleTold ==
    ASSUME NEW p, job[p] = Idle
    PROVE  JobTold(p)
BY DEF Idle, JobTold, FilesTold, NamesTold, RowsTold, DraftTold

LEMMA EndsTold ==
    ASSUME Shaped, NEW p \in Processes, Ends(p)
    PROVE  JobTold(p)' /\ job'[p].step = "idle"
<1>1. job'[p].step = "idle" /\ job'[p].chosen = << >> /\ job'[p].codes = << >>
  BY DEF Ends, Shaped, Idle
<1> QED
  BY <1>1 DEF JobTold, FilesTold, NamesTold, RowsTold, DraftTold

LEMMA StartTold ==
    ASSUME Shaped, NEW p \in Processes, JobTold(p), Start(p)
    PROVE  JobTold(p)' /\ job'[p].step = "download"
<1>1. /\ job'[p].step = "download" /\ job[p].step = "idle"
      /\ job'[p].chosen = job[p].chosen /\ job'[p].codes = job[p].codes
  BY DEF Start, Step, Shaped, Fields
<1> QED
  BY <1>1 DEF JobTold, FilesTold, NamesTold, RowsTold, DraftTold

LEMMA DownloadTold ==
    ASSUME Shaped, Sourced, NEW p \in Processes, JobTold(p), Download(p)
    PROVE  JobTold(p)' /\ job'[p].step \in {"download", "parse"}
<1> DEFINE n == Cardinality(DOMAIN job[p].files) + 1
<1> HIDE DEF n
<1>1. /\ job'[p].step = IF n = Len(Files) THEN "parse" ELSE "download"
      /\ job'[p].files = With(job[p].files, Files[n], version)
      /\ job[p].step = "download" /\ source' = source
      /\ job'[p].chosen = job[p].chosen /\ job'[p].codes = job[p].codes
  BY DEF Download, Shaped, Fields, Step, n
<1>2. CASE n = Len(Files) /\ Cities
  <2>1. Files[n] = "names"
    BY <1>2 DEF Files
  <2>2. With(job[p].files, "names", version)["names"] = version
    BY DEF With, Over
  <2>3. job'[p].files["names"] = version
    BY <1>1, <2>1, <2>2
  <2> QED
    BY <1>1, <1>2, <2>3 DEF Sourced, JobTold, FilesTold, NamesTold, RowsTold, DraftTold
<1>3. CASE ~(n = Len(Files) /\ Cities)
  BY <1>1, <1>3 DEF Cities, JobTold, FilesTold, NamesTold, RowsTold, DraftTold
<1> QED
  BY <1>1, <1>2, <1>3

LEMMA ParseTold ==
    ASSUME Shaped, NEW p \in Processes, JobTold(p), Parse(p)
    PROVE  JobTold(p)' /\ job'[p].step \in {"idle", "names", "publish"}
<1>1. CASE ~Sound(p) \/ ~Sized(p)
  BY <1>1, EndsTold DEF Parse
<1>2. CASE Sound(p) /\ Cities /\ job'[p].step = "names"
  <2>1. /\ SameFiles(p) /\ job[p].step = "parse"
        /\ job'[p].todo = ContentOf(p, "names")
        /\ job'[p].chosen = job[p].chosen /\ job'[p].codes = job[p].codes
    BY <1>2, EndsTold DEF Parse, Step, Shaped, Fields, SameFiles
  <2>2. DOMAIN job'[p].chosen = {} /\ DOMAIN job'[p].codes = {}
    BY <2>1 DEF JobTold, FilesTold
  <2>3. Read(p)' = {}
    BY <2>1, FilesUntouched DEF Read
  <2>4. Russian(p)' = {} /\ Coded(p)' = {}
    BY <2>3 DEF Russian, Coded
  <2>5. FilesTold(p)'
    BY <1>2, <2>1, FilesUntouched DEF JobTold, FilesTold, SameFiles
  <2>6. NamesTold(p)'
    BY <1>2, <2>1, <2>2, <2>4, FilesUntouched DEF NamesTold, BestOf, AllOf
  <2> QED
    BY <1>2, <2>5, <2>6 DEF JobTold, RowsTold, DraftTold
<1>3. CASE Sound(p) /\ Sized(p) /\ ~Cities
  <2>1. /\ SameFiles(p) /\ job'[p].step = "publish"
        /\ job'[p].rows = [i \in RowsOf(p) |-> CHOOSE a \in ContentOf(p, "airports") : a.id = i]
    BY <1>3 DEF Parse, Shaped, Fields, SameFiles
  <2>2. RowsOf(p) = {a.id : a \in ContentOf(p, "airports")}
    BY <1>3 DEF RowsOf
  <2>3. \A a \in ContentOf(p, "airports") : job'[p].rows[a.id] = a
    BY <1>3, <2>1, <2>2 DEF Sound
  <2>4. {job'[p].rows[i] : i \in DOMAIN job'[p].rows} = ContentOf(p, "airports")
    <3>1. DOMAIN job'[p].rows = {a.id : a \in ContentOf(p, "airports")}
      BY <2>1, <2>2
    <3> QED
      BY <3>1, <2>3
  <2>5. TellsAirports(job[p].files, job'[p].rows)
    BY <2>4 DEF TellsAirports, ContentOf
  <2>6. RowsTold(p)'
    BY <1>3, <2>1, <2>5, FilesUntouched DEF RowsTold, SameFiles, TellsAirports, Content
  <2>7. FilesTold(p)'
    BY <1>3, <2>1, FilesUntouched DEF FilesTold
  <2> QED
    BY <2>1, <2>6, <2>7 DEF JobTold, NamesTold, DraftTold
<1> QED
  <2>1. Sound(p) /\ Sized(p) /\ Cities => job'[p].step = "names"
    BY DEF Parse, Shaped, Fields
  <2> QED
    BY <1>1, <1>2, <1>3, <2>1

\* Every name of the files is marked.
LEMMA NamesAreMarked ==
    ASSUME Sourced, NEW p, FilesTold(p), Cities, job[p].step \notin {"idle", "download"}
    PROVE  \A n \in ContentOf(p, "names") : Marked(n) /\ n.name # "none"
BY UpstreamsAssumption DEF Sourced, FilesTold, Cities, ContentOf, Content

\* What one more line of the file adds to what has been read.
LEMMA OneMoreName ==
    ASSUME Shaped, NEW p \in Processes, JobTold(p), ReadName(p)
    PROVE  \E n \in ContentOf(p, "names") :
             /\ SameFiles(p) /\ job[p].step = "names" /\ job'[p].step = "names"
             /\ job'[p].todo \subseteq ContentOf(p, "names")
             /\ Read(p)' = Read(p) \cup {n}
             /\ Russian(p)' = IF Candidate(p, n) /\ n.lang = "ru" THEN Russian(p) \cup {n} ELSE Russian(p)
             /\ Coded(p)' = IF Candidate(p, n) /\ n.lang = "iata" THEN Coded(p) \cup {n} ELSE Coded(p)
             /\ job'[p].chosen = IF Candidate(p, n) /\ n.lang = "ru"
                                 THEN Chosen(job[p].chosen, n) ELSE job[p].chosen
             /\ job'[p].codes = IF Candidate(p, n) /\ n.lang = "iata"
                                THEN With(job[p].codes, n.of, Get(job[p].codes, n.of, {}) \cup {n.name})
                                ELSE job[p].codes
<1>1. PICK n \in job[p].todo :
         job' = [job EXCEPT
                   ![p].todo = @ \ {n},
                   ![p].chosen = IF Candidate(p, n) /\ n.lang = "ru" THEN Chosen(@, n) ELSE @,
                   ![p].codes = IF Candidate(p, n) /\ n.lang = "iata"
                                THEN With(@, n.of, Get(@, n.of, {}) \cup {n.name}) ELSE @]
  BY DEF ReadName
<1>2. /\ job'[p].todo = job[p].todo \ {n} /\ job'[p].files = job[p].files
      /\ job'[p].step = job[p].step
      /\ job'[p].chosen = IF Candidate(p, n) /\ n.lang = "ru"
                          THEN Chosen(job[p].chosen, n) ELSE job[p].chosen
      /\ job'[p].codes = IF Candidate(p, n) /\ n.lang = "iata"
                         THEN With(job[p].codes, n.of, Get(job[p].codes, n.of, {}) \cup {n.name})
                         ELSE job[p].codes
  BY <1>1 DEF Shaped, Fields
<1>3. SameFiles(p) /\ job[p].step = "names"
  BY <1>2 DEF ReadName, SameFiles, Step
<1>4. job[p].todo \subseteq ContentOf(p, "names") /\ n \in ContentOf(p, "names")
  BY <1>3 DEF JobTold, NamesTold
<1>5. Read(p)' = Read(p) \cup {n}
  BY <1>2, <1>3, <1>4, FilesUntouched DEF Read
<1>6. Russian(p)' = IF Candidate(p, n) /\ n.lang = "ru" THEN Russian(p) \cup {n} ELSE Russian(p)
  BY <1>3, <1>5, FilesUntouched DEF Russian
<1>7. Coded(p)' = IF Candidate(p, n) /\ n.lang = "iata" THEN Coded(p) \cup {n} ELSE Coded(p)
  BY <1>3, <1>5, FilesUntouched DEF Coded
<1> QED
  BY <1>2, <1>3, <1>4, <1>5, <1>6, <1>7

\* The best of some names, and one more: what is chosen is the best again.
LEMMA ChosenIsBest ==
    ASSUME NEW chosen, NEW names, NEW n, BestOf(chosen, names),
           \A m \in names \cup {n} : Marked(m)
    PROVE  BestOf(Chosen(chosen, n), names \cup {n})
<1> DEFINE more == Chosen(chosen, n)
<1>1. CASE n.of \notin DOMAIN chosen
  <2>1. more = With(chosen, n.of, n)
    BY <1>1 DEF Chosen
  <2>2. DOMAIN more = DOMAIN chosen \cup {n.of} /\ more[n.of] = n
    BY <2>1 DEF With, Over
  <2>3. \A i \in DOMAIN chosen : more[i] = chosen[i] /\ i # n.of
    BY <1>1, <2>1 DEF With, Over
  <2>4. DOMAIN more = {m.of : m \in names \cup {n}}
    BY <2>2 DEF BestOf
  <2>5. \A m \in names : m.of # n.of
    BY <1>1 DEF BestOf
  <2>6. \A i \in DOMAIN chosen :
          more[i] \in names \cup {n} /\ more[i].of = i
          /\ \A m \in names \cup {n} : m.of = i => NoWorse(more[i], m)
    BY <2>3 DEF BestOf
  <2>7. \A m \in names \cup {n} : m.of = n.of => NoWorse(more[n.of], m)
    BY <2>2, <2>5, BetterIsNoWorse
  <2> QED
    BY <2>2, <2>4, <2>6, <2>7 DEF BestOf
<1>2. CASE n.of \in DOMAIN chosen /\ Better(n, chosen[n.of])
  <2>1. more = With(chosen, n.of, n)
    BY <1>2 DEF Chosen
  <2>2. DOMAIN more = DOMAIN chosen /\ more[n.of] = n
    BY <1>2, <2>1 DEF With, Over
  <2>3. \A i \in DOMAIN chosen : i # n.of => more[i] = chosen[i]
    BY <2>1 DEF With, Over
  <2>4. DOMAIN more = {m.of : m \in names \cup {n}}
    BY <1>2, <2>2 DEF BestOf
  <2>5. chosen[n.of] \in names /\ NoWorse(n, chosen[n.of])
    BY <1>2, BetterIsNoWorse DEF BestOf
  <2>6. \A m \in names : m.of = n.of => NoWorse(n, m)
    BY <1>2, <2>5, NoWorseIsTransitive DEF BestOf
  <2>7. NoWorse(n, n)
    BY BetterIsNoWorse
  <2>8. \A i \in DOMAIN chosen : i # n.of =>
          more[i] \in names \cup {n} /\ more[i].of = i
          /\ \A m \in names \cup {n} : m.of = i => NoWorse(more[i], m)
    BY <2>3 DEF BestOf
  <2> QED
    BY <2>2, <2>4, <2>6, <2>7, <2>8 DEF BestOf
<1>3. CASE n.of \in DOMAIN chosen /\ ~Better(n, chosen[n.of])
  <2>1. more = chosen
    BY <1>3 DEF Chosen
  <2>2. chosen[n.of] \in names /\ NoWorse(chosen[n.of], n)
    BY <1>3, BetterIsNoWorse DEF BestOf
  <2>3. DOMAIN more = {m.of : m \in names \cup {n}}
    BY <1>3, <2>1 DEF BestOf
  <2> QED
    BY <2>1, <2>2, <2>3 DEF BestOf
<1> QED
  BY <1>1, <1>2, <1>3

\* All codes of some names, and one more.
LEMMA CodesAreAll ==
    ASSUME NEW codes, NEW names, NEW n, AllOf(codes, names)
    PROVE  AllOf(With(codes, n.of, Get(codes, n.of, {}) \cup {n.name}), names \cup {n})
<1> DEFINE more == With(codes, n.of, Get(codes, n.of, {}) \cup {n.name})
<1>1. /\ DOMAIN more = DOMAIN codes \cup {n.of}
      /\ more[n.of] = Get(codes, n.of, {}) \cup {n.name}
      /\ \A i \in DOMAIN codes : i # n.of => more[i] = codes[i]
  BY DEF With, Over
<1>2. DOMAIN more = {m.of : m \in names \cup {n}}
  BY <1>1 DEF AllOf
<1>3. Get(codes, n.of, {}) = {m.name : m \in {m \in names : m.of = n.of}}
  BY DEF AllOf, Get
<1>4. more[n.of] = {m.name : m \in {m \in names \cup {n} : m.of = n.of}}
  BY <1>1, <1>3
<1>5. \A i \in DOMAIN codes : i # n.of =>
        {m \in names \cup {n} : m.of = i} = {m \in names : m.of = i}
  OBVIOUS
<1> QED
  BY <1>1, <1>2, <1>4, <1>5 DEF AllOf

LEMMA ReadNameTold ==
    ASSUME Shaped, Sourced, NEW p \in Processes, JobTold(p), ReadName(p)
    PROVE  JobTold(p)' /\ job'[p].step = "names"
<1>1. PICK n \in ContentOf(p, "names") :
         /\ SameFiles(p) /\ job[p].step = "names" /\ job'[p].step = "names"
         /\ job'[p].todo \subseteq ContentOf(p, "names")
         /\ Read(p)' = Read(p) \cup {n}
         /\ Russian(p)' = IF Candidate(p, n) /\ n.lang = "ru" THEN Russian(p) \cup {n} ELSE Russian(p)
         /\ Coded(p)' = IF Candidate(p, n) /\ n.lang = "iata" THEN Coded(p) \cup {n} ELSE Coded(p)
         /\ job'[p].chosen = IF Candidate(p, n) /\ n.lang = "ru"
                             THEN Chosen(job[p].chosen, n) ELSE job[p].chosen
         /\ job'[p].codes = IF Candidate(p, n) /\ n.lang = "iata"
                            THEN With(job[p].codes, n.of, Get(job[p].codes, n.of, {}) \cup {n.name})
                            ELSE job[p].codes
  BY OneMoreName
<1>2. Cities /\ BestOf(job[p].chosen, Russian(p)) /\ AllOf(job[p].codes, Coded(p))
  BY <1>1 DEF JobTold, NamesTold
<1>3. \A m \in Russian(p) \cup {n} : Marked(m)
  BY <1>1, <1>2, NamesAreMarked DEF JobTold, Russian, Read
<1>4. BestOf(job'[p].chosen, Russian(p)')
  BY <1>1, <1>2, <1>3, ChosenIsBest
<1>5. AllOf(job'[p].codes, Coded(p)')
  <2>1. AllOf(With(job[p].codes, n.of, Get(job[p].codes, n.of, {}) \cup {n.name}), Coded(p) \cup {n})
    BY <1>2, CodesAreAll
  <2> QED
    BY <1>1, <1>2, <2>1
<1>6. NamesTold(p)'
  BY <1>1, <1>2, <1>4, <1>5, FilesUntouched DEF NamesTold
<1>7. FilesTold(p)'
  BY <1>1, FilesUntouched DEF JobTold, FilesTold, SameFiles
<1> QED
  BY <1>1, <1>6, <1>7 DEF JobTold, RowsTold, DraftTold

\* When all lines are read, what is chosen of a thing of the files is its best name.
LEMMA ChosenOfFile ==
    ASSUME NEW p \in Processes, JobTold(p), job[p].step = "names", job[p].todo = {},
           NEW i \in Known(p)
    PROVE  /\ i \in DOMAIN job[p].chosen <=> NamesOf(job[p].files, i, "ru") # {}
           /\ i \in DOMAIN job[p].chosen => Best(job[p].files, i, job[p].chosen[i].name)
<1>1. NamesOf(job[p].files, i, "ru") = {n \in Russian(p) : n.of = i}
  BY DEF NamesOf, Russian, Read, Candidate, ContentOf
<1>2. BestOf(job[p].chosen, Russian(p))
  BY DEF JobTold, NamesTold
<1>3. i \in DOMAIN job[p].chosen <=> NamesOf(job[p].files, i, "ru") # {}
  BY <1>1, <1>2 DEF BestOf
<1>4. ASSUME i \in DOMAIN job[p].chosen
      PROVE  Best(job[p].files, i, job[p].chosen[i].name)
  <2>1. job[p].chosen[i] \in NamesOf(job[p].files, i, "ru")
    BY <1>1, <1>2, <1>4 DEF BestOf
  <2>2. \A m \in NamesOf(job[p].files, i, "ru") : NoWorse(job[p].chosen[i], m)
    BY <1>1, <1>2, <1>4 DEF BestOf
  <2> QED
    BY <2>1, <2>2 DEF Best
<1> QED
  BY <1>3, <1>4

LEMMA CodesOfFile ==
    ASSUME NEW p \in Processes, JobTold(p), job[p].step = "names", job[p].todo = {},
           NEW i \in RowsOf(p)
    PROVE  Get(job[p].codes, i, {}) = {n.name : n \in NamesOf(job[p].files, i, "iata")}
<1>1. NamesOf(job[p].files, i, "iata") = {n \in Coded(p) : n.of = i}
  BY DEF NamesOf, Coded, Read, Candidate, ContentOf
<1>2. AllOf(job[p].codes, Coded(p))
  BY DEF JobTold, NamesTold
<1>3. CASE i \in DOMAIN job[p].codes
  BY <1>1, <1>2, <1>3 DEF AllOf, Get
<1>4. CASE i \notin DOMAIN job[p].codes
  <2>1. \A n \in Coded(p) : n.of # i
    BY <1>2, <1>4 DEF AllOf
  <2> QED
    BY <1>1, <1>4, <2>1 DEF Get
<1> QED
  BY <1>3, <1>4

\* A code is shown if there is just one.
LEMMA OneCode ==
    ASSUME NEW codes, "none" \notin codes
    PROVE  Code(codes) # "none" <=> Cardinality(codes) = 1
<1>1. CASE Cardinality(codes) = 1
  <2>1. codes # {}
    BY <1>1, FS_EmptySet
  <2>2. Code(codes) \in codes
    BY <1>1, <2>1 DEF Code
  <2> QED
    BY <1>1, <2>2
<1>2. CASE Cardinality(codes) # 1
  BY <1>2 DEF Code
<1> QED
  BY <1>1, <1>2

\* A city of the files as it is published.
LEMMA LocalizedTells ==
    ASSUME Sourced, NEW p \in Processes, JobTold(p), job[p].step = "names", job[p].todo = {},
           NEW c \in ContentOf(p, "cities"), c.id \in DOMAIN job[p].chosen
    PROVE  CityTold(job[p].files, c, Localized(p, c))
<1> DEFINE row == Localized(p, c)
<1>1. Cities /\ Sound(p)
  BY DEF JobTold, NamesTold, FilesTold
<1>2. /\ row.name = RussianName(job[p].chosen, c.id)
      /\ row.code = Code(Get(job[p].codes, c.id, {}))
      /\ row.region = RegionName(job[p].chosen, ContentOf(p, "regions"), c.region)
  BY DEF Localized
<1>3. c.id \in Known(p) /\ c.id \in RowsOf(p)
  BY <1>1 DEF Known, RowsOf
<1>4. Best(job[p].files, c.id, row.name)
  BY <1>2, <1>3, ChosenOfFile DEF RussianName
<1>5. row.code # "none" <=> Cardinality({n.name : n \in NamesOf(job[p].files, c.id, "iata")}) = 1
  <2>1. "none" \notin {n.name : n \in NamesOf(job[p].files, c.id, "iata")}
    BY <1>1, NamesAreMarked DEF JobTold, NamesOf, ContentOf
  <2> QED
    BY <1>2, <1>3, <2>1, CodesOfFile, OneCode
<1>6. ASSUME NEW r \in Content(job[p].files, "regions"), r.code = c.region
      PROVE  IF NamesOf(job[p].files, r.id, "ru") = {} THEN row.region = r.name
             ELSE Best(job[p].files, r.id, row.region)
  <2>1. r \in ContentOf(p, "regions")
    BY <1>6 DEF ContentOf
  <2>2. {x \in ContentOf(p, "regions") : x.code = c.region} = {r}
    BY <1>1, <1>6, <2>1 DEF Sound
  <2>3. row.region = IF r.id \in DOMAIN job[p].chosen THEN job[p].chosen[r.id].name ELSE r.name
    BY <1>2, <2>2 DEF RegionName
  <2>4. r.id \in Known(p)
    BY <2>1 DEF Known
  <2> QED
    BY <2>3, <2>4, ChosenOfFile
<1> QED
  BY <1>4, <1>5, <1>6 DEF CityTold

LEMMA NamedTold ==
    ASSUME Shaped, Sourced, NEW p \in Processes, JobTold(p), Named(p)
    PROVE  JobTold(p)' /\ job'[p].step \in {"idle", "publish"}
<1> DEFINE named == {c \in ContentOf(p, "cities") : c.id \in DOMAIN job[p].chosen}
           rows == [i \in {c.id : c \in named} |-> Localized(p, CHOOSE c \in named : c.id = i)]
<1>1. /\ job[p].step = "names" /\ job[p].todo = {}
      /\ Cities /\ Sound(p)
  BY DEF Named, Step, JobTold, NamesTold, FilesTold
<1>2. CASE named = {}
  BY <1>2, EndsTold DEF Named
<1>3. CASE named # {}
  <2>1. job' = [job EXCEPT ![p].step = "publish", ![p].rows = rows] /\ source' = source
    BY <1>3 DEF Named
  <2>2. job'[p].step = "publish" /\ job'[p].rows = rows /\ SameFiles(p)
    BY <2>1 DEF Shaped, Fields, SameFiles
  <2>3. ASSUME NEW c \in ContentOf(p, "cities")
        PROVE  c.id \in DOMAIN job[p].chosen <=> NamesOf(job[p].files, c.id, "ru") # {}
    <3>1. c.id \in Known(p)
      BY DEF Known
    <3> QED
      BY <1>1, <3>1, ChosenOfFile
  <2>4. named = {c \in ContentOf(p, "cities") : NamesOf(job[p].files, c.id, "ru") # {}}
    BY <2>3
  <2>5. ASSUME NEW c \in named
        PROVE  rows[c.id] = Localized(p, c)
    <3>1. \A d \in named : d.id = c.id => d = c
      BY <1>1 DEF Sound
    <3>2. (CHOOSE d \in named : d.id = c.id) = c
      BY <3>1
    <3> QED
      BY <3>2
  <2>6. ASSUME NEW c \in ContentOf(p, "cities"), c.id \in DOMAIN rows
        PROVE  CityTold(job[p].files, c, rows[c.id])
    <3>1. c \in named
      BY <1>1, <2>6 DEF Sound
    <3>2. CityTold(job[p].files, c, Localized(p, c))
      BY <1>1, <3>1, LocalizedTells
    <3> QED
      BY <2>5, <3>1, <3>2
  <2>7. TellsCities(job[p].files, rows)
    <3>1. DOMAIN rows = {c.id : c \in {c \in Content(job[p].files, "cities") :
                                         NamesOf(job[p].files, c.id, "ru") # {}}}
      BY <2>4 DEF ContentOf
    <3>2. \A c \in Content(job[p].files, "cities") :
            c.id \in DOMAIN rows => CityTold(job[p].files, c, rows[c.id])
      BY <2>6 DEF ContentOf
    <3> HIDE DEF rows
    <3> QED
      BY <3>1, <3>2 DEF TellsCities
  <2>8. TellsCities(job[p].files, job'[p].rows)
    <3> HIDE DEF rows
    <3> QED
      BY <2>2, <2>7
  <2>9. RowsTold(p)'
    BY <1>1, <2>2, <2>8, FilesUntouched, TellsUntouched DEF RowsTold, SameFiles
  <2>10. FilesTold(p)'
    BY <1>1, <2>2, FilesUntouched DEF JobTold, FilesTold, SameFiles
  <2> QED
    BY <2>2, <2>9, <2>10 DEF JobTold, NamesTold, DraftTold
<1> QED
  BY <1>2, <1>3

LEMMA LockTold ==
    ASSUME Shaped, NEW p \in Processes, JobTold(p), Lock(p)
    PROVE  /\ JobTold(p)' /\ job'[p].step \in {"idle", "locked"}
           /\ job'[p].step = "locked" => \A q \in Processes : ~Writing(q)
<1>1. CASE job'[p].step = "locked"
  <2>1. job[p].step = "publish" /\ job' = [job EXCEPT ![p].step = "locked"] /\ ~Locked
    BY <1>1, EndsTold DEF Lock, Step, Goes
  <2>2. /\ SameFiles(p) /\ job'[p].rows = job[p].rows
    BY <2>1 DEF Lock, Shaped, Fields, SameFiles
  <2>3. FilesTold(p)' /\ RowsTold(p)'
    BY <1>1, <2>1, <2>2, FilesUntouched, TellsUntouched DEF JobTold, FilesTold, RowsTold, SameFiles
  <2>4. \A q \in Processes : ~Writing(q)
    BY <2>1 DEF Locked, Writing
  <2> QED
    BY <1>1, <2>3, <2>4 DEF JobTold, NamesTold, DraftTold
<1>2. CASE job'[p].step # "locked"
  <2>1. Ends(p)
    BY <1>2 DEF Lock, Goes, Shaped, Fields
  <2> QED
    BY <2>1, EndsTold
<1> QED
  BY <1>1, <1>2

LEMMA CompareTold ==
    ASSUME Shaped, NEW p \in Processes, JobTold(p), Compare(p)
    PROVE  /\ JobTold(p)' /\ job'[p].step \in {"idle", "write"} /\ Writing(p)
           /\ job'[p].step = "write" => Acceptable(p)'
<1>0. Writing(p)
  BY DEF Compare, Step, Writing
<1>1. CASE Acceptable(p)
  <2>1. /\ job[p].step = "locked" /\ job'[p].step = "write" /\ SameFiles(p)
        /\ job'[p].rows = job[p].rows /\ job'[p].left = DOMAIN job[p].rows
        /\ job'[p].draft = Deactivated /\ job'[p].started = job[p].started
        /\ imported' = imported
    BY <1>1 DEF Compare, Step, Shaped, Fields, SameFiles
  <2>2. FilesTold(p)' /\ RowsTold(p)'
    BY <2>1, FilesUntouched, TellsUntouched DEF JobTold, FilesTold, RowsTold, SameFiles
  <2>3. \A i \in DOMAIN Deactivated : ~Deactivated[i].active
    BY DEF Deactivated
  <2>4. DraftTold(p)'
    BY <2>1, <2>3 DEF DraftTold
  <2>5. Acceptable(p)'
    BY <1>1, <2>1, FilesUntouched DEF Acceptable
  <2> QED
    BY <1>0, <2>1, <2>2, <2>4, <2>5 DEF JobTold, NamesTold
<1>2. CASE ~Acceptable(p)
  BY <1>0, <1>2, EndsTold DEF Compare
<1> QED
  BY <1>1, <1>2

LEMMA UpsertTold ==
    ASSUME Shaped, NEW p \in Processes, JobTold(p), Upsert(p), Acceptable(p)
    PROVE  JobTold(p)' /\ job[p].step = "write" /\ job'[p].step = "write" /\ Acceptable(p)'
<1> DEFINE first == {i \in job[p].left : Cardinality({k \in job[p].left : k < i}) < BatchSize}
           batch == [i \in first |-> [row |-> job[p].rows[i], active |-> TRUE]]
<1>1. /\ job[p].step = "write" /\ job'[p].step = "write" /\ SameFiles(p)
      /\ job'[p].rows = job[p].rows /\ job'[p].left = job[p].left \ first
      /\ job'[p].draft = Over(batch, job[p].draft) /\ job'[p].started = job[p].started
      /\ imported' = imported
  BY DEF Upsert, Step, Shaped, Fields, SameFiles
<1>2. FilesTold(p)' /\ RowsTold(p)'
  BY <1>1, FilesUntouched, TellsUntouched DEF JobTold, FilesTold, RowsTold, SameFiles
<1>3. DraftTold(p)
  BY DEF JobTold
<1>4. first \subseteq job[p].left
  OBVIOUS
<1>5. \A i \in first : batch[i].row = job[p].rows[i] /\ batch[i].active
  OBVIOUS
<1>6. DOMAIN batch = first
  OBVIOUS
<1>7. DraftTold(p)'
  <2> HIDE DEF first, batch
  <2>1. /\ DOMAIN job'[p].draft = first \cup DOMAIN job[p].draft
        /\ \A i \in first : job'[p].draft[i] = batch[i]
        /\ \A i \in DOMAIN job[p].draft \ first : job'[p].draft[i] = job[p].draft[i]
    BY <1>1, <1>6 DEF Over
  <2> QED
    BY <1>1, <1>3, <1>4, <1>5, <2>1 DEF DraftTold
<1>8. Acceptable(p)'
  BY <1>1, FilesUntouched DEF Acceptable
<1> QED
  BY <1>1, <1>2, <1>7, <1>8 DEF JobTold, NamesTold

(***************************************************************************)
(* What the steps keep of the whole                                        *)
(***************************************************************************)
LEMMA InitInductive == Init => Inductive
<1> SUFFICES ASSUME Init PROVE Inductive
  OBVIOUS
<1>1. Shaped /\ Sourced
  BY DEF Init, Shaped, Sourced, Idle, Fields
<1>2. \A p \in Processes : JobTold(p)
  BY IdleTold DEF Init
<1>3. OneWriter /\ StillAcceptable
  BY DEF Init, OneWriter, StillAcceptable, Writing, Idle
<1>4. ShownIsOneImport
  BY DEF Init, ShownIsOneImport, CitiesAreOneImport, AirportsAreOneImport
<1> QED
  BY <1>1, <1>2, <1>3, <1>4 DEF Inductive

\* What the files tell changes with the source only.
LEMMA FormsUntouched ==
    ASSUME source' = source
    PROVE  /\ Cities' = Cities
           /\ \A files, f : Content(files, f)' = Content(files, f)
           /\ \A files, i, lang : NamesOf(files, i, lang)' = NamesOf(files, i, lang)
           /\ \A files, c, row : CityTold(files, c, row)' <=> CityTold(files, c, row)
<1>1. \A files, f : Content(files, f)' = Content(files, f)
  BY DEF Content
<1>2. \A files, i, lang : NamesOf(files, i, lang)' = NamesOf(files, i, lang)
  BY <1>1 DEF NamesOf
<1>3. \A files, c, row : CityTold(files, c, row)' <=> CityTold(files, c, row)
  BY DEF CityTold, Best, NamesOf, Content
<1> QED
  BY <1>1, <1>2, <1>3 DEF Cities

\* What is shown stays one import as long as nothing is published.
LEMMA ShownUntouched ==
    ASSUME ShownIsOneImport, source' = source, catalog' = catalog, countries' = countries,
           imported' = imported
    PROVE  ShownIsOneImport'
<1>1. /\ Cities' = Cities
      /\ \A files, f : Content(files, f)' = Content(files, f)
      /\ \A files, i, lang : NamesOf(files, i, lang)' = NamesOf(files, i, lang)
      /\ \A files, c, row : CityTold(files, c, row)' <=> CityTold(files, c, row)
  BY FormsUntouched
<1>2. Active' = Active /\ PlannerAirports' = PlannerAirports
  BY DEF Active, PlannerAirports
<1>3. CitiesAreOneImport'
  BY <1>1, <1>2 DEF ShownIsOneImport, CitiesAreOneImport
<1>4. AirportsAreOneImport'
  BY <1>1, <1>2 DEF ShownIsOneImport, AirportsAreOneImport
<1> QED
  BY <1>3, <1>4 DEF ShownIsOneImport

\* What an import publishes is its draft, which shows all of its rows.
LEMMA PublishShows ==
    ASSUME NEW p \in Processes, JobTold(p), Publish(p)
    PROVE  /\ ShownIsOneImport'
           /\ imported'.fetched = job[p].started
           /\ Active' = DOMAIN job[p].rows
<1>1. /\ job[p].step = "write" /\ job[p].left = {}
      /\ catalog' = job[p].draft /\ source' = source
      /\ countries' = Over(CountriesOf(p), countries)
      /\ imported' = [files |-> job[p].files, fetched |-> job[p].started,
                      count |-> Cardinality(DOMAIN job[p].rows)]
  BY DEF Publish, Step
<1>2. /\ imported'.files = job[p].files /\ imported'.fetched = job[p].started
      /\ imported'.count = Cardinality(DOMAIN job[p].rows)
  BY <1>1
<1>3. /\ Active' = DOMAIN job[p].rows
      /\ \A i \in DOMAIN job[p].rows : i \in DOMAIN catalog' /\ catalog'[i].row = job[p].rows[i]
  BY <1>1 DEF Active, JobTold, DraftTold
<1>4. CitiesAreOneImport'
  <2> SUFFICES ASSUME Cities PROVE CitiesAreOneImport'
    BY <1>1, FormsUntouched DEF CitiesAreOneImport
  <2>1. TellsCities(job[p].files, job[p].rows)
    BY <1>1 DEF JobTold, RowsTold
  <2>2. Active' = {c.id : c \in {c \in Content(job[p].files, "cities") :
                                   NamesOf(job[p].files, c.id, "ru") # {}}}
    BY <1>3, <2>1 DEF TellsCities
  <2>3. ASSUME NEW c \in Content(job[p].files, "cities"), c.id \in Active'
        PROVE  c.country \in DOMAIN countries' /\ CityTold(job[p].files, c, catalog'[c.id].row)
    <3>1. CityTold(job[p].files, c, catalog'[c.id].row)
      BY <1>3, <2>1, <2>3 DEF TellsCities
    <3>2. PICK k \in ContentOf(p, "countries") : k.code = c.country
      BY <1>1, <2>3 DEF JobTold, FilesTold, Sound, ContentOf
    <3>3. c.country \in DOMAIN CountriesOf(p)
      BY <3>2 DEF CountriesOf
    <3> QED
      BY <1>1, <3>1, <3>3 DEF Over
  <2>4. /\ Cities' = Cities
        /\ \A files, f : Content(files, f)' = Content(files, f)
        /\ \A files, i, lang : NamesOf(files, i, lang)' = NamesOf(files, i, lang)
        /\ \A files, c, row : CityTold(files, c, row)' <=> CityTold(files, c, row)
    BY <1>1, FormsUntouched
  <2> QED
    BY <1>2, <2>2, <2>3, <2>4 DEF CitiesAreOneImport
<1>5. AirportsAreOneImport'
  <2> SUFFICES ASSUME ~Cities PROVE AirportsAreOneImport'
    BY <1>1, FormsUntouched DEF AirportsAreOneImport
  <2>1. TellsAirports(job[p].files, job[p].rows)
    BY <1>1 DEF JobTold, RowsTold
  <2>2. {catalog'[i].row : i \in Active'} = {job[p].rows[i] : i \in DOMAIN job[p].rows}
    BY <1>3
  <2>3. PlannerAirports' = {a \in Content(job[p].files, "airports") : a.scheduled}
    BY <2>1, <2>2 DEF PlannerAirports, TellsAirports
  <2> QED
    BY <1>1, <1>2, <1>3, <2>3, FormsUntouched DEF AirportsAreOneImport
<1> QED
  BY <1>2, <1>3, <1>4, <1>5 DEF ShownIsOneImport

\* What a step of an import leaves of the rest.
LEMMA ImportFrame ==
    ASSUME NEW p \in Processes, Import(p)
    PROVE  /\ source' = source /\ version' = version
           /\ Publish(p) \/ (catalog' = catalog /\ countries' = countries /\ imported' = imported)
BY DEF Import, Start, Download, Parse, ReadName, Named, Lock, Compare, Upsert, Publish, Stop

\* The step of a process keeps what is told of it. It writes on only what can be accepted,
\* and begins to write when nobody else does.
LEMMA OwnStep ==
    ASSUME Inductive, NEW p \in Processes, Import(p)
    PROVE  /\ JobTold(p)'
           /\ Writing(p)' => Writing(p) \/ \A q \in Processes : ~Writing(q)
           /\ job'[p].step = "write" => Acceptable(p)'
<1> USE DEF Inductive
<1>1. CASE Start(p)
  BY <1>1, StartTold DEF Writing
<1>2. CASE Download(p)
  BY <1>2, DownloadTold DEF Writing
<1>3. CASE Parse(p)
  BY <1>3, ParseTold DEF Writing
<1>4. CASE ReadName(p)
  BY <1>4, ReadNameTold DEF Writing
<1>5. CASE Named(p)
  BY <1>5, NamedTold DEF Writing
<1>6. CASE Lock(p)
  BY <1>6, LockTold DEF Writing
<1>7. CASE Compare(p)
  BY <1>7, CompareTold DEF Writing
<1>8. CASE Upsert(p)
  <2>1. Acceptable(p)
    BY <1>8 DEF Upsert, Step, StillAcceptable
  <2> QED
    BY <1>8, <2>1, UpsertTold DEF Writing
<1>9. CASE Publish(p)
  BY <1>9, EndsTold DEF Publish, Writing
<1>10. CASE Stop(p)
  BY <1>10, EndsTold DEF Stop, Writing
<1> QED
  BY <1>1, <1>2, <1>3, <1>4, <1>5, <1>6, <1>7, <1>8, <1>9, <1>10 DEF Import

LEMMA ImportInductive ==
    ASSUME Inductive, NEW p \in Processes, Import(p)
    PROVE  Inductive'
<1>1. /\ Shaped' /\ \A q \in Processes : q # p => job'[q] = job[q]
      /\ source' = source /\ version' = version
  BY ShapedSteps, ImportFrame DEF Inductive
<1>2. Sourced'
  BY <1>1 DEF Inductive, Sourced
<1>3. \A q \in Processes : JobTold(q)'
  <2> SUFFICES ASSUME NEW q \in Processes, q # p PROVE JobTold(q)'
    BY OwnStep
  <2> QED
    BY <1>1, JobUntouched DEF Inductive, Untouched
<1>4. \A q \in Processes : q # p => (Writing(q)' <=> Writing(q))
  BY <1>1 DEF Writing
<1>5. OneWriter'
  <2> SUFFICES ASSUME NEW q \in Processes, NEW r \in Processes, Writing(q)', Writing(r)', q # r
               PROVE  FALSE
    BY DEF OneWriter
  <2>1. Writing(q) /\ Writing(r) => FALSE
    BY DEF Inductive, OneWriter
  <2> QED
    BY <1>4, <2>1, OwnStep
<1>6. StillAcceptable'
  <2> SUFFICES ASSUME NEW q \in Processes, q # p, job'[q].step = "write" PROVE Acceptable(q)'
    BY OwnStep DEF StillAcceptable
  <2>1. job[q].step = "write" /\ Acceptable(q)
    BY <1>1 DEF Inductive, StillAcceptable
  <2>2. ~Publish(p)
    BY <2>1 DEF Publish, Step, Inductive, OneWriter, Writing
  <2>3. imported' = imported
    BY <2>2, ImportFrame
  <2> QED
    BY <1>1, <2>1, <2>3 DEF Acceptable, Cities
<1>7. ShownIsOneImport'
  <2>1. CASE Publish(p)
    BY <2>1, PublishShows DEF Inductive
  <2>2. CASE ~Publish(p)
    BY <2>2, ImportFrame, ShownUntouched DEF Inductive
  <2> QED
    BY <2>1, <2>2
<1> QED
  BY <1>1, <1>2, <1>3, <1>5, <1>6, <1>7 DEF Inductive

\* The source, the time and steps that change nothing.
LEMMA RestInductive ==
    ASSUME Inductive, Renew \/ Tick \/ UNCHANGED vars
    PROVE  Inductive'
<1>1. /\ job' = job /\ source' = source /\ catalog' = catalog /\ countries' = countries
      /\ imported' = imported
  BY DEF Renew, Tick, vars
<1>2. Sourced'
  BY DEF Inductive, Sourced, Renew, Tick, vars
<1>3. \A p \in Processes : JobTold(p)'
  BY <1>1, JobUntouched DEF Inductive, Untouched
<1>4. Shaped' /\ OneWriter'
  BY <1>1 DEF Inductive, Shaped, OneWriter, Writing
<1>5. StillAcceptable'
  BY <1>1 DEF Inductive, StillAcceptable, Acceptable, Cities
<1>6. ShownIsOneImport'
  BY <1>1, ShownUntouched DEF Inductive
<1> QED
  BY <1>2, <1>3, <1>4, <1>5, <1>6 DEF Inductive

LEMMA NextInductive == Inductive /\ [Next]_vars => Inductive'
BY ImportInductive, RestInductive DEF Next

LEMMA AlwaysInductive == Spec => []Inductive
BY InitInductive, NextInductive, PTL DEF Spec

(***************************************************************************)
(* Results                                                                 *)
(***************************************************************************)

(***************************************************************************)
(* Whatever imports overlap, fail or stop at any step, and in whatever     *)
(* order lines come, what is shown of a catalog is one import, whole       *)
(* (applyRussianNames, ReplaceCatalog, PublishAirports).                   *)
(***************************************************************************)
THEOREM ShownIsWhole == Spec => []ShownIsOneImport
<1>1. Inductive => ShownIsOneImport
  BY DEF Inductive
<1> QED
  BY AlwaysInductive, <1>1, PTL

\* A step that replaces the airports shown.
Replaces ==
    ~Cities /\ imported' # imported /\ imported # NoImport =>
        /\ imported'.fetched > imported.fetched
        /\ Cardinality({i \in DOMAIN catalog' : catalog'[i].active}) * 100
             >= Cardinality(Active) * MinRetained

LEMMA StepReplaces == Inductive /\ [Next]_vars => [Replaces]_vars
<1> SUFFICES ASSUME Inductive, Next, ~Cities, imported' # imported, imported # NoImport
             PROVE  /\ imported'.fetched > imported.fetched
                    /\ Cardinality({i \in DOMAIN catalog' : catalog'[i].active}) * 100
                         >= Cardinality(Active) * MinRetained
  BY DEF Replaces
<1>1. PICK p \in Processes : Publish(p)
  BY ImportFrame DEF Next, Renew, Tick
<1>2. JobTold(p) /\ Acceptable(p)
  BY <1>1 DEF Inductive, StillAcceptable, Publish, Step
<1>3. /\ job[p].started > imported.fetched
      /\ Cardinality(DOMAIN job[p].rows) * 100 >= imported.count * MinRetained
  BY <1>2 DEF Acceptable
<1>4. imported.count = Cardinality(Active)
  BY DEF Inductive, ShownIsOneImport, AirportsAreOneImport
<1>5. imported'.fetched = job[p].started /\ Active' = DOMAIN job[p].rows
  BY <1>1, <1>2, PublishShows
<1>6. {i \in DOMAIN catalog' : catalog'[i].active} = DOMAIN job[p].rows
  BY <1>5 DEF Active
<1> QED
  BY <1>3, <1>4, <1>5, <1>6

(***************************************************************************)
(* No import of airports that started no later than the one shown, or that *)
(* lost too many of its rows, ever replaces it (PublishAirports).          *)
(***************************************************************************)
THEOREM NewerReplacesOlder == Spec => NeverOlder
<1>1. NeverOlder <=> [][Replaces]_vars
  BY PTL DEF NeverOlder, Replaces
<1> QED
  BY AlwaysInductive, StepReplaces, <1>1, PTL DEF Spec
==============================================================================
