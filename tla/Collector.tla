------------------------------- MODULE Collector -------------------------------
(***************************************************************************)
(* The Collector process and its owner in Search. The owner starts one     *)
(* process, writes a request to its input and waits for the reply on its   *)
(* output, one call at a time (realroutes.Process). Collector reads a      *)
(* request, asks Yandex or, through a Python bridge, Google Flights, and   *)
(* replies (transportStdio). The deadline of the owner kills the process   *)
(* in the middle of anything; a signal of the terminal reaches Collector   *)
(* alone. A bridge whose Collector is killed goes on by itself.            *)
(***************************************************************************)
EXTENDS Integers, Sequences, SequencesExt, FiniteSetsExt

CONSTANTS
    Calls,      \* the calls of the owner, in order: [method, key, mode, page, sound, size]
    Worlds,     \* what the providers know: per key, the pages and what they leave out
    MaxFrame    \* the longest request frame, 16384 in the code

VARIABLES
    world,
    results,    \* what the calls came to
    owner,      \* "free", "waiting" or "closed"
    deaf,       \* the scanner of the owner has failed: it reads no more
    ended,      \* the context of the owner has ended
    input, output,  \* the pipes
    collector,  \* "reading", "serving", "flying", "blocked" or "gone"
    request,    \* the request Collector works on
    signalled,  \* the context of Collector has ended
    bridge      \* "none", "running" or "orphan"

ours == <<results, owner, deaf, ended>>
theirs == <<collector, request, signalled, bridge>>
pipes == <<input, output>>
vars == <<world, ours, pipes, theirs>>

NoRequest == 0

Init ==
    /\ world \in Worlds
    /\ results = <<>> /\ owner = "free" /\ deaf = FALSE /\ ended = FALSE
    /\ input = <<>> /\ output = <<>>
    /\ collector = "reading" /\ request = NoRequest /\ signalled = FALSE /\ bridge = "none"

------------------------------------------------------------------------------
(* What a request is answered *)
Items == [mode : {"train", "plane"}, direct : BOOLEAN, ends : {"asked", "other", "unnamed"}]

\* The parts of an answer; "of" tells whose it is, and is not on the wire.
Reply(n, ok, items, total, incomplete) ==
    [of |-> n, ok |-> ok, items |-> items, total |-> total, incomplete |-> incomplete, size |-> "fits"]

Refusal(n) == Reply(n, FALSE, {}, 0, FALSE)

Knows(q) == world[q.key]

PageOf(q) == Knows(q).pages[q.page]

TotalOf(q) == MapThenSumSet(LAMBDA i : Cardinality(Knows(q).pages[i]), DOMAIN Knows(q).pages)

\* A page with a wrong or nameless item is refused as a whole.
Expected(q) ==
    /\ \A x \in PageOf(q) : x.ends # "unnamed"
    /\ q.method \in {"search", "departures"} => \A x \in PageOf(q) : x.direct /\ x.mode = q.mode
    /\ q.method = "departures" => \A x \in PageOf(q) : x.ends = "asked"
    /\ q.method = "thread" => \A x \in PageOf(q) : x.mode = "plane"
    /\ q.method = "settlement" => PageOf(q) # {}

\* Mutant of LeftOut: trains that run at intervals are not mentioned.
LeftOutSearch(q) == Knows(q).intervals /\ q.method = "arrivals"

\* What is known to be left out of a page that passes the checks.
LeftOut(q) ==
    CASE q.method \in {"arrivals", "search", "departures"} -> Knows(q).intervals
      [] q.method = "stations" -> TotalOf(q) > Cardinality(PageOf(q))
      [] q.method = "thread" -> \E x \in PageOf(q) : ~x.direct
      [] OTHER -> FALSE

\* A flight with landings in between is not shown as one.
Shown(q) == IF q.method = "thread" THEN {x \in PageOf(q) : x.direct} ELSE PageOf(q)

Answer(n) ==
    LET q == Calls[n] IN
    IF q.sound /\ Expected(q) THEN Reply(n, TRUE, Shown(q), TotalOf(q), LeftOut(q)) ELSE Refusal(n)

------------------------------------------------------------------------------
(* The owner *)
Note(r) == results' = Append(results, r)

Nth == Len(results) + 1

Failed(n) == [of |-> n, ok |-> FALSE]

Running == collector # "gone"

\* A request can be written as long as there is a process.
Write ==
    /\ owner = "free" /\ Nth \in DOMAIN Calls /\ ~ended
    /\ IF Running
       THEN input' = Append(input, Nth) /\ owner' = "waiting" /\ UNCHANGED results
       ELSE Note(Failed(Nth)) /\ UNCHANGED <<input, owner>>
    /\ UNCHANGED <<world, deaf, ended, output, theirs>>

WriteRefused ==
    /\ owner = "free" /\ Nth \in DOMAIN Calls /\ ended
    /\ Note(Failed(Nth))
    /\ UNCHANGED <<world, owner, deaf, ended, pipes, theirs>>

Accepts(r) == r.ok /\ ~ended

Read ==
    /\ owner = "waiting" /\ output # <<>> /\ ~deaf
    /\ owner' = "free" /\ output' = Tail(output)
    /\ LET r == Head(output) IN
       /\ deaf' = (r.size = "huge")
       /\ Note(IF r.size = "fits" /\ Accepts(r) THEN [r EXCEPT !.ok = TRUE] ELSE Failed(Nth))
    /\ UNCHANGED <<world, ended, input, theirs>>

\* Nothing more comes: the process is gone, or the scanner has failed before.
ReadNothing ==
    /\ owner = "waiting" /\ (deaf \/ (output = <<>> /\ ~Running))
    /\ Note(Failed(Nth))
    /\ owner' = "free"
    /\ UNCHANGED <<world, deaf, ended, pipes, theirs>>

Deadline ==
    /\ ~ended /\ owner # "closed"
    /\ ended' = TRUE
    /\ UNCHANGED <<world, results, owner, deaf, pipes, theirs>>

Close ==
    /\ owner = "free" /\ (Nth \notin DOMAIN Calls \/ ended)
    /\ owner' = "closed"
    /\ UNCHANGED <<world, results, deaf, ended, pipes, theirs>>

\* Mutant of Doomed: Close only closes the input and waits.
DoomedEnded == ended

\* Close and the end of the context cancel the command.
Doomed == ended \/ owner = "closed"

\* Mutant of Die: the process stops to work and stays.
Lingers == collector' = "stopped" /\ request' = NoRequest /\ UNCHANGED bridge

Die ==
    /\ collector' = "gone" /\ request' = NoRequest
    /\ bridge' = IF bridge = "running" THEN "orphan" ELSE bridge

\* The reply under way may be cut in two.
Kill ==
    /\ Doomed /\ Running
    /\ Die
    /\ output' \in {output} \cup {Append(output, Refusal(n)) : n \in {request} \ {NoRequest}}
    /\ UNCHANGED <<world, ours, input, signalled>>

------------------------------------------------------------------------------
(* Collector *)
Take ==
    /\ collector = "reading" /\ input # <<>>
    /\ input' = Tail(input)
    /\ IF Calls[Head(input)].size > MaxFrame
       THEN Die
       ELSE /\ request' = Head(input)
            /\ collector' = IF Calls[Head(input)].method = "flight-paths" THEN "flying" ELSE "serving"
            /\ UNCHANGED bridge
    /\ UNCHANGED <<world, ours, output, signalled>>

\* What the owner cannot take fills the pipe, and the writer waits.
Put(r) ==
    /\ output' = Append(output, r)
    /\ collector' = (IF r.size = "huge" THEN "blocked" ELSE "reading")
    /\ request' = NoRequest

EndOfInput ==
    /\ collector = "reading" /\ input = <<>> /\ owner = "closed"
    /\ Die
    /\ UNCHANGED <<world, ours, pipes, signalled>>

\* Yandex answers, or it does not: refused, late, too long, not as agreed.
Serve ==
    /\ collector = "serving"
    /\ Put(IF signalled THEN Refusal(request) ELSE Answer(request))
    /\ UNCHANGED <<world, ours, input, signalled, bridge>>

ServeFails ==
    /\ collector = "serving" /\ ~signalled
    /\ \E size \in {"fits", "huge"} : Put([Refusal(request) EXCEPT !.size = size])
    /\ UNCHANGED <<world, ours, input, signalled, bridge>>

\* One bridge per request; the query is checked first.
StartBridge ==
    /\ collector = "flying" /\ bridge # "running" /\ Calls[request].sound /\ ~signalled
    /\ bridge' = "running"
    /\ UNCHANGED <<world, ours, pipes, collector, request, signalled>>

RefuseFlight ==
    /\ collector = "flying" /\ bridge # "running" /\ (~Calls[request].sound \/ signalled)
    /\ Put(Refusal(request))
    /\ UNCHANGED <<world, ours, input, signalled, bridge>>

\* Flights are never called complete; what does not match the query is refused.
FlightPaths(q) == Reply(request, TRUE, PageOf(q), Cardinality(PageOf(q)), TRUE)

Landed ==
    /\ collector = "flying" /\ bridge = "running"
    /\ LET q == Calls[request] IN
       Put(IF ~signalled /\ \A x \in PageOf(q) : x.mode = "plane" /\ x.ends = "asked"
           THEN FlightPaths(q) ELSE Refusal(request))
    /\ bridge' = "none"
    /\ UNCHANGED <<world, ours, input, signalled>>

\* It failed, wrote too much or was killed at its timeout.
Crashed ==
    /\ collector = "flying" /\ bridge = "running"
    /\ Put(Refusal(request))
    /\ bridge' = "none"
    /\ UNCHANGED <<world, ours, input, signalled>>

OrphanEnds ==
    /\ bridge = "orphan"
    /\ bridge' = "none"
    /\ UNCHANGED <<world, ours, pipes, collector, request, signalled>>

\* NotifyContext takes the signal: the process goes on and refuses.
Signal ==
    /\ Running /\ ~signalled
    /\ signalled' = TRUE
    /\ UNCHANGED <<world, ours, pipes, collector, request, bridge>>

Next ==
    \/ Write \/ WriteRefused \/ Read \/ ReadNothing \/ Deadline \/ Close \/ Kill
    \/ Take \/ EndOfInput \/ Serve \/ ServeFails \/ StartBridge \/ RefuseFlight \/ Landed \/ Crashed \/ OrphanEnds \/ Signal

\* Processes run and providers answer or time out; deadlines and signals need not come.
Owns == Write \/ WriteRefused \/ Read \/ ReadNothing \/ Close

Works == Take \/ EndOfInput \/ Serve \/ StartBridge \/ RefuseFlight \/ Crashed

Spec ==
    /\ Init /\ [][Next]_vars
    /\ WF_vars(Owns) /\ WF_vars(Kill) /\ WF_vars(Works) /\ WF_vars(OrphanEnds)

------------------------------------------------------------------------------
(***************************************************************************)
(* The frames carry no name of the request they answer. Whatever was       *)
(* killed, cut, signalled or failed, an answer taken is that of the call   *)
(* in hand; and unless it says that it is incomplete, it shows, with the   *)
(* pages of its total, all the provider knows of that kind.                *)
(***************************************************************************)
AnswersAreTrue ==
    \A n \in DOMAIN results :
        LET r == results[n]
            q == Calls[n]
        IN r.ok => /\ r.of = n /\ q.sound
                   /\ r.items \subseteq {x \in PageOf(q) : x.ends # "unnamed"}
                   /\ ~r.incomplete =>
                        /\ r.items = PageOf(q) /\ r.total = TotalOf(q)
                        /\ Knows(q).intervals => q.method \notin {"arrivals", "search", "departures"}

(***************************************************************************)
(* The owner never waits for good: every call returns, also when Collector *)
(* is killed, stops reading or is told to end by a signal.                 *)
(***************************************************************************)
CallsReturn == owner = "waiting" ~> owner # "waiting"

(***************************************************************************)
(* An owner whose deadline has passed or whose work is done leaves neither *)
(* a Collector nor a bridge behind, and no orphan asks Google again.       *)
(***************************************************************************)
NothingLeftRunning == (ended \/ owner = "closed") ~> [](collector = "gone" /\ bridge = "none")
==============================================================================
