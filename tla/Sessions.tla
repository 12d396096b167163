------------------------------- MODULE Sessions -------------------------------
(***************************************************************************)
(* Accounts and sessions of Cabinet. Browsers send registrations, logins,  *)
(* logouts and questions who is signed in; a limit per address and a limit *)
(* on the passwords hashed at once stand before the first two (auth/http). *)
(* A handler is several transactions and statements of the store, and any  *)
(* of them may fail; the answer may be lost on its way.                    *)
(*                                                                         *)
(* Time is counted down: a session has "left" ticks until it expires, an   *)
(* entry of the limit until its window ends. A token is the request that   *)
(* made it: tokens are random and never made twice.                        *)
(***************************************************************************)
EXTENDS Naturals, Sequences, FiniteSets, Functions

CONSTANTS
    Browsers, AddressOf,    \* the browsers and the addresses they send from
    Scripts,                \* what is asked: sequences of [by, op, email, password]
    MaxOpen,                \* bound: requests under way at once
    SessionTTL, LoginWindow, LoginAttempts, MaxTrackedAddresses, HashConcurrency

ASSUME LimitsArePositive ==     \* config/validate.go
    {SessionTTL, LoginWindow, LoginAttempts, MaxTrackedAddresses, HashConcurrency} \subseteq Nat \ {0}
ASSUME ScriptsAssumption ==
    Scripts \subseteq Seq([by : Browsers, op : {"register", "login", "logout", "whoami"},
                           email : STRING, password : STRING])

VARIABLES
    asks,       \* the script
    entries,    \* the addresses tracked: [count, left]
    users,      \* the accounts by email: [password, by]
    sessions,   \* the sessions by token: [email, left]
    jar,        \* the cookie of every browser
    request     \* per request: [step, cookie, counted, age, left, answer]

vars == <<asks, entries, users, sessions, jar, request>>

NoToken == 0
Addresses == {AddressOf[b] : b \in Browsers}
Requests == DOMAIN request
NotSent == [step |-> "unsent", cookie |-> NoToken, counted |-> FALSE, age |-> 0, left |-> 0, answer |-> "none"]

Init ==
    /\ asks \in Scripts
    /\ entries = << >> /\ users = << >> /\ sessions = << >>
    /\ jar = [b \in Browsers |-> NoToken]
    /\ request = [r \in DOMAIN asks |-> NotSent]

\* A row is inserted.
With(rows, key, row) == [k \in DOMAIN rows \cup {key} |-> IF k = key THEN row ELSE rows[k]]

------------------------------------------------------------------------------
(* The limits before a handler *)
At(r) == AddressOf[asks[r].by]
Limited(r) == asks[r].op \in {"login", "register"}
Step(r, s) == request[r].step = s
Goes(r, s) == request' = [request EXCEPT ![r].step = s]
Answered(r, a) == request' = [request EXCEPT ![r].step = "answered", ![r].answer = a, ![r].left = 0]

\* The browser sends what comes next in the script, with the cookie it has.
Send(r) ==
    /\ Step(r, "unsent") /\ \A q \in 1..(r - 1) : ~Step(q, "unsent")
    /\ Cardinality({q \in Requests : request[q].step \notin {"unsent", "seen"}}) < MaxOpen
    /\ request' = [request EXCEPT ![r].step = IF Limited(r) THEN "arrived" ELSE "serving",
                                  ![r].cookie = jar[asks[r].by]]
    /\ UNCHANGED <<asks, entries, users, sessions, jar>>

\* Mutant of Tracked: a window is forgotten in its last tick.
TrackedShort == {a \in DOMAIN entries : entries[a].left > 1}

\* Windows that have ended are forgotten by the next attempt of anyone.
Tracked == {a \in DOMAIN entries : entries[a].left > 0}

Room(a) == a \in Tracked \/ Cardinality(Tracked) < MaxTrackedAddresses

Entry(a) == IF a \in Tracked THEN entries[a] ELSE [count |-> 0, left |-> LoginWindow]
Allowed(a) == Room(a) /\ Entry(a).count < LoginAttempts
Hashing == {r \in Requests : Limited(r) /\ request[r].step \in {"serving", "registering", "replacing"}}
Free == Cardinality(Hashing) < HashConcurrency

\* Another attempt of an address in its window.
Counted(a) ==
    [x \in Tracked \cup {a} |-> IF x = a THEN [Entry(a) EXCEPT !.count = @ + 1] ELSE entries[x]]

\* An attempt beyond the limit of its address, or of a new address with the table full.
TooMany(r) ==
    /\ Step(r, "arrived") /\ ~Allowed(At(r))
    /\ entries' = Restrict(entries, Tracked)
    /\ Answered(r, "exhausted")
    /\ UNCHANGED <<asks, users, sessions, jar>>

Served(r) == Free /\ asks[r].password # "short"

\* An attempt is counted before it finds every slot taken, and before its credentials are read.
Admit(r) ==
    /\ Step(r, "arrived") /\ Allowed(At(r))
    /\ entries' = Counted(At(r))
    /\ request' = [request EXCEPT ![r].counted = TRUE,
                                  ![r].step = IF Served(r) THEN "serving" ELSE "answered",
                                  ![r].answer = CASE ~Free -> "busy" [] Served(r) -> "none" [] OTHER -> "invalid"]
    /\ UNCHANGED <<asks, users, sessions, jar>>

------------------------------------------------------------------------------
(* The handlers *)
Ask(r) == asks[r]
Mint(r, s) == request' = [request EXCEPT ![r].step = s, ![r].left = SessionTTL]

\* An unknown account costs a hash of the same work and gets the same answer.
Login(r) ==
    /\ Step(r, "serving") /\ Ask(r).op = "login"
    /\ IF Ask(r).email \in DOMAIN users /\ users[Ask(r).email].password = Ask(r).password
       THEN Mint(r, "replacing")
       ELSE Answered(r, "unauthenticated")
    /\ UNCHANGED <<asks, entries, users, sessions, jar>>

Register(r) ==
    /\ Step(r, "serving") /\ Ask(r).op = "register"
    /\ Mint(r, "registering")
    /\ UNCHANGED <<asks, entries, users, sessions, jar>>

\* The open transactions that have inserted an account with this email.
Inserting(email) == {q \in Requests : Step(q, "replacing") /\ Ask(q).op = "register" /\ Ask(q).email = email}

\* The unique index makes an insert wait for an open one of the same email.
InsertUser(r) ==
    /\ Step(r, "registering")
    /\ Inserting(Ask(r).email) = {}
    /\ IF Ask(r).email \in DOMAIN users
       THEN Answered(r, "exists") ELSE Goes(r, "replacing")
    /\ UNCHANGED <<asks, entries, users, sessions, jar>>

\* Mutant of Replaced: a login leaves the session of its browser.
KeptByLogin(r) == IF Ask(r).op = "login" THEN {} ELSE {request[r].cookie}

\* The session of the cookie the browser sent, whosever it is.
Replaced(r) == {request[r].cookie}

\* The commit of RegisterWithSession and ReplaceSession; its answer may not reach the handler.
Commit(r) ==
    /\ Step(r, "replacing") /\ request[r].left > 0
    /\ users' = IF Ask(r).op = "register" THEN With(users, Ask(r).email, [password |-> Ask(r).password, by |-> r])
                                          ELSE users
    /\ sessions' = With(Restrict(sessions, DOMAIN sessions \ Replaced(r)),
                        r, [email |-> Ask(r).email, left |-> request[r].left])
    /\ \E a \in {"ok", "internal"} : Answered(r, a)
    /\ UNCHANGED <<asks, entries, jar>>

\* A logout or a question without a cookie asks the store nothing.
AsksStore(r) ==
    \/ request[r].step \in {"registering", "replacing"}
    \/ Step(r, "serving") /\ (Ask(r).op = "login" \/ request[r].cookie # NoToken)

\* Mutant of Fail: the old session is deleted outside of the transaction.
FailHalfway(r) ==
    /\ AsksStore(r)
    /\ Answered(r, "internal")
    /\ sessions' = IF Step(r, "replacing") THEN Restrict(sessions, DOMAIN sessions \ Replaced(r)) ELSE sessions
    /\ UNCHANGED <<asks, entries, users, jar>>

\* A statement fails, or the deadline of the request passes; the transaction is rolled back.
Fail(r) ==
    /\ AsksStore(r)
    /\ Answered(r, "internal")
    /\ UNCHANGED <<asks, entries, users, sessions, jar>>

Logout(r) ==
    /\ Step(r, "serving") /\ Ask(r).op = "logout"
    /\ sessions' = Restrict(sessions, DOMAIN sessions \ {request[r].cookie})
    /\ \E a \in {"ok", "internal"} :
         Answered(r, a) /\ (a = "internal" => request[r].cookie # NoToken)
    /\ UNCHANGED <<asks, entries, users, jar>>

\* Whom a cookie identifies; a session that has expired identifies nobody.
Identified(t) == {sessions[x].email : x \in {x \in {t} \cap DOMAIN sessions : sessions[x].left > 0}}

GetCurrentUser(r) ==
    /\ Step(r, "serving") /\ Ask(r).op = "whoami"
    /\ Answered(r, IF Identified(request[r].cookie) = {} THEN "unauthenticated" ELSE "ok")
    /\ UNCHANGED <<asks, entries, users, sessions, jar>>

\* The answer reaches the browser; one that is lost leaves its cookie.
Receive(r) ==
    /\ Step(r, "answered")
    /\ Goes(r, "seen")
    /\ LET set == CASE request[r].answer # "ok" \/ Ask(r).op = "whoami" -> jar[Ask(r).by]
                    [] Ask(r).op = "logout" -> NoToken
                    [] OTHER -> r
       IN  \E kept \in {set, jar[Ask(r).by]} : jar' = [jar EXCEPT ![Ask(r).by] = kept]
    /\ UNCHANGED <<asks, entries, users, sessions>>

------------------------------------------------------------------------------
(* Time *)
Cleanup ==
    /\ \E t \in DOMAIN sessions : sessions[t].left = 0
    /\ sessions' = Restrict(sessions, {t \in DOMAIN sessions : sessions[t].left > 0})
    /\ UNCHANGED <<asks, entries, users, jar, request>>

Less(n) == IF n > 0 THEN n - 1 ELSE 0

Tick ==
    /\ entries' = [a \in DOMAIN entries |-> [entries[a] EXCEPT !.left = Less(@)]]
    /\ sessions' = [t \in DOMAIN sessions |-> [sessions[t] EXCEPT !.left = Less(@)]]
    /\ request' = [r \in Requests |->
                     [request[r] EXCEPT !.left = Less(@),
                                        !.age = IF request[r].counted /\ @ < LoginWindow THEN @ + 1 ELSE @]]
    /\ UNCHANGED <<asks, users, jar>>

Handle(r) ==
    \/ TooMany(r) \/ Admit(r) \/ Login(r) \/ Register(r) \/ InsertUser(r)
    \/ Commit(r) \/ Fail(r) \/ Logout(r) \/ GetCurrentUser(r)

Next == Cleanup \/ Tick \/ \E r \in Requests : Send(r) \/ Handle(r) \/ Receive(r)

Spec == Init /\ [][Next]_vars

------------------------------------------------------------------------------
(* Properties *)
\* The attempts admitted from an address within the last span as long as a window.
RecentAttempts(a) == {r \in Requests : At(r) = a /\ request[r].counted /\ request[r].age < LoginWindow}

\* docs/specs/cabinet-auth.md:17 promises "не более 10 попыток в минуту на адрес
\* соединения", no more than the limit in any minute. The code keeps less than
\* that: a window opens with an attempt and ends after LoginWindow, and the next
\* one starts from nothing. This is what it does keep, whatever windows, full
\* tables and restarts of windows come together: fewer than twice the limit in
\* any span of a window, nineteen attempts in a minute as shipped.
AttemptsBounded == \A a \in Addresses : Cardinality(RecentAttempts(a)) <= 2 * LoginAttempts - 1

\* The promise of docs/specs/cabinet-auth.md:17 as it is written: no more than
\* the limit of attempts of an address in any span as long as a window. The
\* fixed window of limiter.allow breaks it across its edge.
AttemptsPerWindow == \A a \in Addresses : Cardinality(RecentAttempts(a)) <= LoginAttempts

\* "A failed session write must neither leave a user behind nor invalidate the
\* old browser session" (storage.go:68): an account appears together with the
\* session of its registration, and a session that has not expired ends only
\* by its logout or in the step that gives its browser the next one.
NothingHalfDone ==
    [][/\ \A e \in DOMAIN users' \ DOMAIN users : users'[e].by \in DOMAIN sessions'
       /\ \A t \in DOMAIN sessions \ DOMAIN sessions' :
            \/ sessions[t].left = 0
            \/ \E r \in Requests :
                   /\ request[r].cookie = t /\ request'[r].step = "answered"
                   /\ (Ask(r).op = "logout" \/ r \in DOMAIN sessions' \ DOMAIN sessions)]_vars

\* Once a browser is told that it has logged out, or in anew, the session it
\* had sent identifies nobody any more, whatever else of it is under way.
SignedOutStaysOut ==
    \A r \in Requests :
        request[r].answer = "ok" /\ Ask(r).op # "whoami" => Identified(request[r].cookie) = {}

==============================================================================
