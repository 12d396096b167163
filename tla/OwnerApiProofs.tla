---------------------------- MODULE OwnerApiProofs ----------------------------
(***************************************************************************)
(* Proofs about what Cabinet offers to an owner, for any scripts, forms    *)
(* and limits that OwnerApi allows.                                        *)
(***************************************************************************)
EXTENDS OwnerApi, FiniteSetTheorems, SequenceTheorems, TLAPS

(***************************************************************************)
(* Sessions: types                                                         *)
(***************************************************************************)
Steps == {"unsent", "arrived", "serving", "registering", "replacing", "answered", "seen"}
Outcomes == {"none", "exhausted", "busy", "invalid", "unauthenticated", "exists", "internal", "ok"}
Tokens == {NoToken} \cup DOMAIN asks

SessionsTyped ==
    /\ asks \in Scripts
    /\ entries \in [DOMAIN entries -> [count : 1..LoginAttempts, left : 0..LoginWindow]]
    /\ sessions \in [DOMAIN sessions -> [email : STRING, left : 0..SessionTTL]]
    /\ DOMAIN sessions \subseteq DOMAIN asks
    /\ jar \in [Browsers -> Tokens]
    /\ request \in [DOMAIN asks -> [step : Steps, cookie : Tokens, counted : BOOLEAN, age : 0..LoginWindow,
                                    left : 0..SessionTTL, answer : Outcomes]]

\* Where a request stands says what it has done: only a request that was let in is
\* counted, an answer ends its work, and a token is known once its answer is sent.
Progress ==
    \A r \in Requests :
        /\ request[r].step \in {"unsent", "arrived"} => ~request[r].counted
        /\ request[r].answer # "none" => request[r].step \in {"answered", "seen"}
        /\ r \in DOMAIN sessions => request[r].step \in {"answered", "seen"}
        /\ request[r].cookie # NoToken => request[request[r].cookie].step = "seen"

JarsAreSeen == \A b \in Browsers : jar[b] # NoToken => request[jar[b]].step = "seen"

Ended(t) == t \notin DOMAIN sessions \/ sessions[t].left = 0

SignedOut ==
    \A r \in Requests :
        request[r].answer = "ok" /\ asks[r].op # "whoami" => Ended(request[r].cookie)

SessionsOK == SessionsTyped /\ Progress /\ JarsAreSeen /\ SignedOut

\* A script numbers its requests, and says of each who asks for what.
Sensible(script) ==
    /\ DOMAIN script \subseteq Nat \ {0} /\ IsFiniteSet(DOMAIN script)
    /\ \A r \in DOMAIN script :
         /\ script[r].by \in Browsers /\ script[r].email \in STRING
         /\ script[r].op \in {"register", "login", "logout", "whoami"}

LEMMA Constants ==
    /\ SessionTTL \in Nat \ {0} /\ LoginWindow \in Nat \ {0} /\ LoginAttempts \in Nat \ {0}
    /\ \A script \in Scripts : Sensible(script)
<1>1. SessionTTL \in Nat \ {0} /\ LoginWindow \in Nat \ {0} /\ LoginAttempts \in Nat \ {0}
  BY LimitsArePositive
<1>2. ASSUME NEW script \in Scripts PROVE Sensible(script)
  <2> DEFINE Asked == [by : Browsers, op : {"register", "login", "logout", "whoami"},
                       email : STRING, password : STRING]
  <2>1. script \in Seq(Asked)
    BY ScriptsAssumption
  <2>2. ASSUME NEW r \in DOMAIN script PROVE script[r] \in Asked
    <3> HIDE DEF Asked
    <3> QED  BY <2>1
  <2>3. DOMAIN script = 1..Len(script) /\ Len(script) \in Nat
    <3> HIDE DEF Asked
    <3> QED  BY <2>1
  <2>4. DOMAIN script \subseteq Nat \ {0}
    BY <2>3
  <2>5. IsFiniteSet(1..Len(script))
    BY <2>3, FS_Interval
  <2>6. IsFiniteSet(DOMAIN script)
    BY <2>3, <2>5
  <2> QED  BY <2>2, <2>4, <2>6 DEF Sensible
<1>3. \A script \in Scripts : Sensible(script)
  BY <1>2
<1> QED  BY <1>1, <1>3

\* At first nobody has sent anything.
LEMMA InitSessions == Init => SessionsOK
<1> SUFFICES ASSUME Init PROVE SessionsOK  OBVIOUS
<1>1. request = [r \in DOMAIN asks |-> NotSent] /\ DOMAIN sessions = {} /\ DOMAIN entries = {} /\ asks \in Scripts
      /\ jar = [b \in Browsers |-> NoToken] /\ entries = << >> /\ sessions = << >>
  BY DEF Init
<1>2. SessionsTyped
  BY <1>1, Constants DEF SessionsTyped, Sensible, NotSent, Tokens, Steps, Outcomes, NoToken
<1>3. Progress /\ JarsAreSeen /\ SignedOut
  BY <1>1 DEF Progress, JarsAreSeen, SignedOut, NotSent, Requests, NoToken
<1> QED  BY <1>2, <1>3 DEF SessionsOK

LEMMA SendSessions == ASSUME SessionsOK, NEW r \in Requests, Send(r) PROVE SessionsOK'
<1>1. SessionsTyped'
  <2>1. r \in DOMAIN asks /\ jar[asks[r].by] \in Tokens
    BY Constants DEF SessionsOK, SessionsTyped, Sensible, Requests
  <2>2. PICK s \in {"arrived", "serving"} :
             request' = [request EXCEPT ![r].step = s, ![r].cookie = jar[asks[r].by]]
    BY DEF Send
  <2> QED
    BY <2>1, <2>2 DEF SessionsOK, SessionsTyped, Send, Tokens, Steps, Requests
<1>2. Progress'
  <2>1. r \in DOMAIN asks /\ (jar[asks[r].by] # NoToken => request[jar[asks[r].by]].step = "seen")
    BY Constants DEF SessionsOK, SessionsTyped, Sensible, Requests, JarsAreSeen
  <2>2. request \in [DOMAIN asks -> [step : Steps, cookie : Tokens, counted : BOOLEAN, age : 0..LoginWindow,
                                    left : 0..SessionTTL, answer : Outcomes]]
    BY DEF SessionsOK, SessionsTyped
  <2>3. PICK s \in {"arrived", "serving"} :
             request' = [request EXCEPT ![r].step = s, ![r].cookie = jar[asks[r].by]]
    BY DEF Send
  <2>4. request[r].step = "unsent" /\ request[r].answer = "none" /\ ~request[r].counted /\ r \notin DOMAIN sessions
    BY <2>1 DEF SessionsOK, Progress, Send, Step, Requests
  <2>5. Requests' = Requests /\ sessions' = sessions
    BY <2>2, <2>3 DEF Send, Requests
  <2>6. ASSUME NEW q \in Requests, q # r
        PROVE  /\ request'[q] = request[q]
               /\ request[q].cookie # NoToken => request[q].cookie # r
    BY <2>2, <2>3, <2>4, <2>6 DEF SessionsOK, Progress, Requests
  <2>7. request'[r].step = s /\ request'[r].cookie = jar[asks[r].by] /\ request'[r].answer = "none"
        /\ ~request'[r].counted
    BY <2>1, <2>2, <2>3, <2>4
  <2>8. jar[asks[r].by] # NoToken => jar[asks[r].by] # r /\ jar[asks[r].by] \in Requests
    BY <2>1, <2>2, <2>4, Constants DEF SessionsOK, SessionsTyped, Sensible, Requests, Tokens
  <2>9. \A q \in Requests : request[q].cookie # NoToken => request[q].cookie \in Requests
    BY <2>2 DEF Tokens, Requests
  <2> SUFFICES ASSUME NEW q \in Requests
               PROVE  /\ request'[q].step \in {"unsent", "arrived"} => ~request'[q].counted
                      /\ request'[q].answer # "none" => request'[q].step \in {"answered", "seen"}
                      /\ q \in DOMAIN sessions => request'[q].step \in {"answered", "seen"}
                      /\ request'[q].cookie # NoToken => request'[request'[q].cookie].step = "seen"
    BY <2>5 DEF Progress
  <2>10. CASE q = r
    BY <2>10, <2>1, <2>4, <2>6, <2>7, <2>8
  <2>11. CASE q # r
    <3>1. /\ request[q].step \in {"unsent", "arrived"} => ~request[q].counted
          /\ request[q].answer # "none" => request[q].step \in {"answered", "seen"}
          /\ q \in DOMAIN sessions => request[q].step \in {"answered", "seen"}
          /\ request[q].cookie # NoToken => request[request[q].cookie].step = "seen"
      BY DEF SessionsOK, Progress
    <3> QED  BY <2>11, <2>6, <2>9, <3>1
  <2> QED  BY <2>10, <2>11
<1>3. JarsAreSeen'
  BY DEF SessionsOK, SessionsTyped, JarsAreSeen, Send, Step, Tokens, Requests
<1>4. SignedOut'
  BY DEF SessionsOK, SessionsTyped, Progress, SignedOut, Ended, Send, Step, Tokens, Requests
<1> QED  BY <1>1, <1>2, <1>3, <1>4 DEF SessionsOK

LEMMA TooManySessions == ASSUME SessionsOK, NEW r \in Requests, TooMany(r) PROVE SessionsOK'
<1>1. SessionsTyped'
  BY DEF SessionsOK, SessionsTyped, TooMany, Step, Answered, Tokens, Steps, Outcomes, Requests, Tracked, Restrict
<1>2. Progress' /\ JarsAreSeen'
  BY DEF SessionsOK, SessionsTyped, Progress, JarsAreSeen, TooMany, Answered, Step, Tokens, Requests
<1>3. SignedOut'
  BY DEF SessionsOK, SessionsTyped, SignedOut, Ended, TooMany, Answered, Step, Tokens, Requests
<1> QED  BY <1>1, <1>2, <1>3 DEF SessionsOK

LEMMA AdmitSessions == ASSUME SessionsOK, NEW r \in Requests, Admit(r) PROVE SessionsOK'
<1>1. SessionsTyped'
  <2>1. entries' \in [DOMAIN entries' -> [count : 1..LoginAttempts, left : 0..LoginWindow]]
    BY Constants DEF SessionsOK, SessionsTyped, Admit, Counted, Allowed, Entry, Tracked
  <2> DEFINE Becomes(s, a) == request' = [request EXCEPT ![r].counted = TRUE, ![r].step = s, ![r].answer = a]
  <2>5. UNCHANGED <<asks, sessions, jar>>
    BY DEF Admit
  <2>6. ASSUME NEW s \in {"serving", "answered"}, NEW a \in {"busy", "none", "invalid"}, Becomes(s, a)
        PROVE  request' \in [DOMAIN asks -> [step : Steps, cookie : Tokens, counted : BOOLEAN, age : 0..LoginWindow,
                                            left : 0..SessionTTL, answer : Outcomes]]
    <3>1. a \in Outcomes /\ s \in Steps
      BY DEF Steps, Outcomes
    <3> QED  BY <2>6, <3>1 DEF SessionsOK, SessionsTyped
  <2>7. ASSUME NEW s \in {"serving", "answered"}, NEW a \in {"busy", "none", "invalid"}, Becomes(s, a)
        PROVE  SessionsTyped'
    BY <2>1, <2>5, <2>6, <2>7 DEF SessionsOK, SessionsTyped, Tokens
  <2>2. CASE ~Free
    <3>1. Becomes("answered", "busy")
      BY <2>2 DEF Admit, Served
    <3> QED  BY <2>7, <3>1
  <2>3. CASE Served(r)
    <3>1. Becomes("serving", "none")
      BY <2>3 DEF Admit, Served
    <3> QED  BY <2>7, <3>1
  <2>4. CASE Free /\ ~Served(r)
    <3>1. Becomes("answered", "invalid")
      BY <2>4 DEF Admit
    <3> QED  BY <2>7, <3>1
  <2> QED  BY <2>2, <2>3, <2>4
<1>2. Progress' /\ JarsAreSeen'
  BY DEF SessionsOK, SessionsTyped, Progress, JarsAreSeen, Admit, Step, Tokens, Requests
<1>3. SignedOut'
  BY DEF SessionsOK, SessionsTyped, SignedOut, Ended, Admit, Step, Tokens, Requests
<1> QED  BY <1>1, <1>2, <1>3 DEF SessionsOK

LEMMA CredentialsSessions ==
    ASSUME SessionsOK, NEW r \in Requests, Login(r) \/ Register(r) \/ InsertUser(r)
    PROVE  SessionsOK'
<1>1. SessionsTyped'
  BY Constants DEF SessionsOK, SessionsTyped, Login, Register, InsertUser, Mint, Goes, Answered, Step, Tokens, Steps,
     Outcomes, Requests, Sensible
<1>2. Progress' /\ JarsAreSeen'
  BY DEF SessionsOK, SessionsTyped, Progress, JarsAreSeen, Login, Register, InsertUser, Mint, Goes, Answered, Step,
     Tokens, Requests
<1>3. SignedOut'
  BY DEF SessionsOK, SessionsTyped, SignedOut, Ended, Login, Register, InsertUser, Mint, Goes, Answered, Step,
     Tokens, Requests
<1> QED  BY <1>1, <1>2, <1>3 DEF SessionsOK

LEMMA CommitSessions == ASSUME SessionsOK, NEW r \in Requests, Commit(r) PROVE SessionsOK'
<1>1. SessionsTyped'
  <2>1. sessions' \in [DOMAIN sessions' -> [email : STRING, left : 0..SessionTTL]] /\ DOMAIN sessions' \subseteq DOMAIN asks
    BY Constants DEF SessionsOK, SessionsTyped, Commit, With, Restrict, Ask, Sensible, Requests, Replaced
  <2>2. PICK a \in {"ok", "internal"} : Answered(r, a)
    BY DEF Commit
  <2>3. UNCHANGED <<asks, entries, jar>>
    BY DEF Commit
  <2> QED
    BY <2>1, <2>2, <2>3, Constants DEF SessionsOK, SessionsTyped, Answered, Tokens, Steps, Outcomes, Requests
<1>2. Progress' /\ JarsAreSeen'
  BY DEF SessionsOK, SessionsTyped, Progress, JarsAreSeen, Commit, Answered, Step, Tokens, Requests, With, Restrict
<1>3. SignedOut'
  <2> SUFFICES ASSUME NEW q \in Requests', request'[q].answer = "ok", asks'[q].op # "whoami"
               PROVE  Ended(request[q].cookie)'
    BY DEF SignedOut
  <2>1. q \in Requests /\ request'[q].cookie = request[q].cookie /\ asks' = asks
    BY DEF SessionsOK, SessionsTyped, Commit, Answered, Requests
  <2>2. request[q].cookie # r
    BY <2>1, Constants DEF SessionsOK, SessionsTyped, Progress, Commit, Step, Requests, Sensible, NoToken
  <2>3. CASE q = r
    BY <2>1, <2>2, <2>3 DEF Ended, Commit, With, Restrict, Replaced
  <2>4. CASE q # r
    <3>1. Ended(request[q].cookie)
      BY <2>1, <2>4 DEF SessionsOK, SessionsTyped, SignedOut, Commit, Answered, Requests
    <3> QED  BY <2>1, <2>2, <3>1 DEF Ended, Commit, With, Restrict
  <2> QED  BY <2>3, <2>4
<1> QED  BY <1>1, <1>2, <1>3 DEF SessionsOK
LEMMA FailSessions == ASSUME SessionsOK, NEW r \in Requests, Fail(r) PROVE SessionsOK'
<1>1. SessionsTyped'
  BY DEF SessionsOK, SessionsTyped, Fail, Answered, Tokens, Steps, Outcomes, Requests
<1>2. Progress' /\ JarsAreSeen'
  BY DEF SessionsOK, SessionsTyped, Progress, JarsAreSeen, Fail, AsksStore, Answered, Step, Tokens, Requests
<1>3. SignedOut'
  BY DEF SessionsOK, SessionsTyped, SignedOut, Ended, Fail, Answered, Tokens, Requests
<1> QED  BY <1>1, <1>2, <1>3 DEF SessionsOK

LEMMA LogoutSessions == ASSUME SessionsOK, NEW r \in Requests, Logout(r) PROVE SessionsOK'
<1>1. SessionsTyped'
  BY DEF SessionsOK, SessionsTyped, Logout, Answered, Tokens, Steps, Outcomes, Requests, Restrict
<1>2. Progress' /\ JarsAreSeen'
  BY DEF SessionsOK, SessionsTyped, Progress, JarsAreSeen, Logout, Answered, Step, Tokens, Requests, Restrict
<1>3. SignedOut'
  BY DEF SessionsOK, SessionsTyped, SignedOut, Ended, Logout, Answered, Tokens, Requests, Restrict
<1> QED  BY <1>1, <1>2, <1>3 DEF SessionsOK

LEMMA WhoSessions == ASSUME SessionsOK, NEW r \in Requests, GetCurrentUser(r) PROVE SessionsOK'
<1>0. PICK a \in {"unauthenticated", "ok"} : Answered(r, a)
  BY DEF GetCurrentUser
<1>9. UNCHANGED <<asks, entries, sessions, jar>> /\ Step(r, "serving") /\ asks[r].op = "whoami"
  BY DEF GetCurrentUser, Ask
<1>1. SessionsTyped'
  BY <1>0, <1>9, Constants DEF SessionsOK, SessionsTyped, Answered, Tokens, Steps, Outcomes, Requests
<1>2. Progress' /\ JarsAreSeen'
  BY <1>0, <1>9 DEF SessionsOK, SessionsTyped, Progress, JarsAreSeen, Answered, Step, Tokens, Requests
<1>3. SignedOut'
  BY <1>0, <1>9 DEF SessionsOK, SessionsTyped, SignedOut, Ended, Answered, Tokens, Requests
<1> QED  BY <1>1, <1>2, <1>3 DEF SessionsOK

LEMMA ReceiveSessions == ASSUME SessionsOK, NEW r \in Requests, Receive(r) PROVE SessionsOK'
<1> DEFINE b == asks[r].by
<1>1. PICK kept \in {jar[b], NoToken, r} : jar' = [jar EXCEPT ![b] = kept]
  BY DEF Receive, Ask
<1>2. b \in Browsers /\ r \in DOMAIN asks /\ jar[b] \in Tokens
  BY Constants DEF SessionsOK, SessionsTyped, Sensible, Requests
<1>3. SessionsTyped'
  <2>1. request' = [request EXCEPT ![r].step = "seen"]
    BY DEF Receive, Goes
  <2>2. Tokens' = Tokens /\ kept \in Tokens
    BY <1>2 DEF Receive, Tokens
  <2>3. "seen" \in Steps
    BY DEF Steps
  <2>4. request' \in [DOMAIN asks -> [step : Steps, cookie : Tokens, counted : BOOLEAN, age : 0..LoginWindow,
                                     left : 0..SessionTTL, answer : Outcomes]]
    BY <2>1, <2>3 DEF SessionsOK, SessionsTyped
  <2> QED
    BY <1>1, <1>2, <2>1, <2>2, <2>3, <2>4 DEF SessionsOK, SessionsTyped, Receive
<1>4. Progress'
  BY DEF SessionsOK, SessionsTyped, Progress, Receive, Goes, Step, Tokens, Requests
<1>5. JarsAreSeen'
  BY <1>1, <1>2 DEF SessionsOK, SessionsTyped, JarsAreSeen, Receive, Goes, Tokens, Requests
<1>6. SignedOut'
  BY DEF SessionsOK, SessionsTyped, SignedOut, Ended, Receive, Goes, Tokens, Requests
<1> QED  BY <1>3, <1>4, <1>5, <1>6 DEF SessionsOK

LEMMA CleanupSessions == ASSUME SessionsOK, Cleanup PROVE SessionsOK'
<1>1. SessionsTyped'
  BY DEF SessionsOK, SessionsTyped, Cleanup, Tokens, Restrict
<1>2. Progress' /\ JarsAreSeen' /\ SignedOut'
  BY DEF SessionsOK, SessionsTyped, Progress, JarsAreSeen, SignedOut, Ended, Cleanup, Tokens, Restrict, Requests
<1> QED  BY <1>1, <1>2 DEF SessionsOK

LEMMA LessIsLess == \A n \in Nat : Less(n) \in 0..n /\ (n = 0 => Less(n) = 0) /\ (n > 0 => Less(n) = n - 1)
  BY DEF Less

LEMMA TickSessions == ASSUME SessionsOK, Tick PROVE SessionsOK'
<1>1. entries' \in [DOMAIN entries' -> [count : 1..LoginAttempts, left : 0..LoginWindow]]
  <2>1. ASSUME NEW a \in DOMAIN entries
        PROVE  [entries[a] EXCEPT !.left = Less(@)] \in [count : 1..LoginAttempts, left : 0..LoginWindow]
    <3>1. entries[a] \in [count : 1..LoginAttempts, left : 0..LoginWindow] /\ Less(entries[a].left) \in 0..LoginWindow
      BY Constants, LessIsLess DEF SessionsOK, SessionsTyped
    <3> QED  BY <3>1
  <2> QED  BY <2>1 DEF Tick
<1>2. sessions' \in [DOMAIN sessions' -> [email : STRING, left : 0..SessionTTL]] /\ DOMAIN sessions' = DOMAIN sessions
  <2>1. ASSUME NEW t \in DOMAIN sessions
        PROVE  [sessions[t] EXCEPT !.left = Less(@)] \in [email : STRING, left : 0..SessionTTL]
    <3>1. sessions[t] \in [email : STRING, left : 0..SessionTTL] /\ Less(sessions[t].left) \in 0..SessionTTL
      BY Constants, LessIsLess DEF SessionsOK, SessionsTyped
    <3> QED  BY <3>1
  <2> QED  BY <2>1 DEF Tick
<1> DEFINE Row == [step : Steps, cookie : Tokens, counted : BOOLEAN, age : 0..LoginWindow,
                   left : 0..SessionTTL, answer : Outcomes]
<1>3. ASSUME NEW r \in Requests
      PROVE  /\ request'[r] \in Row
             /\ request'[r].step = request[r].step /\ request'[r].cookie = request[r].cookie
             /\ request'[r].answer = request[r].answer /\ request'[r].counted = request[r].counted
  <2>1. request[r] \in Row
    BY DEF SessionsOK, SessionsTyped, Requests
  <2>2. PICK n \in 0..LoginWindow : n = IF request[r].counted /\ request[r].age < LoginWindow
                                       THEN request[r].age + 1 ELSE request[r].age
    BY <2>1, Constants
  <2>3. Less(request[r].left) \in 0..SessionTTL
    BY <2>1, Constants, LessIsLess
  <2>4. request'[r] = [request[r] EXCEPT !.left = Less(request[r].left), !.age = n]
    BY <2>1, <2>2 DEF Tick
  <2> QED  BY <2>1, <2>3, <2>4
<1>4. Requests' = Requests /\ request' = [r \in Requests |-> request'[r]]
  BY DEF Tick, Requests
<1>5. SessionsTyped'
  BY <1>1, <1>2, <1>3, <1>4 DEF SessionsOK, SessionsTyped, Tick, Tokens, Requests
<1>6. Progress' /\ JarsAreSeen'
  <2>1. \A r \in Requests : request[r].cookie # NoToken => request[r].cookie \in Requests
    BY DEF SessionsOK, SessionsTyped, Tokens, Requests
  <2>2. \A b \in Browsers : jar[b] # NoToken => jar[b] \in Requests
    BY DEF SessionsOK, SessionsTyped, Tokens, Requests
  <2>3. Progress'
    <3> SUFFICES ASSUME NEW q \in Requests
                 PROVE  /\ request'[q].step \in {"unsent", "arrived"} => ~request'[q].counted
                        /\ request'[q].answer # "none" => request'[q].step \in {"answered", "seen"}
                        /\ q \in DOMAIN sessions => request'[q].step \in {"answered", "seen"}
                        /\ request'[q].cookie # NoToken => request'[request'[q].cookie].step = "seen"
      BY <1>2, <1>4 DEF Progress
    <3> HIDE DEF Row
    <3>1. /\ request[q].step \in {"unsent", "arrived"} => ~request[q].counted
          /\ request[q].answer # "none" => request[q].step \in {"answered", "seen"}
          /\ q \in DOMAIN sessions => request[q].step \in {"answered", "seen"}
          /\ request[q].cookie # NoToken => request[request[q].cookie].step = "seen"
      BY DEF SessionsOK, Progress
    <3> QED  BY <1>3, <2>1, <3>1
  <2>4. JarsAreSeen'
    BY <1>3, <1>4, <2>2 DEF SessionsOK, JarsAreSeen, Tick
  <2> QED  BY <2>3, <2>4
<1>7. ASSUME NEW t, Ended(t) PROVE Ended(t)'
  <2>1. CASE t \in DOMAIN sessions
    <3>1. sessions[t].left = 0 /\ sessions'[t] = [sessions[t] EXCEPT !.left = Less(@)]
          /\ sessions[t] \in [email : STRING, left : 0..SessionTTL]
      BY <1>7, <2>1 DEF Ended, Tick, SessionsOK, SessionsTyped
    <3> QED  BY <3>1, LessIsLess DEF Ended
  <2> QED  BY <1>2, <2>1 DEF Ended
<1>8. SignedOut'
  BY <1>3, <1>4, <1>7 DEF SessionsOK, SignedOut, Tick
<1> QED  BY <1>5, <1>6, <1>8 DEF SessionsOK

LEMMA NextSessions == SessionsOK /\ [Next]_vars => SessionsOK'
<1> SUFFICES ASSUME SessionsOK, [Next]_vars PROVE SessionsOK'  OBVIOUS
<1>1. ASSUME NEW r \in Requests, Send(r) \/ Handle(r) \/ Receive(r) PROVE SessionsOK'
  BY <1>1, SendSessions, TooManySessions, AdmitSessions, CredentialsSessions, CommitSessions, FailSessions,
     LogoutSessions, WhoSessions, ReceiveSessions DEF Handle
<1>2. CASE UNCHANGED vars
  BY <1>2 DEF vars, SessionsOK, SessionsTyped, Progress, JarsAreSeen, SignedOut, Ended, Tokens, Requests
<1> QED  BY <1>1, <1>2, CleanupSessions, TickSessions DEF Next

(***************************************************************************)
(* Sessions: the limit of an address                                       *)
(***************************************************************************)
Made(a) == {r \in Requests : At(r) = a /\ request[r].counted}
Recent(a) == {r \in Made(a) : request[r].age < LoginWindow}

\* C holds the attempts of the window that is open for a: one of them opened it,
\* and those before it are as old at least, and too few to fill a window of their own.
Window(a, C) ==
    /\ C \subseteq Made(a) /\ Cardinality(C) = entries[a].count
    /\ \E r \in C : request[r].age >= LoginWindow - entries[a].left
    /\ \A r \in Made(a) \ C : request[r].age >= LoginWindow - entries[a].left
    /\ Cardinality(Recent(a) \ C) < LoginAttempts

Bounded(a) ==
    IF a \in Tracked THEN \E C \in SUBSET Made(a) : Window(a, C)
    ELSE Cardinality(Recent(a)) < LoginAttempts

Windows == \A a \in Addresses : Bounded(a)

\* Sets of requests are finite.
LEMMA RequestsFinite == ASSUME SessionsOK PROVE \A X \in SUBSET Requests : IsFiniteSet(X) /\ Cardinality(X) \in Nat
<1>1. IsFiniteSet(Requests)
  BY Constants DEF SessionsOK, SessionsTyped, Sensible, Requests
<1> QED  BY <1>1, FS_Subset, FS_CardinalityType

\* What is counted, when, and for which address, is all that the limit depends on.
LEMMA SameWindows ==
    ASSUME SessionsOK, Windows, asks' = asks, Requests' = Requests,
           \A a \in Addresses : (a \in Tracked' <=> a \in Tracked) /\ (a \in Tracked => entries'[a] = entries[a]),
           \A r \in Requests : request'[r].counted = request[r].counted /\ request'[r].age = request[r].age
    PROVE  Windows'
<1> SUFFICES ASSUME NEW a \in Addresses PROVE Bounded(a)'
  BY DEF Windows, Addresses
<1>1. Made(a)' = Made(a)
  BY DEF Made, At
<1>2. Recent(a)' = Recent(a)
  BY <1>1 DEF Recent, Made
<1>3. Bounded(a)
  BY DEF Windows
<1>4. CASE a \in Tracked
  <2>1. PICK C \in SUBSET Made(a) : Window(a, C)
    BY <1>3, <1>4 DEF Bounded
  <2>2. Window(a, C)'
    BY <1>1, <1>2, <1>4, <2>1 DEF Window, Made
  <2> QED  BY <1>1, <1>4, <2>2 DEF Bounded
<1>5. CASE a \notin Tracked
  BY <1>2, <1>3, <1>5 DEF Bounded
<1> QED  BY <1>4, <1>5

\* An attempt joins the window of its address, or opens one.
LEMMA AdmitWindows == ASSUME SessionsOK, Windows, NEW r \in Requests, Admit(r) PROVE Windows'
<1> SUFFICES ASSUME NEW a \in Addresses PROVE Bounded(a)'
  BY DEF Windows, Addresses
<1> DEFINE at == At(r)
<1>1. /\ asks' = asks /\ Requests' = Requests /\ Step(r, "arrived") /\ Allowed(at)
      /\ request' \in [Requests -> [step : Steps, cookie : Tokens, counted : BOOLEAN, age : 0..LoginWindow,
                                    left : 0..SessionTTL, answer : Outcomes]]'
  BY AdmitSessions DEF Admit, SessionsOK, SessionsTyped, Requests
<1>2. \A q \in Requests : q # r => request'[q] = request[q]
  BY DEF Admit, SessionsOK, SessionsTyped, Requests
<1>3. request'[r].counted /\ request'[r].age = request[r].age /\ ~request[r].counted /\ request[r].age \in Nat
  BY Constants DEF Admit, Step, SessionsOK, SessionsTyped, Progress, Requests
<1>4. LoginWindow \in Nat \ {0} /\ LoginAttempts \in Nat \ {0}
  BY Constants
<1>5. \A x \in DOMAIN entries : entries[x] \in [count : 1..LoginAttempts, left : 0..LoginWindow]
  BY DEF SessionsOK, SessionsTyped
<1>6. /\ DOMAIN entries' = Tracked \cup {at}
      /\ \A x \in Tracked : x # at => entries'[x] = entries[x]
      /\ entries'[at].count = Entry(at).count + 1 /\ entries'[at].left = Entry(at).left
  <2>1. Entry(at) \in [count : Nat, left : Nat]
    BY <1>4, <1>5 DEF Entry, Tracked
  <2>2. entries' = [x \in Tracked \cup {at} |-> IF x = at THEN [Entry(at) EXCEPT !.count = @ + 1] ELSE entries[x]]
    BY DEF Admit, Counted
  <2> HIDE DEF at
  <2> QED  BY <2>1, <2>2
<1>7. Entry(at).left \in 1..LoginWindow
  BY <1>4, <1>5 DEF Entry, Tracked
<1>8. Tracked' = Tracked \cup {at}
  BY <1>4, <1>5, <1>6, <1>7 DEF Tracked
<1>9. Bounded(a)
  BY DEF Windows
<1>10. \A q \in Requests : q # r => At(q)' = At(q) /\ (q \in Made(a)' <=> q \in Made(a)) /\ (q \in Recent(a)' <=> q \in Recent(a))
  BY <1>1, <1>2 DEF At, Made, Recent
<1>11. CASE a # at
  <2>1. r \notin Made(a) /\ r \notin Made(a)'
    BY <1>1, <1>11 DEF Made, At
  <2>2. Made(a)' = Made(a) /\ Recent(a)' = Recent(a)
    BY <1>1, <1>10, <2>1 DEF Made, Recent
  <2>3. CASE a \in Tracked
    <3>1. PICK C \in SUBSET Made(a) : Window(a, C)
      BY <1>9, <2>3 DEF Bounded
    <3>2. Window(a, C)'
      BY <1>2, <1>6, <1>11, <2>1, <2>2, <2>3, <3>1 DEF Window, Made
    <3> QED  BY <1>8, <2>2, <2>3, <3>2 DEF Bounded
  <2>4. CASE a \notin Tracked
    BY <1>8, <1>9, <1>11, <2>2, <2>4 DEF Bounded
  <2> QED  BY <2>3, <2>4
<1>12. CASE a = at
  <2>1. Made(a)' = Made(a) \cup {r} /\ r \notin Made(a)
    BY <1>1, <1>3, <1>10, <1>12 DEF Made, At
  <2>2. Recent(a)' \ {r} = Recent(a) /\ r \notin Recent(a)
    <3>1. Recent(a) \subseteq Requests /\ Recent(a)' \subseteq Requests
      BY <1>1 DEF Recent, Made
    <3>2. r \notin Recent(a)
      BY <2>1 DEF Recent
    <3> QED  BY <1>10, <3>1, <3>2
  <2>3. CASE a \in Tracked
    <3>1. PICK C \in SUBSET Made(a) : Window(a, C)
      BY <1>9, <2>3 DEF Bounded
    <3>2. IsFiniteSet(C) /\ r \notin C
      BY <2>1, <3>1, RequestsFinite DEF Made
    <3>3. Cardinality(C \cup {r}) = Cardinality(C) + 1
      BY <3>2, FS_AddElement
    <3>4. Entry(a) = entries[a]
      BY <2>3 DEF Entry
    <3>5. Cardinality(C \cup {r}) = entries'[a].count /\ entries'[a].left = entries[a].left
      BY <1>6, <1>12, <3>1, <3>3, <3>4 DEF Window
    <3>6. \E q \in C : request'[q].age >= LoginWindow - entries'[a].left
      BY <1>2, <2>1, <3>1, <3>5 DEF Window, Made
    <3>7. \A q \in Made(a)' \ (C \cup {r}) : request'[q].age >= LoginWindow - entries'[a].left
      BY <1>2, <2>1, <3>1, <3>5 DEF Window, Made
    <3>8. Recent(a)' \ (C \cup {r}) = Recent(a) \ C
      BY <2>2
    <3>9. Window(a, C \cup {r})'
      BY <2>1, <3>1, <3>5, <3>6, <3>7, <3>8 DEF Window
    <3> QED  BY <1>8, <2>1, <2>3, <3>9 DEF Bounded
  <2>4. CASE a \notin Tracked
    <3>1. Cardinality(Recent(a)) < LoginAttempts
      BY <1>9, <2>4 DEF Bounded
    <3>2. entries'[a].count = 1 /\ entries'[a].left = LoginWindow
      BY <1>6, <1>12, <2>4 DEF Entry
    <3>3. Cardinality({r}) = 1
      BY FS_Singleton
    <3>4. \A q \in Made(a)' : request'[q].age \in Nat
      BY <1>1, <1>4 DEF Made
    <3>5. Window(a, {r})'
      BY <1>3, <1>4, <2>1, <2>2, <3>1, <3>2, <3>3, <3>4 DEF Window
    <3> QED  BY <1>8, <1>12, <2>1, <3>5 DEF Bounded
  <2> QED  BY <2>3, <2>4
<1> QED  BY <1>11, <1>12

\* Time makes attempts older and windows shorter by the same tick: the window that ends
\* has lost its first attempt by then, and all that came before it.
LEMMA TickWindows == ASSUME SessionsOK, Windows, Tick PROVE Windows'
<1> SUFFICES ASSUME NEW a \in Addresses PROVE Bounded(a)'
  BY DEF Windows, Addresses, Tick
<1>1. asks' = asks /\ Requests' = Requests /\ DOMAIN entries' = DOMAIN entries
  BY DEF Tick, Requests
<1>2. LoginWindow \in Nat \ {0} /\ LoginAttempts \in Nat \ {0}
  BY Constants
<1>3. ASSUME NEW x \in DOMAIN entries
      PROVE  /\ entries[x].count \in 1..LoginAttempts /\ entries[x].left \in 0..LoginWindow
             /\ entries'[x].count = entries[x].count /\ entries'[x].left = Less(entries[x].left)
  <2>1. entries[x] \in [count : 1..LoginAttempts, left : 0..LoginWindow]
    BY DEF SessionsOK, SessionsTyped
  <2>2. entries'[x] = [entries[x] EXCEPT !.left = Less(entries[x].left)]
    BY DEF Tick
  <2> QED  BY <2>1, <2>2
<1>4. ASSUME NEW q \in Requests
      PROVE  /\ request[q].age \in 0..LoginWindow /\ request'[q].counted = request[q].counted
             /\ request[q].counted => request'[q].age \in 0..LoginWindow /\ request'[q].age >= request[q].age
                  /\ (request[q].age < LoginWindow => request'[q].age = request[q].age + 1)
  <2>1. request[q] \in [step : Steps, cookie : Tokens, counted : BOOLEAN, age : 0..LoginWindow,
                        left : 0..SessionTTL, answer : Outcomes]
    BY DEF SessionsOK, SessionsTyped, Requests
  <2>2. PICK n : n = IF request[q].counted /\ request[q].age < LoginWindow THEN request[q].age + 1 ELSE request[q].age
    OBVIOUS
  <2>3. request'[q] = [request[q] EXCEPT !.left = Less(request[q].left), !.age = n]
    BY <2>1, <2>2 DEF Tick
  <2>4. request'[q].age = n /\ request'[q].counted = request[q].counted
    BY <2>1, <2>3
  <2> QED  BY <1>2, <2>1, <2>2, <2>4
<1>5. Made(a)' = Made(a)
  BY <1>1, <1>4 DEF Made, At
<1>6. Recent(a)' \subseteq Recent(a)
  BY <1>2, <1>4, <1>5 DEF Recent, Made
<1>7. Bounded(a) /\ Made(a) \subseteq Requests /\ Recent(a) \subseteq Requests
  BY DEF Windows, Made, Recent
<1>8. CASE a \notin Tracked
  <2>1. a \notin Tracked'
    BY <1>1, <1>3, <1>8, LessIsLess DEF Tracked
  <2>2. Cardinality(Recent(a)') <= Cardinality(Recent(a)) /\ Cardinality(Recent(a)') \in Nat
        /\ Cardinality(Recent(a)) \in Nat
    BY <1>6, <1>7, RequestsFinite, FS_Subset
  <2> QED  BY <1>2, <1>7, <1>8, <2>1, <2>2 DEF Bounded
<1>9. CASE a \in Tracked
  <2>1. PICK C \in SUBSET Made(a) : Window(a, C)
    BY <1>7, <1>9 DEF Bounded
  <2>2. a \in DOMAIN entries /\ entries[a].left > 0 /\ entries'[a].left = entries[a].left - 1
    BY <1>3, <1>9, LessIsLess DEF Tracked
  <2>3. ASSUME NEW q \in Made(a), request[q].age >= LoginWindow - entries[a].left
        PROVE  request'[q].age >= LoginWindow - entries'[a].left
    <3>1. q \in Requests /\ request[q].counted
      BY DEF Made
    <3> QED  BY <1>2, <1>3, <1>4, <2>2, <2>3, <3>1
  <2>4. PICK first \in C : request[first].age >= LoginWindow - entries[a].left
    BY <2>1 DEF Window
  <2>5. request'[first].age >= LoginWindow - entries'[a].left
    BY <2>3, <2>4
  <2>6. \A q \in Made(a) \ C : request'[q].age >= LoginWindow - entries'[a].left
    BY <2>1, <2>3 DEF Window
  <2>7. Cardinality(Recent(a)' \ C) <= Cardinality(Recent(a) \ C) /\ Cardinality(Recent(a)' \ C) \in Nat
        /\ Cardinality(Recent(a) \ C) \in Nat
    <3>1. Recent(a)' \ C \subseteq Recent(a) \ C /\ Recent(a) \ C \subseteq Requests
      BY <1>6, <1>7
    <3> QED  BY <3>1, RequestsFinite, FS_Subset
  <2>8. CASE entries[a].left > 1
    <3>1. a \in Tracked'
      BY <1>1, <1>3, <2>2, <2>8 DEF Tracked
    <3>2. Window(a, C)'
      BY <1>2, <1>3, <1>5, <2>1, <2>2, <2>5, <2>6, <2>7 DEF Window
    <3> QED  BY <1>5, <3>1, <3>2 DEF Bounded
  <2>9. CASE ~(entries[a].left > 1)
    <3>1. entries'[a].left = 0
      BY <1>3, <2>2, <2>9
    <3>2. a \notin Tracked'
      BY <3>1 DEF Tracked
    <3>3. \A q \in Made(a) \ C : q \notin Recent(a)'
      BY <1>2, <1>4, <2>6, <3>1 DEF Recent, Made
    <3>4. first \notin Recent(a)'
      BY <1>2, <1>4, <2>4, <2>5, <3>1 DEF Recent, Made
    <3>5. Recent(a)' \subseteq C \ {first}
      BY <1>5, <3>3, <3>4 DEF Recent
    <3>6. IsFiniteSet(C) /\ Cardinality(C) \in Nat /\ C \subseteq Requests
      BY <1>7, RequestsFinite
    <3>7. Cardinality(C \ {first}) = Cardinality(C) - 1 /\ IsFiniteSet(C \ {first})
      BY <2>4, <3>6, FS_RemoveElement
    <3>8. Cardinality(Recent(a)') <= Cardinality(C \ {first}) /\ Cardinality(Recent(a)') \in Nat
      BY <3>5, <3>7, FS_Subset, FS_CardinalityType
    <3>9. Cardinality(C) <= LoginAttempts
      BY <1>3, <2>1, <2>2 DEF Window
    <3>10. Cardinality(Recent(a)') < LoginAttempts
      BY <1>2, <3>6, <3>7, <3>8, <3>9
    <3> QED  BY <3>2, <3>10 DEF Bounded
  <2> QED  BY <2>8, <2>9
<1> QED  BY <1>8, <1>9

\* All other steps leave the table, but for windows that have ended, and what was counted.
LEMMA NextWindows == SessionsOK /\ Windows /\ [Next]_vars => Windows'
<1> SUFFICES ASSUME SessionsOK, Windows, [Next]_vars PROVE Windows'  OBVIOUS
<1>0. request \in [Requests -> [step : Steps, cookie : Tokens, counted : BOOLEAN, age : 0..LoginWindow,
                                left : 0..SessionTTL, answer : Outcomes]]
  BY DEF SessionsOK, SessionsTyped, Requests
<1> DEFINE Kept == \A q \in Requests : request'[q].counted = request[q].counted /\ request'[q].age = request[q].age
<1>1. ASSUME asks' = asks, entries' = entries, Requests' = Requests, Kept PROVE Windows'
  BY <1>1, SameWindows DEF Tracked
<1>2. ASSUME NEW r \in Requests, Send(r) PROVE Windows'
  <2>1. PICK s, k : request' = [request EXCEPT ![r].step = s, ![r].cookie = k]
    BY <1>2 DEF Send
  <2> QED  BY <1>0, <1>1, <1>2, <2>1 DEF Send, Requests
<1>3. ASSUME NEW r \in Requests, TooMany(r) PROVE Windows'
  <2>1. \A a \in Addresses : (a \in Tracked' <=> a \in Tracked) /\ (a \in Tracked => entries'[a] = entries[a])
    BY <1>3 DEF TooMany, Tracked, Restrict
  <2>2. asks' = asks /\ Requests' = Requests /\ Kept
    BY <1>0, <1>3 DEF TooMany, Answered, Requests
  <2> QED  BY <2>1, <2>2, SameWindows
<1>4. ASSUME NEW r \in Requests, Login(r) \/ Register(r) \/ InsertUser(r) PROVE Windows'
  <2>1. asks' = asks /\ entries' = entries /\ Requests' = Requests /\ Kept
    BY <1>0, <1>4 DEF Login, Register, InsertUser, Mint, Goes, Answered, Requests
  <2> QED  BY <1>1, <2>1
<1>5. ASSUME NEW r \in Requests, Commit(r) \/ Fail(r) \/ Logout(r) \/ GetCurrentUser(r) PROVE Windows'
  <2>1. PICK a : Answered(r, a)
    BY <1>5 DEF Commit, Fail, Logout, GetCurrentUser
  <2>2. asks' = asks /\ entries' = entries
    BY <1>5 DEF Commit, Fail, Logout, GetCurrentUser
  <2>3. Requests' = Requests /\ Kept
    BY <1>0, <2>1 DEF Answered, Requests
  <2> QED  BY <1>1, <2>2, <2>3
<1>6. ASSUME NEW r \in Requests, Receive(r) PROVE Windows'
  <2>1. asks' = asks /\ entries' = entries /\ Requests' = Requests /\ Kept
    BY <1>0, <1>6 DEF Receive, Goes, Requests
  <2> QED  BY <1>1, <2>1
<1>7. CASE Cleanup \/ UNCHANGED vars
  BY <1>1, <1>7 DEF Cleanup, vars, Requests
<1>8. CASE \E r \in Requests : Send(r) \/ Handle(r) \/ Receive(r)
  BY <1>2, <1>3, <1>4, <1>5, <1>6, <1>8, AdmitWindows DEF Handle
<1> QED  BY <1>7, <1>8, TickWindows DEF Next

LEMMA InitWindows == Init => Windows
<1> SUFFICES ASSUME Init, NEW a \in Addresses PROVE Bounded(a)
  BY DEF Windows
<1>1. Tracked = {} /\ Recent(a) = {}
  BY DEF Init, Tracked, Recent, Made, Requests, NotSent
<1> QED  BY <1>1, FS_EmptySet, Constants DEF Bounded

\* An open window and what is left of those before it.
LEMMA WindowsBound == SessionsOK /\ Windows => AttemptsBounded
<1> SUFFICES ASSUME SessionsOK, Windows, NEW a \in Addresses PROVE Cardinality(Recent(a)) <= 2 * LoginAttempts - 1
  BY DEF AttemptsBounded, RecentAttempts, Recent, Made
<1>1. LoginAttempts \in Nat \ {0}
  BY Constants
<1>2. Bounded(a) /\ Recent(a) \subseteq Requests
  BY DEF Windows, Recent, Made
<1>3. CASE a \notin Tracked
  <2>1. Cardinality(Recent(a)) < LoginAttempts /\ Cardinality(Recent(a)) \in Nat
    BY <1>2, <1>3, RequestsFinite DEF Bounded
  <2> QED  BY <1>1, <2>1
<1>4. CASE a \in Tracked
  <2>1. PICK C \in SUBSET Made(a) : Window(a, C)
    BY <1>2, <1>4 DEF Bounded
  <2>2. Cardinality(C) <= LoginAttempts
    BY <1>4, <2>1 DEF SessionsOK, SessionsTyped, Window, Tracked
  <2>3. C \subseteq Requests /\ Recent(a) \ C \subseteq Requests
    BY <1>2 DEF Made
  <2>4. IsFiniteSet(C) /\ IsFiniteSet(Recent(a) \ C) /\ Cardinality(C) \in Nat /\ Cardinality(Recent(a) \ C) \in Nat
    BY <2>3, RequestsFinite
  <2>5. Cardinality(C \cup (Recent(a) \ C)) <= Cardinality(C) + Cardinality(Recent(a) \ C)
        /\ IsFiniteSet(C \cup (Recent(a) \ C)) /\ Cardinality(C \cup (Recent(a) \ C)) \in Nat
    <3>1. C \cap (Recent(a) \ C) = {}
      OBVIOUS
    <3>2. Cardinality(C \cap (Recent(a) \ C)) = 0
      BY <3>1, FS_EmptySet
    <3>3. /\ IsFiniteSet(C \cup (Recent(a) \ C))
          /\ Cardinality(C \cup (Recent(a) \ C))
               = Cardinality(C) + Cardinality(Recent(a) \ C) - Cardinality(C \cap (Recent(a) \ C))
      BY <2>4, FS_Union
    <3> QED  BY <2>4, <3>2, <3>3
  <2>6. Cardinality(Recent(a)) <= Cardinality(C \cup (Recent(a) \ C)) /\ Cardinality(Recent(a)) \in Nat
    BY <1>2, <2>5, RequestsFinite, FS_Subset
  <2>7. Cardinality(Recent(a) \ C) < LoginAttempts
    BY <2>1 DEF Window
  <2> QED  BY <1>1, <2>2, <2>4, <2>5, <2>6, <2>7
<1> QED  BY <1>3, <1>4

LEMMA SignedOutHolds == SessionsOK => SignedOutStaysOut
  BY DEF SessionsOK, SignedOut, Ended, SignedOutStaysOut, Identified, Ask

\* What a step does to accounts and sessions, when it does nothing by halves.
Whole ==
    /\ \A e \in DOMAIN users' \ DOMAIN users : users'[e].by \in DOMAIN sessions'
    /\ \A t \in DOMAIN sessions \ DOMAIN sessions' :
         \/ sessions[t].left = 0
         \/ \E r \in Requests :
                /\ request[r].cookie = t /\ request'[r].step = "answered"
                /\ (Ask(r).op = "logout" \/ r \in DOMAIN sessions' \ DOMAIN sessions)

LEMMA NothingHalfDoneStep == ASSUME SessionsOK, [Next]_vars PROVE Whole
<1>1. ASSUME users' = users, DOMAIN sessions' = DOMAIN sessions PROVE Whole
  BY <1>1 DEF Whole
<1>2. CASE Cleanup
  BY <1>2 DEF Whole, Cleanup, Restrict, SessionsOK, SessionsTyped
<1>3. CASE Tick \/ UNCHANGED vars
  BY <1>1, <1>3 DEF Tick, vars
<1>4. ASSUME NEW r \in Requests, Commit(r) PROVE Whole
  <2>1. request'[r].step = "answered" /\ r \notin DOMAIN sessions /\ r \in DOMAIN sessions'
    BY <1>4 DEF Commit, Answered, Step, With, SessionsOK, SessionsTyped, Progress, Requests
  <2>2. \A t \in DOMAIN sessions \ DOMAIN sessions' : request[r].cookie = t
    BY <1>4 DEF Commit, With, Restrict, Replaced
  <2>3. \A e \in DOMAIN users' \ DOMAIN users : users'[e].by = r
    BY <1>4 DEF Commit, With
  <2> QED  BY <2>1, <2>2, <2>3 DEF Whole
<1>5. ASSUME NEW r \in Requests, Logout(r) PROVE Whole
  <2>1. request'[r].step = "answered" /\ users' = users /\ asks[r].op = "logout"
    BY <1>5 DEF Logout, Answered, SessionsOK, SessionsTyped, Requests, Ask
  <2>2. \A t \in DOMAIN sessions \ DOMAIN sessions' : request[r].cookie = t
    BY <1>5 DEF Logout, Restrict
  <2> QED  BY <2>1, <2>2 DEF Whole, Ask
<1>6. ASSUME NEW r \in Requests,
             Send(r) \/ TooMany(r) \/ Admit(r) \/ Login(r) \/ Register(r) \/ InsertUser(r) \/ Fail(r)
             \/ GetCurrentUser(r) \/ Receive(r)
      PROVE  Whole
  BY <1>1, <1>6 DEF Send, TooMany, Admit, Login, Register, InsertUser, Fail, GetCurrentUser, Receive
<1>7. ASSUME NEW r \in Requests, Send(r) \/ Handle(r) \/ Receive(r) PROVE Whole
  BY <1>4, <1>5, <1>6, <1>7 DEF Handle
<1> QED  BY <1>2, <1>3, <1>7 DEF Next

(***************************************************************************)
(* Trips: one per key                                                      *)
(***************************************************************************)
CallSteps == {"unsent", "begun", "locked", "new", "inserting", "answered"}
CallAnswers == {"none", "invalid", "conflict", "city gone", "past", "unavailable", "saved"}
Sent == DOMAIN form

\* A trip is what its call asked for, and that call has been answered.
TripRows ==
    /\ trips = [t \in DOMAIN trips |-> trips[t]]
    /\ \A t \in DOMAIN trips : trips[t] \in [key : {form[t].key}, content : {form[t].content}, active : BOOLEAN]
    /\ DOMAIN trips \subseteq Sent /\ IsFiniteSet(DOMAIN trips)
    /\ \A t \in DOMAIN trips : call[t].step = "answered" /\ Trips!Valid(form[t].content)
    /\ \A s, t \in DOMAIN trips : form[s].key = form[t].key => s = t

CallsTyped ==
    call \in [Sent -> [step : CallSteps, known : SUBSET DOMAIN trips, answer : CallAnswers,
                       trip : {Trips!NoTrip} \cup DOMAIN trips]]

\* One transaction per key; one that goes on to insert knows that there is no trip.
Serialized ==
    /\ \A c \in Sent : call[c].step \in {"begun", "locked", "new", "inserting"} => Trips!Valid(form[c].content)
    /\ \A b, c \in Sent :
         /\ call[b].step \in Trips!InTransaction /\ call[c].step \in Trips!InTransaction
         /\ form[b].key = form[c].key
         => b = c
    /\ \A c \in Sent : call[c].step \in {"new", "inserting"} => \A t \in DOMAIN trips : form[t].key # form[c].key

\* The answers agree with what was saved before.
Agreed(c) ==
    /\ call[c].answer = "saved" =>
         /\ call[c].trip \in DOMAIN trips
         /\ form[call[c].trip].key = form[c].key /\ form[call[c].trip].content = form[c].content
    /\ \A t \in call[c].known :
         form[t].key = form[c].key /\ form[t].content = form[c].content => call[c].answer \in {"saved", "unavailable"}

AnswersAgree == \A c \in Sent : call[c].step = "answered" => Agreed(c)

TripsOK == TripRows /\ CallsTyped /\ Serialized /\ AnswersAgree

LEMMA InitTrips == Trips!Init => TripsOK
<1> SUFFICES ASSUME Trips!Init PROVE TripsOK  OBVIOUS
<1>1. DOMAIN trips = {} /\ trips = << >> /\ call = [c \in Sent |-> Trips!NotSent]
  BY DEF Trips!Init, Trips!Calls, Sent
<1>2. TripRows
  BY <1>1, FS_EmptySet DEF TripRows
<1>3. CallsTyped /\ Serialized /\ AnswersAgree
  BY <1>1 DEF CallsTyped, Serialized, AnswersAgree, Trips!NotSent, CallSteps, CallAnswers, Trips!InTransaction
<1> QED  BY <1>2, <1>3 DEF TripsOK

LEMMA SendTrips == ASSUME TripsOK, NEW c \in Sent, Trips!Send(c) PROVE TripsOK'
<1>1. form' = form /\ trips' = trips /\ Sent' = Sent
  BY DEF Trips!Send, Sent
<1> DEFINE ok == Trips!Valid(form[c].content)
<1>2. PICK x, a : /\ call' = [call EXCEPT ![c].step = x, ![c].answer = a, ![c].known = DOMAIN trips]
                  /\ IF ok THEN x = "begun" /\ a = "none" ELSE x = "answered" /\ a = "invalid"
  BY DEF Trips!Send
<1>3. call[c].step = "unsent" /\ call[c] \in [step : CallSteps, known : SUBSET DOMAIN trips, answer : CallAnswers,
                                              trip : {Trips!NoTrip} \cup DOMAIN trips]
  BY DEF Trips!Send, Trips!Step, TripsOK, CallsTyped
<1>4. x \in CallSteps /\ a \in CallAnswers
  BY <1>2 DEF CallSteps, CallAnswers
<1>5. CallsTyped' /\ \A b \in Sent : b # c => call'[b] = call[b]
  BY <1>1, <1>2, <1>4 DEF TripsOK, CallsTyped, Sent
<1>6. call'[c].step = x /\ call'[c].answer = a /\ call'[c].known = DOMAIN trips
  BY <1>2 DEF TripsOK, CallsTyped
<1>7. c \notin DOMAIN trips
  BY <1>3 DEF TripsOK, TripRows
<1>8. TripRows'
  BY <1>1, <1>5, <1>7 DEF TripsOK, TripRows
<1>9. Serialized'
  BY <1>1, <1>2, <1>5, <1>6 DEF TripsOK, Serialized, Trips!InTransaction, Trips!Valid
<1>10. Agreed(c)' \/ call'[c].step # "answered"
  BY <1>1, <1>2, <1>6 DEF Agreed, TripsOK, TripRows
<1>11. AnswersAgree'
  BY <1>1, <1>5, <1>10 DEF TripsOK, AnswersAgree, Agreed
<1> QED  BY <1>5, <1>8, <1>9, <1>11 DEF TripsOK

\* A call that goes on to the next step of its transaction.
LEMMA GoesTrips ==
    ASSUME TripsOK, NEW c \in Sent, NEW x \in {"locked", "new", "inserting"}, Trips!Goes(c, x),
           form' = form, trips' = trips,
           call[c].step \in {"begun", "locked", "new"},
           x = "locked" => \A b \in Sent : call[b].step \in Trips!InTransaction => form[b].key # form[c].key,
           x # "locked" => /\ call[c].step \in {"locked", "new"}
                           /\ \A t \in DOMAIN trips : form[t].key # form[c].key
    PROVE  TripsOK'
<1>1. call[c] \in [step : CallSteps, known : SUBSET DOMAIN trips, answer : CallAnswers,
                   trip : {Trips!NoTrip} \cup DOMAIN trips] /\ x \in CallSteps /\ Sent' = Sent
  BY DEF TripsOK, CallsTyped, CallSteps, Sent
<1>2. call' = [call EXCEPT ![c].step = x]
  BY DEF Trips!Goes
<1>3. CallsTyped' /\ \A b \in Sent : b # c => call'[b] = call[b]
  BY <1>1, <1>2 DEF TripsOK, CallsTyped, Sent
<1>4. call'[c].step = x
  BY <1>1, <1>2 DEF TripsOK, CallsTyped
<1>5. TripRows'
  BY <1>1, <1>3 DEF TripsOK, TripRows
<1>6. Serialized'
  BY <1>1, <1>3, <1>4 DEF TripsOK, Serialized, Trips!InTransaction, Trips!Valid
<1>7. AnswersAgree'
  BY <1>1, <1>3, <1>4 DEF TripsOK, AnswersAgree, Agreed
<1> QED  BY <1>3, <1>5, <1>6, <1>7 DEF TripsOK

\* A call that is answered, with the trips as they are.
LEMMA AnsweredTrips ==
    ASSUME TripsOK, NEW c \in Sent, NEW a \in CallAnswers, NEW t \in {Trips!NoTrip} \cup DOMAIN trips,
           call' = [call EXCEPT ![c].step = "answered", ![c].answer = a, ![c].trip = t],
           form' = form, trips' = trips, call[c].step # "answered",
           a = "saved" => t \in DOMAIN trips /\ form[t].key = form[c].key /\ form[t].content = form[c].content,
           a \in {"saved", "unavailable"} \/
             \A s \in DOMAIN trips : form[s].key = form[c].key => form[s].content # form[c].content
    PROVE  TripsOK'
<1>1. "answered" \in CallSteps /\ Sent' = Sent
  BY DEF CallSteps, Sent
<1>2. /\ CallsTyped' /\ TripRows'
      /\ \A b \in Sent : b # c => call'[b] = call[b]
      /\ call'[c].step = "answered" /\ call'[c].answer = a /\ call'[c].trip = t /\ call'[c].known = call[c].known
  <2>1. CallsTyped' /\ \A b \in Sent : b # c => call'[b] = call[b]
    BY <1>1 DEF TripsOK, CallsTyped, Sent
  <2>2. call'[c].step = "answered" /\ call'[c].answer = a /\ call'[c].trip = t /\ call'[c].known = call[c].known
    BY DEF TripsOK, CallsTyped
  <2>3. TripRows'
    <3>1. \A s \in DOMAIN trips : call'[s] = call[s]
      BY <2>1 DEF TripsOK, TripRows
    <3>2. TripRows /\ trips' = trips /\ form' = form
      BY DEF TripsOK
    <3>3. (DOMAIN trips \subseteq Sent)' /\ \A s \in DOMAIN trips : call'[s].step = "answered"
      BY <1>1, <3>1, <3>2 DEF TripRows
    <3>4. \A s \in DOMAIN trips : Trips!Valid(form[s].content)'
      BY <3>2 DEF TripRows, Trips!Valid
    <3> QED  BY <3>2, <3>3, <3>4 DEF TripRows
  <2> QED  BY <2>1, <2>2, <2>3
<1>3. Serialized'
  BY <1>1, <1>2 DEF TripsOK, Serialized, Trips!InTransaction, Trips!Valid
<1>4. call[c].known \subseteq DOMAIN trips
  BY DEF TripsOK, CallsTyped
<1>5. Agreed(c)'
  BY <1>2, <1>4 DEF Agreed
<1>6. AnswersAgree'
  <2> SUFFICES ASSUME NEW b \in Sent, call'[b].step = "answered" PROVE Agreed(b)'
    BY <1>1 DEF AnswersAgree
  <2>1. CASE b # c
    <3>1. call'[b] = call[b]
      BY <1>2, <2>1
    <3>2. Agreed(b)
      BY <3>1 DEF TripsOK, AnswersAgree
    <3> QED  BY <3>1, <3>2 DEF Agreed
  <2> QED  BY <1>5, <2>1
<1> QED  BY <1>2, <1>3, <1>6 DEF TripsOK

\* A refusal or an error leaves the trip of a call as it was, none.
LEMMA RefusedTrips ==
    ASSUME TripsOK, NEW c \in Sent, NEW a \in CallAnswers \ {"saved"}, Trips!Answers(c, a),
           form' = form, trips' = trips, call[c].step # "answered",
           a = "unavailable" \/
             \A s \in DOMAIN trips : form[s].key = form[c].key => form[s].content # form[c].content
    PROVE  TripsOK'
<1> DEFINE t == call[c].trip
<1>1. call[c] \in [step : CallSteps, known : SUBSET DOMAIN trips, answer : CallAnswers,
                   trip : {Trips!NoTrip} \cup DOMAIN trips]
  BY DEF TripsOK, CallsTyped
<1>2. [[call[c] EXCEPT !.step = "answered"] EXCEPT !.answer = a]
        = [[[call[c] EXCEPT !.step = "answered"] EXCEPT !.answer = a] EXCEPT !.trip = t]
  BY <1>1
<1>3. call' = [call EXCEPT ![c].step = "answered", ![c].answer = a, ![c].trip = t]
  BY <1>1, <1>2 DEF Trips!Answers, TripsOK, CallsTyped
<1>4. t \in {Trips!NoTrip} \cup DOMAIN trips
  BY <1>1
<1> HIDE DEF t
<1> QED  BY <1>3, <1>4, AnsweredTrips

LEMMA LockTrips == ASSUME TripsOK, NEW c \in Sent, Trips!Lock(c) PROVE TripsOK'
<1>1. /\ form' = form /\ trips' = trips /\ call[c].step = "begun" /\ Trips!Goes(c, "locked")
      /\ \A b \in Sent : call[b].step \in Trips!InTransaction => form[b].key # form[c].key
  BY DEF Trips!Lock, Trips!Step, Trips!Calls, Sent
<1> QED  BY <1>1, GoesTrips

\* What is found under the key was saved by a call with this key; there is one such trip.
LEMMA LookTrips == ASSUME TripsOK, NEW c \in Sent, Trips!Look(c) PROVE TripsOK'
<1>1. form' = form /\ trips' = trips /\ call[c].step = "locked"
  BY DEF Trips!Look, Trips!Step
<1>2. Trips!Earlier(c) = {t \in DOMAIN trips : form[t].key = form[c].key}
  BY DEF Trips!Earlier, TripsOK, TripRows
<1>3. CASE Trips!Earlier(c) = {}
  <2>1. Trips!Goes(c, "new")
    BY <1>3 DEF Trips!Look
  <2>2. \A t \in DOMAIN trips : form[t].key # form[c].key
    BY <1>2, <1>3
  <2> QED  BY <1>1, <2>1, <2>2, GoesTrips
<1>4. CASE Trips!Earlier(c) # {}
  <2>1. PICK t \in Trips!Earlier(c) :
          IF trips[t].content = form[c].content THEN Trips!Confirms(c, t) ELSE Trips!Answers(c, "conflict")
    BY <1>4 DEF Trips!Look, Trips!SameTrip
  <2>2. t \in DOMAIN trips /\ form[t].key = form[c].key /\ trips[t].content = form[t].content
    BY <1>2 DEF TripsOK, TripRows
  <2>3. CASE trips[t].content = form[c].content
    <3>1. call' = [call EXCEPT ![c].step = "answered", ![c].answer = "saved", ![c].trip = t]
      BY <2>1, <2>3 DEF Trips!Confirms
    <3>2. "saved" \in CallAnswers /\ t \in {Trips!NoTrip} \cup DOMAIN trips /\ form[t].content = form[c].content
      BY <2>2, <2>3 DEF CallAnswers
    <3> QED  BY <1>1, <2>2, <3>1, <3>2, AnsweredTrips
  <2>4. CASE trips[t].content # form[c].content
    <3>1. Trips!Answers(c, "conflict") /\ "conflict" \in CallAnswers \ {"saved"}
      BY <2>1, <2>4 DEF CallAnswers
    <3>2. \A s \in DOMAIN trips : form[s].key = form[c].key => form[s].content # form[c].content
      BY <2>2, <2>4 DEF TripsOK, TripRows
    <3> QED  BY <1>1, <3>1, <3>2, RefusedTrips
  <2> QED  BY <2>3, <2>4
<1> QED  BY <1>3, <1>4

LEMMA ReadCitiesTrips == ASSUME TripsOK, NEW c \in Sent, Trips!ReadCities(c) PROVE TripsOK'
<1>1. form' = form /\ trips' = trips /\ call[c].step = "new"
  BY DEF Trips!ReadCities, Trips!Step
<1>2. \A t \in DOMAIN trips : form[t].key # form[c].key
  BY <1>1 DEF TripsOK, Serialized
<1>3. Trips!Answers(c, "city gone") \/ Trips!Answers(c, "past") \/ Trips!Goes(c, "inserting")
  BY DEF Trips!ReadCities
<1>4. {"city gone", "past"} \subseteq CallAnswers \ {"saved"}
  BY DEF CallAnswers
<1>5. CASE Trips!Goes(c, "inserting")
  BY <1>1, <1>2, <1>5, GoesTrips
<1>6. ASSUME NEW a \in {"city gone", "past"}, Trips!Answers(c, a) PROVE TripsOK'
  <2>1. a \in CallAnswers \ {"saved"}
    BY <1>4
  <2> QED  BY <1>1, <1>2, <1>6, <2>1, RefusedTrips
<1> QED  BY <1>3, <1>5, <1>6

LEMMA FailTrips == ASSUME TripsOK, NEW c \in Sent, Trips!Fail(c) PROVE TripsOK'
<1>1. form' = form /\ trips' = trips /\ call[c].step # "answered" /\ Trips!Answers(c, "unavailable")
  BY DEF Trips!Fail, Trips!InTransaction
<1>2. "unavailable" \in CallAnswers \ {"saved"}
  BY DEF CallAnswers
<1> QED  BY <1>1, <1>2, RefusedTrips
\* The trip of a key is inserted by the one transaction that holds the key.
LEMMA InsertTrips == ASSUME TripsOK, NEW c \in Sent, Trips!Insert(c) PROVE TripsOK'
<1>1. form' = form /\ Sent' = Sent /\ call[c].step = "inserting"
  BY DEF Trips!Insert, Trips!Step, Sent
<1>2. trips' = [t \in DOMAIN trips \cup {c} |->
                  IF t = c THEN [key |-> form[c].key, content |-> form[c].content, active |-> TRUE] ELSE trips[t]]
  BY DEF Trips!Insert
<1>3. \A t \in DOMAIN trips : form[t].key # form[c].key
  BY <1>1 DEF TripsOK, Serialized
<1>4. call[c] \in [step : CallSteps, known : SUBSET DOMAIN trips, answer : CallAnswers,
                   trip : {Trips!NoTrip} \cup DOMAIN trips]
  BY DEF TripsOK, CallsTyped
<1>5. PICK a \in {"saved", "unavailable"}, t \in {c, call[c].trip} :
        /\ call' = [call EXCEPT ![c] = [@ EXCEPT !.step = "answered", !.answer = a, !.trip = t]]
        /\ a = "saved" => t = c
  <2>1. CASE Trips!Confirms(c, c)
    BY <2>1, <1>4 DEF Trips!Confirms, TripsOK, CallsTyped
  <2>2. CASE Trips!Answers(c, "unavailable")
    <3>1. [[call[c] EXCEPT !.step = "answered"] EXCEPT !.answer = "unavailable"]
            = [[[call[c] EXCEPT !.step = "answered"] EXCEPT !.answer = "unavailable"] EXCEPT !.trip = call[c].trip]
      BY <1>4
    <3> QED  BY <2>2, <3>1 DEF Trips!Answers, TripsOK, CallsTyped
  <2> QED  BY <2>1, <2>2 DEF Trips!Insert
<1>6. DOMAIN trips' = DOMAIN trips \cup {c} /\ trips'[c].active = TRUE
      /\ \A s \in DOMAIN trips : s # c => trips'[s] = trips[s]
  BY <1>2
<1>7. \A b \in Sent : b # c => call'[b] = call[b]
  BY <1>5 DEF TripsOK, CallsTyped
<1>8. call'[c].step = "answered" /\ call'[c].answer = a /\ call'[c].trip = t /\ call'[c].known = call[c].known
  BY <1>4, <1>5 DEF TripsOK, CallsTyped
<1>9. c \notin DOMAIN trips
  BY <1>1 DEF TripsOK, TripRows
<1>10. CallsTyped'
  <2>1. call'[c] \in [step : CallSteps, known : SUBSET DOMAIN trips', answer : CallAnswers,
                      trip : {Trips!NoTrip} \cup DOMAIN trips']
    BY <1>4, <1>5, <1>6 DEF TripsOK, CallsTyped, CallSteps, CallAnswers
  <2>2. \A b \in Sent : b # c => call'[b] \in [step : CallSteps, known : SUBSET DOMAIN trips', answer : CallAnswers,
                      trip : {Trips!NoTrip} \cup DOMAIN trips']
    BY <1>6, <1>7 DEF TripsOK, CallsTyped
  <2>3. call' = [b \in Sent |-> call'[b]]
    BY <1>5 DEF TripsOK, CallsTyped
  <2> QED  BY <1>1, <2>1, <2>2, <2>3 DEF CallsTyped
<1>11. TripRows'
  <2>1. trips' = [s \in DOMAIN trips' |-> trips'[s]]
        /\ \A s \in DOMAIN trips' : trips'[s] \in [key : {form[s].key}, content : {form[s].content}, active : BOOLEAN]
    BY <1>2, <1>9 DEF TripsOK, TripRows
  <2>2. IsFiniteSet(DOMAIN trips')
    BY <1>6, FS_AddElement DEF TripsOK, TripRows
  <2>3. \A s \in DOMAIN trips' : call'[s].step = "answered" /\ Trips!Valid(form[s].content)
    BY <1>1, <1>6, <1>7, <1>8 DEF TripsOK, TripRows, Serialized
  <2>4. \A s, u \in DOMAIN trips' : form[s].key = form[u].key => s = u
    BY <1>3, <1>6 DEF TripsOK, TripRows
  <2>5. DOMAIN trips' \subseteq Sent
    BY <1>6 DEF TripsOK, TripRows
  <2> QED  BY <1>1, <2>1, <2>2, <2>3, <2>4, <2>5 DEF TripRows, Trips!Valid
<1>12. Serialized'
  <2>1. \A b \in Sent : b # c /\ call[b].step \in Trips!InTransaction => form[b].key # form[c].key
    BY <1>1 DEF TripsOK, Serialized, Trips!InTransaction
  <2> QED  BY <1>1, <1>6, <1>7, <1>8, <2>1 DEF TripsOK, Serialized, Trips!InTransaction, Trips!Valid
<1>13. AnswersAgree'
  <2> SUFFICES ASSUME NEW b \in Sent, call'[b].step = "answered" PROVE Agreed(b)'
    BY <1>1 DEF AnswersAgree
  <2>1. CASE b = c
    BY <1>1, <1>3, <1>5, <1>6, <1>8, <2>1 DEF Agreed
  <2>2. CASE b # c
    <3>1. Agreed(b) /\ call'[b] = call[b]
      BY <1>7, <2>2 DEF TripsOK, AnswersAgree
    <3> QED  BY <1>1, <1>6, <3>1 DEF Agreed
  <2> QED  BY <2>1, <2>2
<1> QED  BY <1>10, <1>11, <1>12, <1>13 DEF TripsOK

LEMMA EndsTrips == ASSUME TripsOK, NEW t \in DOMAIN trips, Trips!TripEnds(t) PROVE TripsOK'
<1>1. form' = form /\ call' = call /\ Sent' = Sent /\ trips' = [trips EXCEPT ![t].active = FALSE]
  BY DEF Trips!TripEnds, Sent
<1>2. DOMAIN trips' = DOMAIN trips
  BY <1>1
<1>3. /\ trips' = [s \in DOMAIN trips' |-> trips'[s]]
      /\ \A s \in DOMAIN trips' : trips'[s] \in [key : {form[s].key}, content : {form[s].content}, active : BOOLEAN]
  <2>1. trips[t] \in [key : {form[t].key}, content : {form[t].content}, active : BOOLEAN]
    BY DEF TripsOK, TripRows
  <2>2. [trips[t] EXCEPT !.active = FALSE] \in [key : {form[t].key}, content : {form[t].content}, active : BOOLEAN]
    BY <2>1
  <2>3. trips'[t] = [trips[t] EXCEPT !.active = FALSE] /\ trips' = [s \in DOMAIN trips' |-> trips'[s]]
    BY <1>1 DEF TripsOK, TripRows
  <2>4. \A s \in DOMAIN trips : s # t => trips'[s] = trips[s]
    BY <1>1
  <2>5. \A s \in DOMAIN trips : trips[s] \in [key : {form[s].key}, content : {form[s].content}, active : BOOLEAN]
    BY DEF TripsOK, TripRows
  <2> QED  BY <1>2, <2>2, <2>3, <2>4, <2>5
<1>4. TripRows'
  BY <1>1, <1>2, <1>3 DEF TripsOK, TripRows
<1>5. CallsTyped' /\ Serialized' /\ AnswersAgree'
  BY <1>1, <1>2 DEF TripsOK, CallsTyped, Serialized, AnswersAgree, Agreed, Trips!Valid, Trips!InTransaction
<1> QED  BY <1>4, <1>5 DEF TripsOK

LEMMA NextTrips == TripsOK /\ [Trips!Next]_tripVars => TripsOK'
<1> SUFFICES ASSUME TripsOK, [Trips!Next]_tripVars PROVE TripsOK'  OBVIOUS
<1>1. ASSUME UNCHANGED <<form, call, trips>> PROVE TripsOK'
  BY <1>1 DEF TripsOK, TripRows, CallsTyped, Serialized, AnswersAgree, Agreed, Sent, Trips!Valid, Trips!InTransaction
<1>2. ASSUME NEW c \in Sent, Trips!Send(c) \/ Trips!CreateTrip(c) PROVE TripsOK'
  BY <1>2, SendTrips, LockTrips, LookTrips, ReadCitiesTrips, InsertTrips, FailTrips DEF Trips!CreateTrip
<1>3. ASSUME NEW city \in Cities, Trips!CityGoes(city) PROVE TripsOK'
  BY <1>1, <1>3 DEF Trips!CityGoes
<1>4. CASE Trips!DayPasses \/ Trips!ListTrips \/ UNCHANGED tripVars
  BY <1>1, <1>4 DEF Trips!DayPasses, Trips!ListTrips, tripVars
<1> QED  BY <1>2, <1>3, <1>4, EndsTrips DEF Trips!Next, Trips!Calls, Sent

LEMMA TripsAgree == TripsOK => RetriesAgree
  BY DEF TripsOK, TripRows, CallsTyped, AnswersAgree, Agreed, RetriesAgree, Trips!RetriesAgree, Trips!Calls, Sent

(***************************************************************************)
(* Trips: the pages of the list                                            *)
(***************************************************************************)
\* What stands in front of the elements of a finite set in order, and those at given places.
Rank(S, place) == [t \in S |-> Cardinality({s \in S : place[s] > place[t]})]
Places(S, place, k, n) == {t \in S : Rank(S, place)[t] \in k..(k + n)}

\* In a finite set in order, an element with k + n others in front of it leaves more than
\* n of them at the places from k to k + n: there are no gaps between places.
LEMMA NoGaps ==
    ASSUME NEW S, IsFiniteSet(S), NEW place \in [S -> Nat], \A s, t \in S : place[s] = place[t] => s = t,
           NEW k \in Nat, NEW n \in Nat, NEW last \in S, Rank(S, place)[last] >= k + n
    PROVE  Cardinality(Places(S, place, k, n)) > n
<1> DEFINE rank == Rank(S, place)
<1> DEFINE Front(t) == {s \in S : place[s] > place[t]}
<1> DEFINE N == Cardinality(S)
<1>1. N \in Nat /\ \A T \in SUBSET S : IsFiniteSet(T) /\ Cardinality(T) \in Nat /\ Cardinality(T) <= N
  BY FS_CardinalityType, FS_Subset
<1>2. ASSUME NEW t \in S PROVE rank[t] = Cardinality(Front(t)) /\ rank[t] \in 0..(N - 1)
  <2>1. rank[t] = Cardinality(Front(t))
    BY DEF Rank
  <2>2. Front(t) \subseteq S \ {t} /\ S \ {t} \subseteq S
    OBVIOUS
  <2>3. Cardinality(S \ {t}) = N - 1 /\ IsFiniteSet(S \ {t})
    BY FS_RemoveElement
  <2>4. Cardinality(Front(t)) <= N - 1
    BY <2>2, <2>3, FS_Subset
  <2>5. Cardinality(Front(t)) \in Nat
    BY <1>1, <2>2
  <2> QED  BY <1>1, <2>1, <2>4, <2>5
<1>3. ASSUME NEW s \in S, NEW t \in S, place[s] > place[t] PROVE rank[s] < rank[t]
  <2>1. Front(s) \subseteq Front(t) \ {s} /\ s \in Front(t) /\ Front(t) \subseteq S
    BY <1>3
  <2>2. IsFiniteSet(Front(t)) /\ Cardinality(Front(t)) \in Nat /\ Cardinality(Front(s)) \in Nat
    BY <1>1
  <2>3. Cardinality(Front(t) \ {s}) = Cardinality(Front(t)) - 1 /\ IsFiniteSet(Front(t) \ {s})
    BY <2>1, <2>2, FS_RemoveElement
  <2>4. Cardinality(Front(s)) <= Cardinality(Front(t) \ {s})
    BY <2>1, <2>3, FS_Subset
  <2> QED  BY <1>2, <2>2, <2>3, <2>4
<1>4. \A s, t \in S : rank[s] = rank[t] => s = t
  <2> SUFFICES ASSUME NEW s \in S, NEW t \in S, rank[s] = rank[t], s # t PROVE FALSE  OBVIOUS
  <2>1. place[s] > place[t] \/ place[t] > place[s]
    OBVIOUS
  <2>2. rank[s] \in Nat /\ rank[t] \in Nat
    BY <1>1, <1>2
  <2> QED  BY <1>3, <2>1, <2>2
<1>0. rank = [t \in S |-> rank[t]]
  BY DEF Rank
<1>5. rank \in [S -> 0..(N - 1)] /\ IsFiniteSet(0..(N - 1)) /\ Cardinality(0..(N - 1)) = N
  <2>1. rank \in [S -> 0..(N - 1)]
    BY <1>0, <1>2
  <2>2. IsFiniteSet(0..(N - 1)) /\ Cardinality(0..(N - 1)) = N
    <3>1. 0 \in Int /\ N - 1 \in Int /\ (0 > N - 1 => N = 0)
      BY <1>1
    <3> HIDE DEF N
    <3>2. IsFiniteSet(0..(N - 1)) /\ Cardinality(0..(N - 1)) = IF 0 > N - 1 THEN 0 ELSE (N - 1) - 0 + 1
      BY <3>1, FS_Interval
    <3> QED  BY <1>1, <3>1, <3>2
  <2> QED  BY <2>1, <2>2
<1>6. rank \in Injection(S, 0..(N - 1))
  BY <1>4, <1>5 DEF Injection, IsInjective
<1>7. rank \in Surjection(S, 0..(N - 1))
  BY <1>5, <1>6, FS_Injection
<1> DEFINE R == {t \in S : rank[t] \in k..(k + n)}
<1> DEFINE g == [t \in R |-> rank[t]]
<1>8. k..(k + n) \subseteq 0..(N - 1)
  <2>1. rank[last] >= k + n /\ rank[last] <= N - 1 /\ rank[last] \in Int
    <3>1. rank[last] >= k + n /\ rank[last] \in 0..(N - 1)
      BY <1>2
    <3> HIDE DEF N, rank
    <3> QED  BY <1>1, <3>1
  <2> HIDE DEF N, rank
  <2> QED  BY <1>1, <2>1
<1>9. \A i \in k..(k + n) : \E t \in R : g[t] = i
  BY <1>7, <1>8 DEF Surjection
<1>10. g \in Surjection(R, k..(k + n))
  BY <1>9 DEF Surjection
<1>11. IsFiniteSet(R) /\ Cardinality(R) \in Nat
  BY <1>1
<1>12. Cardinality(k..(k + n)) <= Cardinality(R)
  BY <1>10, <1>11, FS_Surjection
<1>13. Cardinality(k..(k + n)) = n + 1
  BY FS_Interval
<1> QED  BY <1>11, <1>12, <1>13 DEF Places

Has(t) == \E i \in DOMAIN begun : begun[i] = t

\* Every trip has its place in the order in which the transactions began.
Ordered ==
    /\ begun \in Seq(Sent)
    /\ \A i, j \in DOMAIN begun : begun[i] = begun[j] => i = j
    /\ \A c \in Sent : Has(c) => call[c].step # "unsent"
    /\ \A c \in Sent : call[c].step \in {"begun", "locked", "new", "inserting"} => Has(c)
    /\ \A t \in DOMAIN trips : Has(t)

InFront(t) == {s \in DOMAIN trips : Trips!Newer(s, t)}

\* What was there at the first page and has not been seen lies on the pages to come.
Walked ==
    /\ walk \in [all : BOOLEAN, offset : Nat, first : SUBSET DOMAIN trips, seen : SUBSET DOMAIN trips, more : BOOLEAN]
    /\ walk.all => \A t \in walk.first \ walk.seen : walk.more /\ Cardinality(InFront(t)) >= walk.offset

ListOK == Ordered /\ Walked

LEMMA InitList == Trips!Init => ListOK
<1> SUFFICES ASSUME Trips!Init PROVE ListOK  OBVIOUS
<1>1. trips = << >> /\ begun = << >> /\ call = [c \in Sent |-> Trips!NotSent]
  BY DEF Trips!Init, Trips!Calls, Sent
<1>4. walk \in [all : BOOLEAN, offset : {0}, first : {{}}, seen : {{}}, more : {TRUE}]
  BY DEF Trips!Init
<1>2. Ordered
  BY <1>1 DEF Ordered, Has, Trips!NotSent
<1>3. Walked
  <2>1. /\ walk.first = {} /\ walk.seen = {} /\ walk.offset = 0 /\ walk.all \in BOOLEAN /\ walk.more = TRUE
    BY <1>4
  <2>2. walk \in [all : BOOLEAN, offset : Nat, first : SUBSET DOMAIN trips, seen : SUBSET DOMAIN trips, more : BOOLEAN]
    BY <1>4, 0 \in Nat, {} \in SUBSET DOMAIN trips, TRUE \in BOOLEAN
  <2> QED  BY <2>1, <2>2 DEF Walked
<1> QED  BY <1>2, <1>3 DEF ListOK

\* The sets in front of trips are finite.
LEMMA FrontFinite ==
    ASSUME TripsOK
    PROVE  \A T \in SUBSET DOMAIN trips : IsFiniteSet(T) /\ Cardinality(T) \in Nat
BY FS_Subset, FS_CardinalityType DEF TripsOK, TripRows

\* A call that goes on without a trip leaves the list as it was.
LEMMA SameList ==
    ASSUME ListOK, form' = form, begun' = begun, walk' = walk, DOMAIN trips' = DOMAIN trips,
           \A c \in Sent : call'[c].step = call[c].step \/
                           (call[c].step # "unsent" /\ Has(c) /\ call'[c].step # "unsent")
                           \/ (call[c].step \notin {"begun", "locked", "new", "inserting"} /\ call'[c].step = "answered")
    PROVE  ListOK'
<1>1. Sent' = Sent /\ \A t : (Has(t)' <=> Has(t)) /\ InFront(t)' = InFront(t)
  BY DEF Sent, Has, InFront, Trips!Newer
<1>2. Ordered'
  BY <1>1 DEF ListOK, Ordered
<1>3. Walked'
  BY <1>1 DEF ListOK, Walked
<1> QED  BY <1>2, <1>3 DEF ListOK

LEMMA SendList == ASSUME TripsOK, ListOK, NEW c \in Sent, Trips!Send(c) PROVE ListOK'
<1>1. form' = form /\ trips' = trips /\ walk' = walk /\ Sent' = Sent /\ call[c].step = "unsent"
  BY DEF Trips!Send, Sent, Trips!Step
<1> DEFINE ok == Trips!Valid(form[c].content)
<1>2. PICK x, a : /\ call' = [call EXCEPT ![c].step = x, ![c].answer = a, ![c].known = DOMAIN trips]
                  /\ IF ok THEN x = "begun" /\ a = "none" ELSE x = "answered" /\ a = "invalid"
  BY DEF Trips!Send
<1>3. call'[c].step = x /\ \A b \in Sent : b # c => call'[b] = call[b]
  BY <1>2 DEF TripsOK, CallsTyped
<1>4. begun \in Seq(Sent) /\ ~Has(c) /\ c \notin DOMAIN trips
  BY <1>1 DEF ListOK, Ordered, TripsOK, TripRows
<1>5. CASE ~ok
  <2>1. begun' = begun /\ x = "answered"
    BY <1>2, <1>5 DEF Trips!Send
  <2> QED  BY <1>1, <1>3, <2>1, SameList
<1>6. CASE ok
  <2>1. begun' = Append(begun, c) /\ x = "begun"
    BY <1>2, <1>6 DEF Trips!Send
  <2>2. /\ begun' \in Seq(Sent) /\ DOMAIN begun' = DOMAIN begun \cup {Len(begun) + 1} /\ begun'[Len(begun) + 1] = c
        /\ \A i \in DOMAIN begun : begun'[i] = begun[i] /\ begun[i] # c /\ i # Len(begun) + 1
    BY <1>4, <2>1 DEF Has
  <2>3. \A t : Has(t)' <=> Has(t) \/ t = c
    BY <2>2 DEF Has
  <2>4. Ordered'
    BY <1>1, <1>3, <1>4, <2>1, <2>2, <2>3 DEF ListOK, Ordered
  <2>5. ASSUME NEW s \in DOMAIN trips, NEW t \in DOMAIN trips PROVE Trips!Newer(s, t)' <=> Trips!Newer(s, t)
    BY <1>4, <2>2 DEF Trips!Newer
  <2>6. \A t \in DOMAIN trips : InFront(t)' = InFront(t)
    BY <1>1, <2>5 DEF InFront
  <2>7. Walked'
    BY <1>1, <2>6 DEF ListOK, Walked
  <2> QED  BY <2>4, <2>7 DEF ListOK
<1> QED  BY <1>5, <1>6

\* A trip that commits late comes in somewhere, and pushes what is behind it back.
LEMMA InsertList == ASSUME TripsOK, TripsOK', ListOK, NEW c \in Sent, Trips!Insert(c) PROVE ListOK'
<1>1. form' = form /\ walk' = walk /\ begun' = begun /\ Sent' = Sent /\ call[c].step = "inserting"
      /\ DOMAIN trips' = DOMAIN trips \cup {c}
  BY DEF Trips!Insert, Sent, Trips!Step
<1>2. call'[c].step = "answered" /\ \A b \in Sent : b # c => call'[b] = call[b]
  BY DEF Trips!Insert, Trips!Confirms, Trips!Answers, TripsOK, CallsTyped
<1>3. Has(c) /\ \A t : Has(t)' <=> Has(t)
  BY <1>1 DEF ListOK, Ordered, Has
<1>4. Ordered'
  BY <1>1, <1>2, <1>3 DEF ListOK, Ordered
<1>5. ASSUME NEW t \in DOMAIN trips
      PROVE  Cardinality(InFront(t)') >= Cardinality(InFront(t)) /\ Cardinality(InFront(t)') \in Nat
             /\ Cardinality(InFront(t)) \in Nat
  <2>1. InFront(t) \subseteq InFront(t)' /\ InFront(t)' \subseteq DOMAIN trips' /\ InFront(t) \subseteq DOMAIN trips
    BY <1>1 DEF InFront, Trips!Newer
  <2>2. IsFiniteSet(DOMAIN trips') /\ IsFiniteSet(DOMAIN trips)
    BY DEF TripsOK, TripRows
  <2>3. IsFiniteSet(InFront(t)')
    BY <2>1, <2>2, FS_Subset
  <2> QED  BY <2>1, <2>2, <2>3, FS_Subset, FS_CardinalityType
<1>6. Walked'
  BY <1>1, <1>5 DEF ListOK, Walked
<1> QED  BY <1>4, <1>6 DEF ListOK

LEMMA SameCardinality == \A S : Trips!Cardinality(S) = Cardinality(S)
  BY Zenon DEF Trips!Cardinality, Cardinality

LEMMA AheadInFront == ASSUME walk.all PROVE \A t : Trips!Ahead(t) = Cardinality(InFront(t))
<1>1. Trips!Listed(walk.all) = DOMAIN trips
  BY DEF Trips!Listed
<1> SUFFICES ASSUME NEW t PROVE Trips!Ahead(t) = Cardinality(InFront(t))  OBVIOUS
<1>2. {s \in Trips!Listed(walk.all) : Trips!Newer(s, t)} = InFront(t)
  BY <1>1 DEF InFront
<1> QED  BY <1>2, SameCardinality DEF Trips!Ahead

\* In the list of all trips the rows of a page have no gap, so one row beyond it tells of every other.
LEMMA MoreTells ==
    ASSUME TripsOK, ListOK, walk.all, NEW t \in DOMAIN trips, Cardinality(InFront(t)) >= walk.offset + PageSize
    PROVE  Trips!More
<1> DEFINE S == DOMAIN trips
<1> DEFINE place == [s \in S |-> CHOOSE i \in DOMAIN begun : begun[i] = s]
<1> DEFINE k == walk.offset
<1>1. PageSize \in Nat /\ k \in Nat /\ IsFiniteSet(S) /\ t \in S
  BY PagesAreNotEmpty DEF ListOK, Walked, TripsOK, TripRows
<1>2. ASSUME NEW s \in S PROVE place[s] \in DOMAIN begun /\ begun[place[s]] = s
  BY DEF ListOK, Ordered, Has
<1>3. DOMAIN begun \subseteq Nat
  BY DEF ListOK, Ordered
<1>4. place \in [S -> Nat] /\ \A s, u \in S : place[s] = place[u] => s = u
  BY <1>2, <1>3
<1>5. ASSUME NEW s \in S, NEW u \in S
      PROVE  Trips!Newer(s, u) <=> place[s] > place[u]
  <2>1. \A i, j \in DOMAIN begun : begun[i] = s /\ begun[j] = u => i = place[s] /\ j = place[u]
    BY <1>2 DEF ListOK, Ordered
  <2> HIDE DEF place
  <2> QED  BY <1>2, <2>1 DEF Trips!Newer
<1> HIDE DEF place
<1>6. ASSUME NEW u \in S PROVE Trips!Ahead(u) = Rank(S, place)[u]
  <2>1. InFront(u) = {s \in S : place[s] > place[u]}
    BY <1>5 DEF InFront
  <2> QED  BY <2>1, AheadInFront DEF Rank
<1>7. Rank(S, place)[t] >= k + PageSize
  BY <1>1, <1>6, AheadInFront
<1> HIDE DEF S, k
<1>8. Cardinality(Places(S, place, k, PageSize)) > PageSize
  BY <1>1, <1>4, <1>7, NoGaps
<1>9. Trips!Listed(walk.all) = S
  BY DEF Trips!Listed, S
<1>10. Trips!Rows = {u \in S : Trips!Ahead(u) \in k..(k + PageSize)}
  BY <1>9, Zenon DEF Trips!Rows, k
<1>11. Trips!Rows = Places(S, place, k, PageSize)
  BY <1>6, <1>10 DEF Places
<1> QED  BY <1>8, <1>11, SameCardinality DEF Trips!More

LEMMA ListTripsList == ASSUME TripsOK, ListOK, Trips!ListTrips PROVE ListOK'
<1>1. UNCHANGED <<form, call, trips, begun>> /\ walk.more
  BY DEF Trips!ListTrips
<1>2. walk \in [all : BOOLEAN, offset : Nat, first : SUBSET DOMAIN trips, seen : SUBSET DOMAIN trips, more : BOOLEAN]
  BY DEF ListOK, Walked
<1>3. Trips!Page \subseteq DOMAIN trips /\ Trips!Listed(walk.all) \subseteq DOMAIN trips /\ Trips!More \in BOOLEAN
      /\ PageSize \in Nat \ {0}
  BY PagesAreNotEmpty DEF Trips!Page, Trips!Rows, Trips!Listed, Trips!More
<1>4. PICK first \in SUBSET DOMAIN trips, more \in BOOLEAN :
        /\ first = IF walk.offset = 0 THEN Trips!Listed(walk.all) ELSE walk.first
        /\ more = Trips!More
        /\ walk' = [walk EXCEPT !.offset = walk.offset + PageSize, !.seen = walk.seen \cup Trips!Page,
                                !.more = more, !.first = first]
  <2>1. (IF walk.offset = 0 THEN Trips!Listed(walk.all) ELSE walk.first) \in SUBSET DOMAIN trips
    BY <1>2, <1>3
  <2> QED  BY <1>3, <2>1, Zenon DEF Trips!ListTrips
<1>5. first \subseteq DOMAIN trips
  OBVIOUS
<1>6. /\ walk' \in [all : BOOLEAN, offset : Nat, first : SUBSET DOMAIN trips, seen : SUBSET DOMAIN trips, more : BOOLEAN]
      /\ walk'.all = walk.all /\ walk'.offset = walk.offset + PageSize /\ walk'.seen = walk.seen \cup Trips!Page
      /\ walk'.more = more /\ walk'.first = first
  <2>1. walk.offset + PageSize \in Nat /\ walk.seen \cup Trips!Page \in SUBSET DOMAIN trips
    BY <1>2, <1>3
  <2>2. walk' = [walk EXCEPT !.offset = walk.offset + PageSize, !.seen = walk.seen \cup Trips!Page,
                             !.more = more, !.first = first]
    BY <1>4
  <2>3. walk' \in [all : BOOLEAN, offset : Nat, first : SUBSET DOMAIN trips, seen : SUBSET DOMAIN trips, more : BOOLEAN]
    BY <1>2, <2>1, <2>2
  <2>4. /\ walk'.all = walk.all /\ walk'.offset = walk.offset + PageSize /\ walk'.seen = walk.seen \cup Trips!Page
        /\ walk'.more = more /\ walk'.first = first
    BY <1>2, <2>2
  <2> QED  BY <2>3, <2>4
<1>7. ASSUME walk.all, NEW t \in first \ walk'.seen PROVE Trips!More /\ Cardinality(InFront(t)) >= walk.offset + PageSize
  <2>1. t \in DOMAIN trips /\ t \notin walk.seen /\ t \notin Trips!Page
    BY <1>5, <1>6
  <2>2. Trips!Listed(walk.all) = DOMAIN trips
    BY <1>7 DEF Trips!Listed
  <2>3. Trips!Ahead(t) = Cardinality(InFront(t)) /\ Cardinality(InFront(t)) \in Nat
    <3>1. Trips!Ahead(t) = Cardinality(InFront(t))
      BY <1>7, AheadInFront
    <3>2. InFront(t) \subseteq DOMAIN trips
      BY DEF InFront
    <3> QED  BY <3>1, <3>2, FrontFinite
  <2>4. Cardinality(InFront(t)) >= walk.offset
    <3>1. CASE walk.offset = 0
      BY <2>3, <3>1
    <3>2. CASE walk.offset # 0
      <4>1. t \in walk.first
        BY <1>4, <1>7, <3>2
      <4> QED  BY <1>7, <2>1, <4>1 DEF ListOK, Walked
    <3> QED  BY <3>1, <3>2
  <2>5. Cardinality(InFront(t)) >= walk.offset + PageSize
    BY <1>2, <1>3, <2>1, <2>2, <2>3, <2>4 DEF Trips!Page, Trips!Rows
  <2>6. Trips!More
    BY <1>7, <2>1, <2>5, MoreTells
  <2> QED  BY <2>5, <2>6
<1>8. DOMAIN trips' = DOMAIN trips /\ Sent' = Sent /\ \A t : InFront(t)' = InFront(t)
  BY <1>1 DEF Sent, InFront, Trips!Newer
<1>9. Walked'
  BY <1>4, <1>6, <1>7, <1>8 DEF Walked
<1>10. Ordered'
  BY <1>1, <1>8 DEF ListOK, Ordered, Has
<1> QED  BY <1>9, <1>10 DEF ListOK

LEMMA NextList == TripsOK /\ ListOK /\ [Trips!Next]_tripVars => ListOK'
<1> SUFFICES ASSUME TripsOK, ListOK, [Trips!Next]_tripVars PROVE ListOK'  OBVIOUS
<1>1. ASSUME UNCHANGED <<form, call, begun, walk>>, DOMAIN trips' = DOMAIN trips PROVE ListOK'
  BY <1>1, SameList
<1>2. ASSUME NEW c \in Sent, Trips!CreateTrip(c) PROVE ListOK'
  <2>1. CASE Trips!Insert(c)
    BY <2>1, InsertTrips, InsertList
  <2>2. CASE ~Trips!Insert(c)
    <3>1. UNCHANGED <<form, trips, begun, walk>> /\ call[c].step \in {"begun", "locked", "new", "inserting"}
      BY <1>2, <2>2 DEF Trips!CreateTrip, Trips!Lock, Trips!Look, Trips!ReadCities, Trips!Fail, Trips!Step,
         Trips!InTransaction
    <3>3. call'[c].step # "unsent" /\ \A b \in Sent : b # c => call'[b] = call[b]
      <4>1. \/ \E x \in {"locked", "new", "inserting"} : Trips!Goes(c, x)
            \/ \E a : Trips!Answers(c, a)
            \/ \E t : Trips!Confirms(c, t)
        BY <1>2, <2>2 DEF Trips!CreateTrip, Trips!Lock, Trips!Look, Trips!ReadCities, Trips!Fail
      <4> QED  BY <4>1 DEF Trips!Goes, Trips!Answers, Trips!Confirms, TripsOK, CallsTyped
    <3>2. Has(c)
      BY <3>1 DEF ListOK, Ordered
    <3> QED  BY <3>1, <3>2, <3>3, SameList
  <2> QED  BY <2>1, <2>2
<1>3. ASSUME NEW t \in DOMAIN trips, Trips!TripEnds(t) PROVE ListOK'
  BY <1>1, <1>3 DEF Trips!TripEnds
<1>4. ASSUME NEW city \in Cities, Trips!CityGoes(city) PROVE ListOK'
  BY <1>1, <1>4 DEF Trips!CityGoes
<1>5. CASE Trips!DayPasses \/ UNCHANGED tripVars
  BY <1>1, <1>5 DEF Trips!DayPasses, tripVars
<1>6. ASSUME NEW c \in Sent, Trips!Send(c) \/ Trips!CreateTrip(c) PROVE ListOK'
  BY <1>2, <1>6, SendList
<1> QED  BY <1>3, <1>4, <1>5, <1>6, ListTripsList DEF Trips!Next, Trips!Calls, Sent

(***************************************************************************)
(* Routes: the schemes of what is saved                                    *)
(***************************************************************************)
Lists == Seq(STRING) \cup Seq([steps : Nat, warnings : Nat])

LEMMA ListsAreSeqs ==
    ASSUME NEW cs \in Lists
    PROVE  /\ Len(cs) \in Nat /\ DOMAIN cs = 1..Len(cs)
           /\ IsFiniteSet(DOMAIN cs)
<1>1. Len(cs) \in Nat /\ DOMAIN cs = 1..Len(cs)
  BY DEF Lists
<1> QED  BY <1>1, FS_Interval

\* A set of numbers has a smallest one.
LEMMA Smallest ==
    ASSUME NEW S \in SUBSET Nat, S # {}
    PROVE  \E m \in S : \A j \in S : m <= j
<1>1. IsWellFoundedOn(OpToRel(<, Nat), Nat)
  BY NatLessThanWellFounded
<1>2. PICK m \in S : \A j \in S : <<j, m>> \notin OpToRel(<, Nat)
  BY <1>1, WFMin
<1>3. ASSUME NEW j \in S PROVE m <= j
  <2>1. <<j, m>> \in Nat \X Nat /\ <<j, m>>[1] = j /\ <<j, m>>[2] = m
    OBVIOUS
  <2>2. ~(j < m)
    BY <1>2, <2>1 DEF OpToRel
  <2> QED  BY <2>2
<1> QED  BY <1>3

LEMMA SameCount == \A S : Routes!Cardinality(S) = Cardinality(S)
  BY DEF Routes!Cardinality, Cardinality

\* A finite set of numbers is counted off from its smallest.
LEMMA CountedOff ==
    ASSUME NEW S \in SUBSET Nat, IsFiniteSet(S)
    PROVE  /\ \A k \in 1..Cardinality(S) : Routes!Ascending(S)[k] \in S
           /\ \A i \in S : \E k \in 1..Cardinality(S) : Routes!Ascending(S)[k] = i
           /\ \A j, k \in 1..Cardinality(S) : j < k => Routes!Ascending(S)[j] < Routes!Ascending(S)[k]
<1> DEFINE N == Cardinality(S)
           below(i) == {j \in S : j < i}
           rank == [i \in S |-> Cardinality(below(i))]
           a == Routes!Ascending(S)
<1>1. N \in Nat
  BY FS_CardinalityType
<1>2. ASSUME NEW i \in S PROVE IsFiniteSet(below(i)) /\ Cardinality(below(i)) \in 0..(N - 1)
  <2>1. below(i) \subseteq S /\ i \notin below(i) /\ below(i) # S
    OBVIOUS
  <2>2. IsFiniteSet(below(i)) /\ Cardinality(below(i)) \in Nat /\ Cardinality(below(i)) < N
    BY <2>1, FS_Subset, FS_CardinalityType
  <2> HIDE DEF below, N
  <2> QED  BY <1>1, <2>2
<1>3. ASSUME NEW i \in S, NEW j \in S, i < j PROVE rank[i] < rank[j]
  <2>1. i \in Nat /\ j \in Nat
    OBVIOUS
  <2>2. below(i) \subseteq below(j) /\ i \in below(j) /\ i \notin below(i)
    <3>1. \A h \in S : h \in Nat
      OBVIOUS
    <3>2. \A h \in S : h < i => h < j
      BY <1>3, <2>1, <3>1
    <3>3. ~(i < i)
      BY <2>1
    <3> QED  BY <1>3, <3>2, <3>3
  <2>3. IsFiniteSet(below(j)) /\ Cardinality(below(i)) \in Nat /\ Cardinality(below(j)) \in Nat
    BY <1>1, <1>2
  <2>4. Cardinality(below(i)) <= Cardinality(below(j)) /\ Cardinality(below(i)) # Cardinality(below(j))
    BY <2>2, <2>3, FS_Subset
  <2> QED  BY <2>3, <2>4
<1>4. rank \in [S -> 0..(N - 1)]
  BY <1>2
<1>5. ASSUME NEW i \in S, NEW j \in S, rank[i] = rank[j] PROVE i = j
  <2>1. rank[i] \in Nat /\ rank[j] \in Nat
    BY <1>2
  <2> QED  BY <1>3, <1>5, <2>1
<1>6. rank \in Injection(S, 0..(N - 1))
  BY <1>4, <1>5 DEF Injection, IsInjective
<1>7. IsFiniteSet(0..(N - 1)) /\ Cardinality(0..(N - 1)) = N
  <2> HIDE DEF N
  <2>1. 0 \in Int /\ N - 1 \in Int /\ (IF 0 > N - 1 THEN 0 ELSE (N - 1) - 0 + 1) = N
    BY <1>1
  <2> QED  BY <2>1, FS_Interval
<1>8. rank \in Surjection(S, 0..(N - 1))
  BY <1>6, <1>7, FS_Injection
<1>9. \A k \in 0..(N - 1) : \E i \in S : rank[i] = k
  BY <1>8 DEF Surjection
<1>10. ASSUME NEW k \in 1..N PROVE a[k] \in S /\ rank[a[k]] = k - 1
  <2>1. PICK i \in S : rank[i] = k - 1
    <3>1. k - 1 \in 0..(N - 1)
      BY <1>1
    <3> QED  BY <1>9, <3>1
  <2>2. a[k] = CHOOSE i1 \in S : Cardinality(below(i1)) = k - 1
    BY SameCount DEF Routes!Ascending
  <2> QED  BY <2>1, <2>2
<1>11. ASSUME NEW i \in S PROVE \E k \in 1..N : a[k] = i
  <2>1. rank[i] + 1 \in 1..N /\ (rank[i] + 1) - 1 = rank[i]
    BY <1>1, <1>2
  <2> QED  BY <1>5, <1>10, <2>1
<1>12. ASSUME NEW j \in 1..N, NEW k \in 1..N, j < k PROVE a[j] < a[k]
  <2>1. a[j] \in S /\ a[k] \in S /\ rank[a[j]] = j - 1 /\ rank[a[k]] = k - 1
    BY <1>10
  <2>3. a[k] < a[j] => rank[a[k]] < rank[a[j]]
    BY <1>3, <2>1
  <2> HIDE DEF a, rank, N
  <2>2. /\ j \in 1..N /\ k \in 1..N
        /\ a[j] \in Nat /\ a[k] \in Nat
    <3>1. \A h \in S : h \in Nat
      OBVIOUS
    <3> QED  BY <2>1, <3>1
  <2> QED  BY <1>12, <2>1, <2>2, <2>3
<1> QED  BY <1>10, <1>11, <1>12

\* The schemes in their order stand for all that is saved, each candidate for one of them.
WellMade(s, cs, all) ==
    /\ all \in Seq(SUBSET DOMAIN cs)
    /\ \A c \in DOMAIN cs : \E i \in DOMAIN all : c \in all[i]
    /\ \A i, k \in DOMAIN all : i # k => all[i] \cap all[k] = {}
    /\ \A i, k \in DOMAIN all : i < k => \E c \in all[i] : \A d \in all[k] : c < d
    /\ s = "graph" => \A i \in DOMAIN all : \A c, d \in all[i] : c # d => cs[c] = cs[d] /\ cs[c] # ""

LEMMA GroupedWell == ASSUME NEW cs \in Lists PROVE WellMade("graph", cs, Routes!Grouped(cs))
<1> DEFINE F == Routes!Firsts(cs)
           a == Routes!Ascending(F)
           N == Cardinality(F)
           all == Routes!Grouped(cs)
           of(i) == Routes!SchemeOf(cs, i)
<1>1. DOMAIN cs \subseteq Nat /\ F \subseteq DOMAIN cs /\ IsFiniteSet(F) /\ F \in SUBSET Nat /\ N \in Nat
  BY ListsAreSeqs, FS_Subset, FS_CardinalityType DEF Routes!Firsts
<1>2. /\ \A k \in 1..N : a[k] \in F
      /\ \A i \in F : \E k \in 1..N : a[k] = i
      /\ \A j, k \in 1..N : j < k => a[j] < a[k]
  BY <1>1, CountedOff
<1>3. all = [k \in 1..N |-> of(a[k])]
  BY SameCount DEF Routes!Grouped
<1>4. \A i \in DOMAIN cs : i \in of(i) /\ of(i) \subseteq DOMAIN cs
  BY DEF Routes!SchemeOf, Routes!Key
<1>5. \A i, j \in DOMAIN cs : j \in of(i) => of(i) = of(j)
  BY DEF Routes!SchemeOf, Routes!Key
<1>6. \A i \in DOMAIN cs : \A c, d \in of(i) : c # d => cs[c] = cs[d] /\ cs[c] # ""
  BY DEF Routes!SchemeOf, Routes!Key
<1>7. ASSUME NEW c \in DOMAIN cs PROVE \E i \in F : c \in of(i)
  <2>1. PICK m \in of(c) : \A j \in of(c) : m <= j
    <3>1. of(c) \in SUBSET Nat /\ of(c) # {}
      BY <1>1, <1>4
    <3> QED  BY <3>1, Smallest
  <2>2. m \in DOMAIN cs /\ of(m) = of(c)
    BY <1>4, <1>5, <2>1
  <2>3. m \in F
    BY <2>1, <2>2 DEF Routes!Firsts
  <2> QED  BY <1>4, <2>2, <2>3
<1>8. \A k \in 1..N : a[k] \in DOMAIN cs /\ all[k] = of(a[k])
  BY <1>1, <1>2, <1>3
<1>9. all \in Seq(SUBSET DOMAIN cs) /\ DOMAIN all = 1..N
  <2> HIDE DEF N, a, all
  <2>1. all \in [1..N -> SUBSET DOMAIN cs]
    BY <1>3, <1>4, <1>8
  <2> QED  BY <1>1, <2>1
<1>10. ASSUME NEW c \in DOMAIN cs PROVE \E i \in DOMAIN all : c \in all[i]
  <2>1. PICK i \in F : c \in of(i)
    BY <1>7
  <2>2. PICK k \in 1..N : a[k] = i
    BY <1>2
  <2> QED  BY <1>8, <1>9, <2>1, <2>2
<1>11. \A i, k \in 1..N : i # k => a[i] # a[k]
  <2>1. \A k \in 1..N : a[k] \in Nat /\ k \in Nat
    BY <1>1, <1>2
  <2> HIDE DEF a, N
  <2> QED  BY <1>1, <1>2, <2>1
<1>12. ASSUME NEW i \in F, NEW k \in F, i # k PROVE of(i) \cap of(k) = {} /\ (i < k => \A d \in of(k) : i < d)
  <2>1. i \in DOMAIN cs /\ k \in DOMAIN cs /\ i \in Nat /\ k \in Nat /\ of(k) \subseteq Nat
    BY <1>1, <1>4
  <2>2. (\A j \in of(i) : i <= j) /\ \A j \in of(k) : k <= j
    BY DEF Routes!Firsts
  <2>3. of(i) # of(k)
    BY <1>4, <1>12, <2>1, <2>2
  <2>4. of(i) \cap of(k) = {}
    BY <1>4, <1>5, <2>1, <2>3
  <2> QED  BY <2>1, <2>2, <2>4
<1>13. \A i, k \in DOMAIN all : i # k => all[i] \cap all[k] = {}
  BY <1>2, <1>8, <1>9, <1>11, <1>12
<1>14. ASSUME NEW i \in DOMAIN all, NEW k \in DOMAIN all, i < k PROVE \E c \in all[i] : \A d \in all[k] : c < d
  <2>1. a[i] \in F /\ a[k] \in F /\ a[i] < a[k] /\ a[i] # a[k] /\ i # k
    BY <1>1, <1>2, <1>9, <1>11, <1>14
  <2>2. a[i] \in all[i] /\ all[k] = of(a[k])
    BY <1>4, <1>8, <1>9
  <2> QED  BY <1>12, <2>1, <2>2
<1>15. \A i \in DOMAIN all : \A c, d \in all[i] : c # d => cs[c] = cs[d] /\ cs[c] # ""
  <2>1. ASSUME NEW i \in 1..N PROVE \A c, d \in all[i] : c # d => cs[c] = cs[d] /\ cs[c] # ""
    <3>1. a[i] \in DOMAIN cs /\ all[i] = of(a[i])
      BY <1>8
    <3> HIDE DEF a, all, of
    <3> QED  BY <1>6, <3>1
  <2> QED  BY <1>9, <2>1
<1> QED  BY <1>9, <1>10, <1>13, <1>14, <1>15 DEF WellMade

LEMMA SchemesWell ==
    ASSUME NEW s \in Routes!Sources, NEW cs \in Lists
    PROVE  WellMade(s, cs, Routes!Schemes(s, cs))
<1>1. CASE s = "graph"
  BY <1>1, GroupedWell DEF Routes!Schemes
<1>2. CASE s # "graph"
  <2> DEFINE all == [i \in DOMAIN cs |-> {i}]
  <2>1. Routes!Schemes(s, cs) = all
    BY <1>2 DEF Routes!Schemes
  <2>2. DOMAIN cs = 1..Len(cs) /\ Len(cs) \in Nat
    BY ListsAreSeqs
  <2>3. all \in Seq(SUBSET DOMAIN cs) /\ DOMAIN all = DOMAIN cs
    <3>1. all \in [1..Len(cs) -> SUBSET DOMAIN cs]
      BY <2>2
    <3> HIDE DEF all
    <3> QED  BY <2>2, <3>1
  <2>4. \A i \in DOMAIN cs : all[i] = {i}
    OBVIOUS
  <2> HIDE DEF all
  <2>5. \A i, k \in DOMAIN cs : i < k => \E c \in all[i] : \A d \in all[k] : c < d
    BY <2>4
  <2>6. \A c \in DOMAIN cs : c \in all[c]
    BY <2>4
  <2>7. \A i, k \in DOMAIN cs : i # k => all[i] \cap all[k] = {}
    BY <2>4
  <2> QED
    <3>1. WellMade(s, cs, all)
      BY <1>2, <2>3, <2>5, <2>6, <2>7 DEF WellMade
    <3> QED  BY <2>1, <3>1
<1> QED  BY <1>1, <1>2

(***************************************************************************)
(* Routes: what is saved, and the exports                                  *)
(***************************************************************************)
Stages == {"absent", "building", "awaiting_schedules", "no_routes", "failed", "cancelled"}
Ends == STRING \cup {"", "error", "timeout", "unavailable"}
RunType == [stage : Stages, outcome : Ends, count : Nat, result : Lists]
JobType == [stage : Stages \cup {"queued"}, attempt : Nat, revision : Nat]
Walks == {"idle", "reading", "changed", "failed", "done"}
Orders == {<<>>, <<"graph">>, <<"graph", "gemini">>}
ExportType ==
    [step : Walks, asked : Orders, todo : Orders \cup {<<"gemini">>}, offset : Nat, page : Nat, revision : Nat,
     merged : [Routes!Sources -> Seq(SUBSET Nat)], complete : BOOLEAN]

SavedTyped ==
    /\ runs \in [Routes!Sources -> RunType]
    /\ \A s \in Routes!Sources : runs[s].count = Len(runs[s].result)
    /\ building \in JobType
    /\ past \in Seq([Routes!Sources -> Lists])
    /\ building.revision = Len(past) /\ building.revision # 0
    /\ past[building.revision] = Routes!Saved(runs)

Begins(m, all) == Len(m) <= Len(all) /\ \A i \in 1..Len(m) : m[i] = all[i]

\* The schemes of a source when an export began to read.
Moment(e, s) == Routes!Schemes(s, past[e.revision][s])

Walking(e) ==
    /\ e \in ExportType
    /\ e.todo = <<"graph">> => e.asked = <<"graph">>
    /\ e.todo \in {<<"gemini">>, <<"graph", "gemini">>} => e.asked = <<"graph", "gemini">>
    /\ e.todo = <<"graph", "gemini">> => e.merged["gemini"] = <<>>
    /\ e.todo # <<>> => e.offset = Len(e.merged[Head(e.todo)])
    /\ e.step = "done" => e.todo = <<>>

Read(e) ==
    /\ e.revision = 0 => /\ e.complete => e.todo = e.asked
                         /\ \A s \in Routes!Sources : e.merged[s] = <<>>
    /\ e.revision # 0 =>
         /\ e.revision <= building.revision
         /\ \A s \in Routes!Sources : Begins(e.merged[s], Moment(e, s))
         /\ e.complete /\ "graph" \in {e.asked[i] : i \in DOMAIN e.asked} /\ e.todo \in {<<>>, <<"gemini">>}
              => Len(e.merged["graph"]) = Len(Moment(e, "graph"))
         /\ e.complete /\ e.asked = <<"graph", "gemini">> /\ e.todo = <<>>
              => Len(e.merged["gemini"]) = Len(Moment(e, "gemini"))

RoutesOK ==
    /\ SavedTyped
    /\ DOMAIN export = Readers
    /\ \A r \in Readers : Walking(export[r]) /\ Read(export[r])

LEMMA RunIs ==
    ASSUME NEW stage \in Stages, NEW outcome \in Ends, NEW result \in Lists, NEW count \in Nat
    PROVE  [stage |-> stage, outcome |-> outcome, count |-> count, result |-> result] \in RunType
  BY DEF RunType

LEMMA ExportIs ==
    ASSUME NEW nil \in Orders, NEW merged \in [Routes!Sources -> Seq(SUBSET Nat)]
    PROVE  [step |-> "idle", asked |-> nil, todo |-> nil, offset |-> 0, page |-> 0, revision |-> 0,
            merged |-> merged, complete |-> TRUE] \in ExportType
  BY DEF ExportType, Walks

LEMMA RunBecomes ==
    ASSUME NEW run \in RunType, NEW stage \in Stages
    PROVE  /\ [run EXCEPT !.stage = stage] \in RunType
           /\ [run EXCEPT !.stage = stage].count = run.count /\ [run EXCEPT !.stage = stage].result = run.result
  BY DEF RunType

LEMMA NoRunIs == Routes!NoRun \in RunType /\ Routes!NoRun.count = Len(Routes!NoRun.result)
<1>1. <<>> \in Lists /\ Len(<<>>) = 0
  BY DEF Lists
<1>2. Routes!NoRun \in RunType
  BY <1>1, RunIs DEF Routes!NoRun, Stages, Ends
<1>3. Routes!NoRun.count = 0 /\ Routes!NoRun.result = <<>>
  BY DEF Routes!NoRun
<1> QED  BY <1>1, <1>2, <1>3

LEMMA JobMoves ==
    ASSUME NEW job \in JobType, NEW stage \in Stages, NEW n \in Nat
    PROVE  /\ [job EXCEPT !.stage = stage, !.revision = @ + n] \in JobType
           /\ [job EXCEPT !.stage = stage, !.revision = @ + n].revision = job.revision + n
<1>1. job.revision \in Nat /\ job.revision + n \in Nat
  BY DEF JobType
<1>2. ASSUME NEW new \in Nat PROVE /\ [job EXCEPT !.stage = stage, !.revision = new] \in JobType
                                   /\ [job EXCEPT !.stage = stage, !.revision = new].revision = new
  BY DEF JobType
<1> QED  BY <1>1, <1>2

LEMMA NoExportIs ==
    /\ Routes!NoExport \in ExportType
    /\ Routes!NoExport.asked = <<>> /\ Routes!NoExport.todo = <<>>
    /\ Routes!NoExport.offset = 0 /\ Routes!NoExport.revision = 0
    /\ \A s \in Routes!Sources : Routes!NoExport.merged[s] = <<>>
<1>1. <<>> \in Seq(SUBSET Nat) /\ <<>> \in Orders
  BY DEF Orders
<1>2. [s \in Routes!Sources |-> <<>>] \in [Routes!Sources -> Seq(SUBSET Nat)]
  BY <1>1
<1>3. Routes!NoExport \in ExportType
  BY <1>1, <1>2, ExportIs DEF Routes!NoExport
<1> QED  BY <1>3 DEF Routes!NoExport

LEMMA InitRoutes == Routes!Init => RoutesOK
<1> SUFFICES ASSUME Routes!Init PROVE RoutesOK  OBVIOUS
<1>1. <<>> \in Lists /\ Len(<<>>) = 0
  BY DEF Lists
<1>2. SavedTyped
  <2>1. Routes!Saved(runs) \in [Routes!Sources -> Lists]
    BY <1>1 DEF Routes!Init, Routes!Saved, Routes!NoRun
  <2>2. past \in Seq([Routes!Sources -> Lists]) /\ Len(past) = 1 /\ past[1] = Routes!Saved(runs)
    BY <2>1 DEF Routes!Init
  <2>3. Routes!NoRun \in RunType /\ Routes!NoRun.count = Len(Routes!NoRun.result)
    BY NoRunIs
  <2>4. runs = [s \in Routes!Sources |-> Routes!NoRun] /\ building = [stage |-> "queued", attempt |-> 0, revision |-> 1]
    BY DEF Routes!Init
  <2>5. /\ runs \in [Routes!Sources -> RunType]
        /\ \A s \in Routes!Sources : runs[s].count = Len(runs[s].result)
    BY <2>3, <2>4
  <2>6. building.revision = 1 /\ building \in JobType
    BY <2>4 DEF JobType
  <2> QED  BY <2>2, <2>5, <2>6 DEF SavedTyped
<1>3. Walking(Routes!NoExport) /\ Read(Routes!NoExport)
  <2> DEFINE e == Routes!NoExport
  <2>1. /\ e \in ExportType /\ e.todo = <<>> /\ e.asked = <<>> /\ e.revision = 0
        /\ \A s \in Routes!Sources : e.merged[s] = <<>>
    BY NoExportIs
  <2>3. <<>> # <<"graph">> /\ <<>> # <<"gemini">> /\ <<>> # <<"graph", "gemini">>
    OBVIOUS
  <2> HIDE DEF e
  <2>4. Walking(e) /\ Read(e)
    BY <2>1, <2>3 DEF Walking, Read
  <2> QED  BY <2>4 DEF e
<1> QED  BY <1>2, <1>3 DEF Routes!Init, RoutesOK

(***************************************************************************)
(* Routes: a transaction of the building                                   *)
(***************************************************************************)
LEMMA OpenFinite == ASSUME NEW rs PROVE Routes!Cardinality(Routes!Open(rs)) \in Nat
<1>1. IsFiniteSet(Routes!Sources) /\ Routes!Open(rs) \subseteq Routes!Sources
  <2>1. IsFiniteSet({"graph"} \cup {"gemini"})
    BY FS_EmptySet, FS_Singleton, FS_Union
  <2>2. Routes!Sources = {"graph"} \cup {"gemini"}
    BY DEF Routes!Sources
  <2> QED  BY <2>1, <2>2 DEF Routes!Open
<1> QED  BY <1>1, FS_Subset, FS_CardinalityType, SameCount

LEMMA OldMoments ==
    ASSUME SavedTyped, NEW e, Walking(e), Read(e), \A k \in 1..Len(past) : past'[k] = past[k],
           building'.revision \in Nat, building.revision <= building'.revision
    PROVE  Read(e)'
<1>1. e.revision \in Nat /\ building.revision \in Nat /\ building.revision = Len(past)
  BY DEF Walking, ExportType, SavedTyped, JobType
<1>2. e.revision # 0 => e.revision \in 1..Len(past) \/ ~(e.revision <= building.revision)
  BY <1>1
<1>3. e.revision # 0 => past'[e.revision] = past[e.revision] /\ e.revision <= building'.revision
  BY <1>1, <1>2 DEF Read
<1> QED  BY <1>3 DEF Read, Moment

LEMMA MovesRoutes ==
    ASSUME RoutesOK, NEW n \in Nat, n # 0, UNCHANGED export,
           building' \in JobType,
           building'.revision = building.revision + n,
           past' = past \o [i \in 1..n |-> Routes!Saved(runs')],
           runs' \in [Routes!Sources -> RunType],
           \A s \in Routes!Sources : runs'[s].count = Len(runs'[s].result)
    PROVE  RoutesOK'
<1> DEFINE new == [i \in 1..n |-> Routes!Saved(runs')]
<1>1. SavedTyped /\ building.revision \in Nat /\ Len(past) = building.revision
  BY DEF RoutesOK, SavedTyped, JobType
<1>2. Routes!Saved(runs') \in [Routes!Sources -> Lists]
  BY DEF Routes!Saved, RunType
<1>3. new \in Seq([Routes!Sources -> Lists]) /\ Len(new) = n
  BY <1>2
<1>4. past \in Seq([Routes!Sources -> Lists])
  BY <1>1 DEF SavedTyped
<1>5. new[n] = Routes!Saved(runs') /\ past' = past \o new
  OBVIOUS
<1> HIDE DEF new
<1>6. /\ past' \in Seq([Routes!Sources -> Lists]) /\ Len(past') = Len(past) + n
      /\ \A k \in 1..Len(past) : past'[k] = past[k]
      /\ past'[Len(past) + n] = Routes!Saved(runs')
  <2>1. /\ past \o new \in Seq([Routes!Sources -> Lists]) /\ Len(past \o new) = Len(past) + Len(new)
        /\ \A i \in 1..Len(past) + Len(new) : (past \o new)[i] = IF i <= Len(past) THEN past[i] ELSE new[i - Len(past)]
    <3>1. \A T, s, u : s \in Seq(T) /\ u \in Seq(T) =>
              /\ s \o u \in Seq(T) /\ Len(s \o u) = Len(s) + Len(u)
              /\ \A i \in 1..Len(s) + Len(u) : (s \o u)[i] = IF i <= Len(s) THEN s[i] ELSE u[i - Len(s)]
      BY ConcatProperties
    <3> DEFINE T == [Routes!Sources -> Lists]
    <3>2. past \in Seq(T) /\ new \in Seq(T)
      BY <1>3, <1>4
    <3> HIDE DEF new, T
    <3>3. /\ past \o new \in Seq(T) /\ Len(past \o new) = Len(past) + Len(new)
          /\ \A i \in 1..Len(past) + Len(new) : (past \o new)[i] = IF i <= Len(past) THEN past[i] ELSE new[i - Len(past)]
      BY <3>1, <3>2
    <3> QED  BY <3>3 DEF T
  <2>2. Len(past) \in Nat /\ Len(new) = n
    BY <1>3, <1>4
  <2>3. \A k \in 1..Len(past) : k \in 1..Len(past) + n /\ k <= Len(past)
    BY <2>2
  <2>4. Len(past) + n \in 1..Len(past) + n /\ ~(Len(past) + n <= Len(past)) /\ (Len(past) + n) - Len(past) = n
    BY <2>2
  <2>5. /\ \A k \in 1..Len(past) : (past \o new)[k] = past[k]
        /\ (past \o new)[Len(past) + n] = new[n]
    BY <2>1, <2>2, <2>3, <2>4
  <2> QED  BY <1>5, <2>1, <2>2, <2>5
<1>7. SavedTyped'
  <2>1. past'[building'.revision] = Routes!Saved(runs') /\ Len(past') = building'.revision
    BY <1>1, <1>6
  <2>2. building'.revision # 0
    BY <1>1
  <2>3. Routes!Saved(runs)' = Routes!Saved(runs')
    BY DEF Routes!Saved
  <2> QED  BY <1>6, <2>1, <2>2, <2>3 DEF SavedTyped
<1>8. ASSUME NEW r \in Readers PROVE Walking(export'[r]) /\ Read(export[r])'
  <2>1. Walking(export[r]) /\ Read(export[r])
    BY DEF RoutesOK
  <2>2. building'.revision \in Nat /\ building.revision <= building'.revision
    BY <1>1
  <2> QED  BY <1>1, <1>6, <2>1, <2>2, OldMoments
<1> QED  BY <1>7, <1>8 DEF RoutesOK, Walking

LEMMA PlansAreLists == ASSUME NEW s \in Routes!Sources, NEW r \in Routes!Comes(s)
                       PROVE  r.result \in Lists /\ r.outcome \in Ends
<1>1. <<>> \in Lists
  BY DEF Lists
<1>2. ASSUME NEW p \in Plans PROVE Routes!Graph(p).result \in Lists /\ Routes!Graph(p).outcome \in Ends
  <2>1. p.candidates \in Seq(STRING) /\ p.error \in STRING
    BY ResultsAreLists
  <2> QED  BY <2>1 DEF Routes!Graph, Lists, Ends
<1>3. ASSUME NEW q \in Replies PROVE Routes!Gemini(q).result \in Lists /\ Routes!Gemini(q).outcome \in Ends
  <2>1. q.paths \in Seq([steps : Nat, warnings : Nat])
    BY ResultsAreLists
  <2> QED  BY <1>1, <2>1 DEF Routes!Gemini, Routes!Failed, Lists, Ends
<1> QED  BY <1>2, <1>3 DEF Routes!Comes

LEMMA BuildsRoutes == ASSUME RoutesOK, Routes!Builds PROVE RoutesOK'
<1>1. SavedTyped /\ building \in JobType /\ runs \in [Routes!Sources -> RunType]
  BY DEF RoutesOK, SavedTyped
<1>2. <<>> \in Lists /\ Len(<<>>) = 0
  BY DEF Lists
<1>3. \A rs : Routes!JobStage(rs) \in Stages
  BY DEF Routes!JobStage, Stages
<1>4. ASSUME NEW stage \in Stages, NEW n \in Nat, n # 0, Routes!Moves(stage, n),
             runs' \in [Routes!Sources -> RunType], \A s \in Routes!Sources : runs'[s].count = Len(runs'[s].result)
      PROVE  RoutesOK'
  <2>1. building' \in JobType /\ building'.revision = building.revision + n
    BY <1>1, <1>4, JobMoves DEF Routes!Moves
  <2>2. UNCHANGED export /\ past' = past \o [i \in 1..n |-> Routes!Saved(runs')]
    BY <1>4 DEF Routes!Moves
  <2> QED  BY <1>4, <2>1, <2>2, MovesRoutes
<1>5. CASE Routes!Claim
  <2> DEFINE n == 1 + Routes!Cardinality(Routes!Open(runs'))
             claimed == [Routes!NoRun EXCEPT !.stage = "building"]
  <2>1. n \in Nat /\ n # 0
    BY OpenFinite
  <2>2. claimed \in RunType /\ claimed.count = Len(claimed.result)
    BY NoRunIs, RunBecomes DEF Stages, Ends
  <2>3. runs' = [s \in Routes!Sources |-> IF runs[s].stage = "absent" THEN claimed ELSE runs[s]]
    BY <1>5 DEF Routes!Claim
  <2>4. /\ building' = [stage |-> "building", attempt |-> building.attempt + 1, revision |-> building.revision + n]
        /\ UNCHANGED export /\ past' = past \o [i \in 1..n |-> Routes!Saved(runs')]
    BY <1>5 DEF Routes!Claim
  <2> HIDE DEF n, claimed
  <2>5. runs' \in [Routes!Sources -> RunType] /\ \A s \in Routes!Sources : runs'[s].count = Len(runs'[s].result)
    BY <1>1, <2>2, <2>3 DEF SavedTyped
  <2>6. building' \in JobType /\ building'.revision = building.revision + n
    BY <1>1, <2>1, <2>4 DEF JobType, Stages
  <2> QED  BY <2>1, <2>4, <2>5, <2>6, MovesRoutes
<1>6. ASSUME NEW s \in Routes!Sources, Routes!FinishSource(s) PROVE RoutesOK'
  <2>1. PICK r \in Routes!Comes(s) :
            runs' = [runs EXCEPT ![s] = [stage |-> Routes!StageOf(r), outcome |-> r.outcome,
                                         count |-> Len(r.result), result |-> r.result]]
    BY <1>6 DEF Routes!FinishSource
  <2> DEFINE new == [stage |-> Routes!StageOf(r), outcome |-> r.outcome, count |-> Len(r.result), result |-> r.result]
  <2>2. new \in RunType /\ new.count = Len(new.result)
    <3>1. Routes!StageOf(r) \in Stages
      BY DEF Routes!StageOf, Stages
    <3> QED  BY <3>1, PlansAreLists, ListsAreSeqs, RunIs
  <2> HIDE DEF new
  <2>3. runs' \in [Routes!Sources -> RunType] /\ \A t \in Routes!Sources : runs'[t].count = Len(runs'[t].result)
    BY <1>1, <2>1, <2>2 DEF SavedTyped, new
  <2> DEFINE n == Routes!Events({s}, runs')
  <2>4. n \in Nat /\ n # 0
    BY SameCount, FS_Singleton DEF Routes!Events
  <2>5. Routes!Moves(Routes!JobStage(runs'), n)
    BY <1>6 DEF Routes!FinishSource
  <2> HIDE DEF n
  <2> QED  BY <1>3, <1>4, <2>3, <2>4, <2>5
<1>7. CASE Routes!Exhaust
  <2> DEFINE over == [Routes!NoRun EXCEPT !.stage = "failed", !.outcome = "timeout"]
             n == Routes!Events(Routes!Open(runs), runs')
  <2>1. over \in RunType /\ over.count = Len(over.result) /\ over.stage = "failed"
    <3>1. "failed" \in Stages /\ "timeout" \in Ends /\ "failed" # "timeout"
      BY DEF Stages, Ends
    <3> DEFINE to(stage, outcome) == [Routes!NoRun EXCEPT !.stage = stage, !.outcome = outcome]
    <3>2. ASSUME NEW stage \in Stages, NEW outcome \in Ends
          PROVE  /\ to(stage, outcome) \in RunType /\ to(stage, outcome).stage = stage
                 /\ to(stage, outcome).count = Len(to(stage, outcome).result)
      <4>1. ASSUME NEW run \in RunType, run.count = Len(run.result)
            PROVE  LET new == [run EXCEPT !.stage = stage, !.outcome = outcome]
                   IN new \in RunType /\ new.stage = stage /\ new.count = Len(new.result)
        BY <4>1 DEF RunType
      <4> QED  BY <4>1, NoRunIs, Zenon
    <3>3. over = to("failed", "timeout")
      OBVIOUS
    <3> HIDE DEF to, over
    <3> QED  BY <3>1, <3>2, <3>3
  <2>2. runs' = [s \in Routes!Sources |-> IF s \in Routes!Open(runs) THEN over ELSE runs[s]]
    BY <1>7 DEF Routes!Exhaust
  <2> HIDE DEF over
  <2>3. runs' \in [Routes!Sources -> RunType] /\ \A s \in Routes!Sources : runs'[s].count = Len(runs'[s].result)
    BY <1>1, <2>1, <2>2 DEF SavedTyped
  <2>4. Routes!Open(runs') = {}
    BY <2>1, <2>2 DEF Routes!Open
  <2>5. n \in Nat /\ n # 0
    BY <2>4, OpenFinite DEF Routes!Events
  <2>6. Routes!Moves(Routes!JobStage(runs'), n)
    BY <1>7 DEF Routes!Exhaust
  <2> HIDE DEF n
  <2> QED  BY <1>3, <1>4, <2>3, <2>5, <2>6
<1>8. CASE Routes!Cancel
  <2> DEFINE n == Routes!Cardinality(Routes!Open(runs)) + 1
  <2>1. runs' = [s \in Routes!Sources |-> IF s \in Routes!Open(runs) THEN [runs[s] EXCEPT !.stage = "cancelled"] ELSE runs[s]]
    BY <1>8 DEF Routes!Cancel
  <2>2. ASSUME NEW x \in RunType PROVE /\ [x EXCEPT !.stage = "cancelled"] \in RunType
                                       /\ [x EXCEPT !.stage = "cancelled"].count = x.count
                                       /\ [x EXCEPT !.stage = "cancelled"].result = x.result
    BY RunBecomes DEF Stages, Ends
  <2>3. runs' \in [Routes!Sources -> RunType] /\ \A s \in Routes!Sources : runs'[s].count = Len(runs'[s].result)
    BY <1>1, <2>1, <2>2 DEF SavedTyped
  <2>4. n \in Nat /\ n # 0
    BY OpenFinite
  <2>5. Routes!Moves("cancelled", n)
    BY <1>8 DEF Routes!Cancel
  <2> HIDE DEF n
  <2> QED  BY <1>4, <2>3, <2>4, <2>5 DEF Stages
<1> QED  BY <1>5, <1>6, <1>7, <1>8 DEF Routes!Builds

(***************************************************************************)
(* Routes: a step of an export                                             *)
(***************************************************************************)
LEMMA EmptySteps == <<>> # <<"graph">> /\ <<>> # <<"gemini">> /\ <<>> # <<"graph", "gemini">>
                    /\ <<"graph">> # <<"gemini">> /\ <<"graph">> # <<"graph", "gemini">>
                    /\ <<"gemini">> # <<"graph", "gemini">>
  OBVIOUS

\* What comes after a source.
LEMMA TodoGoesOn ==
    ASSUME NEW e \in ExportType, e.todo # <<>>, Walking(e)
    PROVE  /\ Head(e.todo) \in Routes!Sources
           /\ \/ e.todo = <<"graph">> /\ Head(e.todo) = "graph" /\ Tail(e.todo) = <<>>
              \/ e.todo = <<"gemini">> /\ Head(e.todo) = "gemini" /\ Tail(e.todo) = <<>>
              \/ e.todo = <<"graph", "gemini">> /\ Head(e.todo) = "graph" /\ Tail(e.todo) = <<"gemini">>
<1>1. e.todo \in {<<"graph">>, <<"gemini">>, <<"graph", "gemini">>}
  BY DEF ExportType, Orders
<1>2. /\ Head(<<"graph">>) = "graph" /\ Tail(<<"graph">>) = <<>>
      /\ Head(<<"gemini">>) = "gemini" /\ Tail(<<"gemini">>) = <<>>
      /\ Head(<<"graph", "gemini">>) = "graph" /\ Tail(<<"graph", "gemini">>) = <<"gemini">>
  OBVIOUS
<1> QED  BY <1>1, <1>2 DEF Routes!Sources

LEMMA FieldsOf ==
    ASSUME NEW e \in ExportType
    PROVE  /\ e.asked \in Orders /\ e.todo \in Orders \cup {<<"gemini">>}
           /\ e.offset \in Nat /\ e.page \in Nat /\ e.revision \in Nat
           /\ e.merged \in [Routes!Sources -> Seq(SUBSET Nat)] /\ e.complete \in BOOLEAN
  BY DEF ExportType

\* A step that only ends the export keeps what it has.
LEMMA EndsRoutes ==
    ASSUME RoutesOK, NEW r \in Readers, NEW step \in Walks, Routes!Ends(r, step), UNCHANGED <<building, runs, past>>,
           step = "done" => export[r].todo = <<>>
    PROVE  RoutesOK'
<1> DEFINE e == export[r]
           to == [e EXCEPT !.step = step]
<1>1. Walking(e) /\ Read(e) /\ DOMAIN export = Readers
  BY DEF RoutesOK
<1>2. export' = [export EXCEPT ![r] = to]
  BY DEF Routes!Ends
<1>3. /\ to \in ExportType /\ to.step = step /\ to.asked = e.asked /\ to.todo = e.todo /\ to.offset = e.offset
      /\ to.revision = e.revision /\ to.merged = e.merged /\ to.complete = e.complete
  <2>1. e \in ExportType
    BY <1>1 DEF Walking
  <2> HIDE DEF e
  <2> QED  BY <2>1 DEF ExportType
<1> HIDE DEF to
<1>4. Walking(to) /\ Read(to)
  BY <1>1, <1>3 DEF Walking, Read, Moment
<1> QED  BY <1>1, <1>2, <1>4 DEF RoutesOK, SavedTyped, Walking, Read, Moment

\* A step of an export that leaves the building alone.
LEMMA StepRoutes ==
    ASSUME RoutesOK, NEW r \in Readers, NEW to, export' = [export EXCEPT ![r] = to],
           UNCHANGED <<building, runs, past>>, Walking(to), Read(to)
    PROVE  RoutesOK'
<1>1. DOMAIN export = Readers /\ SavedTyped /\ \A q \in Readers : Walking(export[q]) /\ Read(export[q])
  BY DEF RoutesOK
<1>2. \A q \in Readers : export'[q] = IF q = r THEN to ELSE export[q]
  BY <1>1
<1>3. SavedTyped'
  BY <1>1 DEF SavedTyped, Routes!Saved
<1>4. \A q \in Readers : Walking(export'[q])
  BY <1>1, <1>2
<1>5. \A q \in Readers : Read(export[q])'
  BY <1>1, <1>2 DEF Read, Moment
<1>6. \A q \in Readers : Walking(export[q])'
  BY <1>4 DEF Walking
<1> QED  BY <1>1, <1>3, <1>5, <1>6 DEF RoutesOK

LEMMA StartRoutes == ASSUME RoutesOK, NEW r \in Readers, Routes!Start(r) PROVE RoutesOK'
<1>1. PICK shown \in Orders :
          /\ export' = [export EXCEPT ![r] = [Routes!NoExport EXCEPT !.step = "reading", !.asked = shown, !.todo = shown]]
          /\ UNCHANGED <<building, runs, past>>
  BY DEF Routes!Start, Orders
<1> DEFINE no == Routes!NoExport
           to == [no EXCEPT !.step = "reading", !.asked = shown, !.todo = shown]
<1>2. no \in ExportType /\ no.offset = 0 /\ no.revision = 0 /\ \A s \in Routes!Sources : no.merged[s] = <<>>
  BY NoExportIs
<1>3. export' = [export EXCEPT ![r] = to]
  BY <1>1
<1> HIDE DEF no
<1>4. to \in ExportType
  BY <1>2 DEF ExportType, Walks
<1>5. /\ to.step = "reading" /\ to.asked = shown /\ to.todo = shown /\ to.offset = 0 /\ to.revision = 0 /\ to.merged = no.merged
  BY <1>2 DEF ExportType
<1> HIDE DEF to
<1>7. Walking(to)
  <2>1. /\ to.todo # <<>> => Head(to.todo) \in Routes!Sources
        /\ "gemini" \in Routes!Sources /\ Len(<<>>) = 0
    BY <1>5 DEF Orders, Routes!Sources
  <2> QED  BY <1>2, <1>4, <1>5, <2>1, EmptySteps DEF Walking, Orders
<1>8. Read(to)
  BY <1>2, <1>5 DEF Read
<1> QED  BY <1>1, <1>3, <1>7, <1>8, StepRoutes

LEMMA StopRoutes == ASSUME RoutesOK, NEW r \in Readers, Routes!StopAtLimit(r) PROVE RoutesOK'
<1> DEFINE e == export[r]
           to == [[e EXCEPT !.todo = Tail(@), !.offset = 0, !.page = 0] EXCEPT !.complete = FALSE]
<1>1. e \in ExportType /\ Walking(e) /\ Read(e) /\ e.todo # <<>> /\ e.step = "reading"
  BY DEF RoutesOK, Walking, Routes!StopAtLimit
<1>2. export' = [export EXCEPT ![r] = to] /\ UNCHANGED <<building, runs, past>>
  BY DEF Routes!StopAtLimit, Routes!Onward
<1> HIDE DEF e
<1>3. /\ Head(e.todo) \in Routes!Sources
      /\ \/ e.todo = <<"graph">> /\ Head(e.todo) = "graph" /\ Tail(e.todo) = <<>>
         \/ e.todo = <<"gemini">> /\ Head(e.todo) = "gemini" /\ Tail(e.todo) = <<>>
         \/ e.todo = <<"graph", "gemini">> /\ Head(e.todo) = "graph" /\ Tail(e.todo) = <<"gemini">>
  BY <1>1, TodoGoesOn
<1>4. Tail(e.todo) \in Orders \cup {<<"gemini">>}
  BY <1>3 DEF Orders
<1>5. /\ to \in ExportType /\ to.step = e.step /\ to.asked = e.asked /\ to.todo = Tail(e.todo) /\ to.offset = 0
      /\ to.revision = e.revision /\ to.merged = e.merged /\ to.complete = FALSE
  BY <1>1, <1>4 DEF ExportType
<1> HIDE DEF to
<1>6. Walking(to)
  <2>1. Head(<<"gemini">>) = "gemini" /\ Len(<<>>) = 0
    OBVIOUS
  <2>2. CASE e.todo # <<"graph", "gemini">>
    BY <1>3, <1>5, <2>2, EmptySteps DEF Walking
  <2>3. CASE e.todo = <<"graph", "gemini">>
    <3>1. to.todo = <<"gemini">> /\ to.asked = <<"graph", "gemini">> /\ to.merged["gemini"] = <<>>
      BY <1>1, <1>3, <1>5, <2>3, EmptySteps DEF Walking
    <3> QED  BY <1>1, <1>5, <2>1, <3>1, EmptySteps DEF Walking
  <2> QED  BY <2>2, <2>3
<1>7. Read(to)
  BY <1>1, <1>5 DEF Read, Moment
<1> QED  BY <1>2, <1>6, <1>7, StepRoutes

LEMMA SchemesAre ==
    ASSUME NEW s \in Routes!Sources, NEW cs \in Lists
    PROVE  Routes!Schemes(s, cs) \in Seq(SUBSET Nat)
<1>1. Routes!Schemes(s, cs) \in Seq(SUBSET DOMAIN cs)
  BY SchemesWell DEF WellMade
<1>2. DOMAIN cs \subseteq Nat
  BY ListsAreSeqs
<1> DEFINE all == Routes!Schemes(s, cs)
<1>3. Len(all) \in Nat /\ all \in [1..Len(all) -> SUBSET DOMAIN cs]
  BY <1>1
<1> HIDE DEF all
<1>4. all \in [1..Len(all) -> SUBSET Nat]
  BY <1>2, <1>3
<1>5. all \in Seq(SUBSET Nat)
  BY <1>3, <1>4
<1> QED  BY <1>5 DEF all

\* A page goes on where the export is, and there is more as long as schemes are left.
LEMMA PageIs ==
    ASSUME SavedTyped, NEW s \in Routes!Sources, NEW offset \in Nat,
           offset <= Len(Routes!Schemes(s, runs[s].result))
    PROVE  LET all == Routes!Schemes(s, runs[s].result)
               page == Routes!Page(s, offset)
           IN /\ page \in Seq(SUBSET Nat) /\ offset + Len(page) <= Len(all)
              /\ \A i \in 1..Len(page) : page[i] = all[offset + i]
              /\ Routes!HasMore(s, offset) <=> offset + Len(page) < Len(all)
<1> DEFINE cs == runs[s].result
           all == Routes!Schemes(s, cs)
           L == Len(all)
           first == IF offset < L THEN offset + 1 ELSE L + 1
           last == IF offset + ExportPage < L THEN offset + ExportPage ELSE L
           page == Routes!Page(s, offset)
<1>1. cs \in Lists /\ runs[s].count = Len(cs)
  BY DEF SavedTyped, RunType
<1>2. all \in Seq(SUBSET Nat) /\ L \in Nat
  BY <1>1, SchemesAre
<1>3. page = SubSeq(all, first, last)
  BY DEF Routes!Page
<1>4. ExportPage \in Nat /\ ExportPage # 0
  BY PagesAreNotEmpty
<1>5. Routes!Total(s, runs[s]) = L
  <2>1. CASE s = "graph"
    BY <2>1 DEF Routes!Total, Routes!Schemes
  <2>2. CASE s # "graph"
    <3>1. Len(cs) \in Nat /\ DOMAIN cs = 1..Len(cs) /\ all = [i \in DOMAIN cs |-> {i}]
      BY <1>1, <2>2, ListsAreSeqs DEF Routes!Schemes
    <3> HIDE DEF all, cs
    <3>2. DOMAIN all = 1..Len(cs) /\ DOMAIN all = 1..L
      BY <1>2, <3>1
    <3>3. L = Len(cs)
      BY <1>2, <3>1, <3>2
    <3> QED  BY <1>1, <2>2, <3>3 DEF Routes!Total, cs
  <2> QED  BY <2>1, <2>2
<1>6. offset <= L
  OBVIOUS
<1> HIDE DEF all, cs, page
<1>7. first \in Nat /\ last \in Nat /\ (first = offset + 1 \/ last < first) /\ last <= L /\ last >= offset
  BY <1>2, <1>4, <1>6
<1>8. \A i \in first..last : all[i] \in SUBSET Nat
  BY <1>2, <1>4, <1>6
<1>9. /\ SubSeq(all, first, last) \in Seq(SUBSET Nat)
      /\ Len(SubSeq(all, first, last)) = IF first <= last THEN last - first + 1 ELSE 0
      /\ \A i \in 1..(last - first + 1) : SubSeq(all, first, last)[i] = all[first + i - 1]
  <2> HIDE DEF first, last, L
  <2>1. first \in Int /\ last \in Int
    BY <1>7
  <2> QED  BY <1>8, <2>1, SubSeqProperties
<1>10. page \in Seq(SUBSET Nat) /\ offset + Len(page) <= L /\ \A i \in 1..Len(page) : page[i] = all[offset + i]
  <2>1. Len(page) \in Nat /\ Len(page) = IF first <= last THEN last - first + 1 ELSE 0
    BY <1>3, <1>9
  <2>2. CASE first <= last
    <3>1. first = offset + 1 /\ Len(page) = last - offset /\ last - first + 1 = last - offset
      BY <1>7, <2>1, <2>2
    <3>2. \A i \in 1..Len(page) : page[i] = all[first + i - 1] /\ first + i - 1 = offset + i
      BY <1>3, <1>7, <1>9, <3>1
    <3> QED  BY <1>3, <1>7, <1>9, <3>1, <3>2
  <2>3. CASE ~(first <= last)
    <3>1. Len(page) = 0 /\ 1..Len(page) = {}
      BY <2>1, <2>3
    <3> QED  BY <1>3, <1>6, <1>9, <3>1
  <2> QED  BY <2>2, <2>3
<1>11. Routes!HasMore(s, offset) <=> offset + Len(page) < L
  BY <1>5 DEF Routes!HasMore, page
<1> QED  BY <1>10, <1>11 DEF all, cs, page

LEMMA Joined ==
    ASSUME NEW m \in Seq(SUBSET Nat), NEW p \in Seq(SUBSET Nat), NEW all \in Seq(SUBSET Nat), Begins(m, all),
           Len(m) + Len(p) <= Len(all), \A i \in 1..Len(p) : p[i] = all[Len(m) + i]
    PROVE  m \o p \in Seq(SUBSET Nat) /\ Len(m \o p) = Len(m) + Len(p) /\ Begins(m \o p, all)
<1> DEFINE T == SUBSET Nat
<1> HIDE DEF T
<1>1. m \in Seq(T) /\ p \in Seq(T)
  BY DEF T
<1>2. /\ m \o p \in Seq(T) /\ Len(m \o p) = Len(m) + Len(p)
      /\ \A i \in 1..Len(m) + Len(p) : (m \o p)[i] = IF i <= Len(m) THEN m[i] ELSE p[i - Len(m)]
  BY <1>1, ConcatProperties
<1>3. Len(m) \in Nat /\ Len(p) \in Nat
  BY <1>1
<1>4. ASSUME NEW i \in 1..Len(m \o p) PROVE (m \o p)[i] = all[i]
  <2>1. i \in 1..Len(m) + Len(p)
    BY <1>2
  <2>2. CASE i <= Len(m)
    BY <1>2, <1>3, <2>1, <2>2 DEF Begins
  <2>3. CASE ~(i <= Len(m))
    <3>1. i - Len(m) \in 1..Len(p) /\ Len(m) + (i - Len(m)) = i
      BY <1>3, <2>1, <2>3
    <3> QED  BY <1>2, <2>1, <2>3, <3>1
  <2> QED  BY <2>2, <2>3
<1> QED  BY <1>2, <1>4 DEF Begins, T

Grown(e, revision, merged, offset, page) ==
    [e EXCEPT !.revision = revision, !.merged = merged, !.offset = offset, !.page = page]
GoneOn(e, todo, complete) == [e EXCEPT !.todo = todo, !.offset = 0, !.page = 0, !.complete = complete]

LEMMA PageRoutes == ASSUME RoutesOK, NEW r \in Readers, Routes!ReadPage(r) PROVE RoutesOK'
<1> DEFINE e == export[r]
           s == Head(e.todo)
           answer == Routes!ReadRoutes(s, e.offset)
           grown == [e EXCEPT !.revision = answer.revision, !.merged[s] = @ \o answer.page,
                             !.offset = @ + Len(answer.page), !.page = @ + 1]
           over == [grown EXCEPT !.todo = Tail(@), !.offset = 0, !.page = 0, !.complete = @ /\ ~answer.more]
           to == IF answer.more /\ answer.page # <<>> THEN grown ELSE over
           all == Routes!Schemes(s, runs[s].result)
           m == e.merged[s]
           page == Routes!Page(s, e.offset)
<1>1. e \in ExportType /\ Walking(e) /\ Read(e) /\ e.todo # <<>> /\ SavedTyped /\ e.step = "reading"
  BY DEF RoutesOK, Walking, Routes!ReadPage, Routes!Asks
<1>2. e.revision = 0 \/ e.revision = building.revision
  BY DEF Routes!ReadPage, Routes!Changed
<1>3. export' = [export EXCEPT ![r] = to] /\ UNCHANGED <<building, runs, past>>
  BY DEF Routes!ReadPage
<1>4. answer.revision = building.revision /\ answer.page = page /\ answer.more = Routes!HasMore(s, e.offset)
  BY DEF Routes!ReadRoutes
<1> HIDE DEF e, answer
<1>5. /\ s \in Routes!Sources
      /\ \/ e.todo = <<"graph">> /\ s = "graph" /\ Tail(e.todo) = <<>>
         \/ e.todo = <<"gemini">> /\ s = "gemini" /\ Tail(e.todo) = <<>>
         \/ e.todo = <<"graph", "gemini">> /\ s = "graph" /\ Tail(e.todo) = <<"gemini">>
  BY <1>1, TodoGoesOn
<1>6. /\ m \in Seq(SUBSET Nat) /\ e.offset = Len(m) /\ e.offset \in Nat /\ all \in Seq(SUBSET Nat)
      /\ building.revision \in Nat /\ building.revision # 0
      /\ past[building.revision] = Routes!Saved(runs)
  <2>1. runs[s].result \in Lists
    BY <1>1, <1>5 DEF SavedTyped, RunType
  <2> QED  BY <1>1, <1>5, <2>1, FieldsOf, SchemesAre DEF Walking, SavedTyped, JobType
<1>7. \A x \in Routes!Sources : Routes!Schemes(x, past[building.revision][x]) = Routes!Schemes(x, runs[x].result)
  BY <1>6 DEF Routes!Saved
<1>8. ASSUME NEW x \in Routes!Sources
      PROVE  Begins(e.merged[x], Routes!Schemes(x, runs[x].result))
  <2>1. CASE e.revision = building.revision
    BY <1>1, <1>6, <1>7, <2>1 DEF Read, Moment
  <2>2. CASE e.revision = 0
    <3>1. e.merged[x] = <<>> /\ runs[x].result \in Lists
      BY <1>1, <2>2 DEF Read, SavedTyped, RunType
    <3>2. Routes!Schemes(x, runs[x].result) \in Seq(SUBSET Nat)
      BY <3>1, SchemesAre
    <3>3. Len(<<>>) = 0 /\ Len(Routes!Schemes(x, runs[x].result)) \in Nat
      BY <3>2
    <3> QED  BY <3>1, <3>3 DEF Begins
  <2> QED  BY <1>2, <2>1, <2>2
<1>9. /\ page \in Seq(SUBSET Nat) /\ Len(m) + Len(page) <= Len(all)
      /\ \A i \in 1..Len(page) : page[i] = all[Len(m) + i]
      /\ answer.more <=> Len(m) + Len(page) < Len(all)
  <2>1. Len(m) <= Len(all)
    BY <1>5, <1>8 DEF Begins
  <2> QED  BY <1>1, <1>4, <1>5, <1>6, <2>1, PageIs
<1>10. m \o page \in Seq(SUBSET Nat) /\ Len(m \o page) = Len(m) + Len(page) /\ Begins(m \o page, all)
  BY <1>5, <1>6, <1>8, <1>9, Joined
<1>11. /\ grown \in ExportType /\ grown.step = "reading" /\ grown.asked = e.asked /\ grown.todo = e.todo
       /\ grown.offset = Len(m \o page) /\ grown.revision = building.revision
       /\ grown.merged = [e.merged EXCEPT ![s] = m \o page] /\ grown.complete = e.complete
  <2> DEFINE merged == [e.merged EXCEPT ![s] = m \o page]
             offset == e.offset + Len(page)
             next == e.page + 1
  <2>1. grown = Grown(e, building.revision, merged, offset, next)
    BY <1>4 DEF Grown
  <2> HIDE DEF m, page, s, grown, all
  <2>2. offset \in Nat /\ offset = Len(m \o page) /\ next \in Nat
    BY <1>1, <1>6, <1>9, <1>10, FieldsOf
  <2>3. merged \in [Routes!Sources -> Seq(SUBSET Nat)]
    BY <1>1, <1>5, <1>10, FieldsOf
  <2>4. building.revision \in Nat
    BY <1>6
  <2> HIDE DEF merged, offset, next
  <2> DEFINE to1 == Grown(e, building.revision, merged, offset, next)
  <2>5. /\ to1 \in ExportType /\ to1.step = "reading" /\ to1.asked = e.asked /\ to1.todo = e.todo
        /\ to1.offset = offset /\ to1.revision = building.revision
        /\ to1.merged = merged /\ to1.complete = e.complete
    <3>1. e \in ExportType
      BY <1>1
    <3> QED  BY <1>1, <2>2, <2>3, <2>4, <3>1 DEF ExportType, Grown
  <2> QED  BY <2>1, <2>2, <2>5 DEF merged
<1>12. /\ Tail(e.todo) \in Orders \cup {<<"gemini">>}
       /\ (e.complete /\ ~answer.more) \in BOOLEAN
  BY <1>5 DEF Orders
<1>13. /\ over \in ExportType /\ over.step = "reading" /\ over.asked = e.asked /\ over.todo = Tail(e.todo) /\ over.offset = 0
       /\ over.revision = building.revision /\ over.merged = [e.merged EXCEPT ![s] = m \o page]
       /\ over.complete = (e.complete /\ ~answer.more)
  <2> DEFINE rest == Tail(e.todo)
             whole == e.complete /\ ~answer.more
  <2>1. over = GoneOn(grown, rest, whole)
    BY <1>11 DEF GoneOn
  <2>2. rest \in Orders \cup {<<"gemini">>} /\ whole \in BOOLEAN /\ grown \in ExportType
    BY <1>11, <1>12
  <2> HIDE DEF rest, whole, grown, over
  <2>3. LET to1 == GoneOn(grown, rest, whole)
        IN /\ to1 \in ExportType /\ to1.step = grown.step /\ to1.asked = grown.asked /\ to1.todo = rest /\ to1.offset = 0
           /\ to1.revision = grown.revision /\ to1.merged = grown.merged /\ to1.complete = whole
    BY <2>2 DEF ExportType, GoneOn
  <2> QED  BY <1>11, <2>1, <2>3 DEF rest, whole
<1>14. e.complete /\ e.todo = <<"gemini">> => Len(e.merged["graph"]) = Len(Routes!Schemes("graph", runs["graph"].result))
  <2> SUFFICES ASSUME e.complete, e.todo = <<"gemini">>
               PROVE  Len(e.merged["graph"]) = Len(Routes!Schemes("graph", runs["graph"].result))
    OBVIOUS
  <2>1. e.asked = <<"graph", "gemini">> /\ "graph" \in {e.asked[i] : i \in DOMAIN e.asked}
    <3>1. e.asked = <<"graph", "gemini">>
      BY <1>1 DEF Walking
    <3>2. 1 \in DOMAIN <<"graph", "gemini">> /\ <<"graph", "gemini">>[1] = "graph"
      OBVIOUS
    <3> QED  BY <3>1, <3>2
  <2>2. e.revision # 0 /\ e.revision = building.revision
    BY <1>1, <1>2, <2>1, EmptySteps DEF Read
  <2>3. Len(e.merged["graph"]) = Len(Moment(e, "graph"))
    BY <1>1, <2>1, <2>2 DEF Read
  <2> QED  BY <1>7, <2>2, <2>3 DEF Moment, Routes!Sources
<1>15. ASSUME NEW new, new.revision = building.revision, new.merged = [e.merged EXCEPT ![s] = m \o page]
       PROVE  \A x \in Routes!Sources : /\ new.merged[x] = IF x = s THEN m \o page ELSE e.merged[x]
                                        /\ Moment(new, x) = Routes!Schemes(x, runs[x].result)
                                        /\ Begins(new.merged[x], Moment(new, x))
  <2>1. \A x \in Routes!Sources : new.merged[x] = IF x = s THEN m \o page ELSE e.merged[x]
    BY <1>1, <1>15, FieldsOf
  <2>2. \A x \in Routes!Sources : Moment(new, x) = Routes!Schemes(x, runs[x].result)
    BY <1>7, <1>15 DEF Moment
  <2> QED  BY <1>5, <1>8, <1>10, <2>1, <2>2
<1>16. building.revision <= building.revision /\ "graph" \in Routes!Sources /\ "gemini" \in Routes!Sources
  BY <1>6 DEF Routes!Sources
<1>17. CASE answer.more /\ answer.page # <<>>
  <2> HIDE DEF grown, over
  <2>1. to = grown
    BY <1>17
  <2>2. \A x \in Routes!Sources : /\ grown.merged[x] = IF x = s THEN m \o page ELSE e.merged[x]
                                  /\ Moment(grown, x) = Routes!Schemes(x, runs[x].result)
                                  /\ Begins(grown.merged[x], Moment(grown, x))
    BY <1>11, <1>15
  <2> HIDE DEF s, m, page, all
  <2>3. Walking(grown)
    <3>1. grown.todo = <<"graph", "gemini">> => grown.merged["gemini"] = <<>>
      BY <1>1, <1>5, <1>11, <1>16, <2>2, EmptySteps DEF Walking
    <3>2. s = Head(grown.todo) /\ grown.offset = Len(grown.merged[s])
      BY <1>5, <1>11, <2>2 DEF s
    <3> QED  BY <1>1, <1>11, <3>1, <3>2 DEF Walking
  <2>4. Read(grown)
    <3>1. grown.complete /\ grown.todo \in {<<>>, <<"gemini">>} => Len(grown.merged["graph"]) = Len(Moment(grown, "graph"))
      BY <1>1, <1>5, <1>11, <1>14, <1>16, <2>2, EmptySteps
    <3> QED  BY <1>1, <1>6, <1>11, <1>16, <2>2, <3>1 DEF Read
  <2> QED  BY <1>3, <2>1, <2>3, <2>4, StepRoutes
<1>18. CASE ~(answer.more /\ answer.page # <<>>)
  <2> HIDE DEF grown, over
  <2>1. to = over
    BY <1>18
  <2>2. \A x \in Routes!Sources : /\ over.merged[x] = IF x = s THEN m \o page ELSE e.merged[x]
                                  /\ Moment(over, x) = Routes!Schemes(x, runs[x].result)
                                  /\ Begins(over.merged[x], Moment(over, x))
    BY <1>13, <1>15
  <2>3. Walking(over)
    <3>1. Head(<<"gemini">>) = "gemini" /\ Len(<<>>) = 0
      OBVIOUS
    <3> HIDE DEF s, m, page, all
    <3>2. CASE over.todo = <<"gemini">>
      <4>1. e.todo = <<"graph", "gemini">> /\ s = "graph"
        BY <1>5, <1>13, <3>2, EmptySteps
      <4>2. over.merged["gemini"] = <<>> /\ over.asked = <<"graph", "gemini">>
        BY <1>1, <1>13, <1>16, <2>2, <4>1 DEF Walking
      <4> QED  BY <1>13, <3>1, <3>2, <4>2, EmptySteps DEF Walking
    <3>3. CASE over.todo = <<>>
      BY <1>13, <3>3, EmptySteps DEF Walking
    <3> QED  BY <1>5, <1>13, <3>2, <3>3
  <2>4. over.complete => Len(over.merged[s]) = Len(Moment(over, s))
    <3>1. over.complete => Len(m) + Len(page) = Len(all)
      <4>1. over.complete => ~answer.more
        BY <1>13
      <4>2. Len(m) \in Nat /\ Len(page) \in Nat /\ Len(all) \in Nat
        BY <1>6, <1>9
      <4> HIDE DEF m, page, all
      <4> QED  BY <1>9, <4>1, <4>2
    <3>2. over.merged[s] = m \o page /\ Moment(over, s) = all
      BY <1>5, <2>2
    <3> QED  BY <1>10, <3>1, <3>2
  <2> HIDE DEF s, m, page, all
  <2>5. over.complete => e.complete
    BY <1>13
  <2>6. over.complete => Len(over.merged["graph"]) = Len(Moment(over, "graph"))
    <3>1. CASE s = "graph"
      BY <2>4, <3>1
    <3>2. CASE s # "graph"
      BY <1>5, <1>14, <1>16, <2>2, <2>5, <3>2
    <3> QED  BY <3>1, <3>2
  <2>7. over.complete /\ over.asked = <<"graph", "gemini">> /\ over.todo = <<>>
           => Len(over.merged["gemini"]) = Len(Moment(over, "gemini"))
    <3>1. over.asked = <<"graph", "gemini">> /\ over.todo = <<>> => s = "gemini"
      BY <1>1, <1>5, <1>13, EmptySteps DEF Walking
    <3> QED  BY <2>4, <3>1
  <2>8. Read(over)
    BY <1>6, <1>13, <1>16, <2>2, <2>6, <2>7 DEF Read
  <2> QED  BY <1>3, <2>1, <2>3, <2>8, StepRoutes
<1> QED  BY <1>17, <1>18

LEMMA NextRoutes == RoutesOK /\ [Routes!Next]_routeVars => RoutesOK'
<1> SUFFICES ASSUME RoutesOK, [Routes!Next]_routeVars PROVE RoutesOK'  OBVIOUS
<1>1. CASE UNCHANGED routeVars
  BY <1>1 DEF routeVars, RoutesOK, SavedTyped, Walking, Read, Moment
<1>2. ASSUME NEW r \in Readers, Routes!Exports(r) PROVE RoutesOK'
  <2>1. CASE Routes!RefuseToMix(r) \/ Routes!PageFails(r) \/ Routes!HandOut(r)
    <3>1. "changed" \in Walks /\ "failed" \in Walks /\ "done" \in Walks
      BY DEF Walks
    <3>2. CASE Routes!RefuseToMix(r)
      BY <3>1, <3>2, EndsRoutes DEF Routes!RefuseToMix
    <3>3. CASE Routes!PageFails(r)
      BY <3>1, <3>3, EndsRoutes DEF Routes!PageFails
    <3>4. CASE Routes!HandOut(r)
      BY <3>1, <3>4, EndsRoutes DEF Routes!HandOut
    <3> QED  BY <2>1, <3>2, <3>3, <3>4
  <2>2. CASE Routes!Start(r) \/ Routes!StopAtLimit(r) \/ Routes!ReadPage(r)
    BY <2>2, StartRoutes, StopRoutes, PageRoutes
  <2> QED  BY <1>2, <2>1, <2>2 DEF Routes!Exports
<1> QED  BY <1>1, <1>2, BuildsRoutes DEF Routes!Next

(***************************************************************************)
(* Routes: what an export shows                                            *)
(***************************************************************************)
WellShown(s, cs, m, complete) ==
    LET parts == UNION Routes!Range(m) IN
    /\ parts \subseteq DOMAIN cs
    /\ \A i, k \in DOMAIN m : i # k => m[i] \cap m[k] = {}
    /\ \A i, k \in DOMAIN m : i < k => \E c \in m[i] : \A d \in m[k] : c < d
    /\ s = "graph" => \A i \in DOMAIN m : \A c, d \in m[i] : c # d => cs[c] = cs[d] /\ cs[c] # ""
    /\ complete => parts = DOMAIN cs

\* What begins like the schemes of what is saved is as good as they are.
LEMMA BeginningWhole ==
    ASSUME NEW s, NEW cs, NEW all, WellMade(s, cs, all), NEW m \in Seq(SUBSET Nat), Begins(m, all)
    PROVE  WellShown(s, cs, m, Len(m) = Len(all))
<1>1. all \in Seq(SUBSET DOMAIN cs)
  BY DEF WellMade
<1>2. DOMAIN m = 1..Len(m) /\ DOMAIN all = 1..Len(all) /\ Len(m) \in Nat /\ Len(all) \in Nat
  BY <1>1
<1>3. \A i \in DOMAIN m : i \in DOMAIN all /\ m[i] = all[i]
  BY <1>2 DEF Begins
<1>4. \A i \in DOMAIN all : all[i] \subseteq DOMAIN cs
  BY <1>1, <1>2
<1>5. \A c : c \in UNION Routes!Range(m) <=> \E i \in DOMAIN m : c \in m[i]
  BY DEF Routes!Range
<1>6. Len(m) = Len(all) => \A c \in DOMAIN cs : \E i \in DOMAIN m : c \in m[i]
  BY <1>2, <1>3 DEF WellMade
<1>7. s = "graph" => \A i \in DOMAIN m : \A c, d \in m[i] : c # d => cs[c] = cs[d] /\ cs[c] # ""
  BY <1>3 DEF WellMade
<1>8. \A i, k \in DOMAIN m : i < k => \E c \in m[i] : \A d \in m[k] : c < d
  <2> SUFFICES ASSUME NEW i \in DOMAIN m, NEW k \in DOMAIN m, i < k PROVE \E c \in m[i] : \A d \in m[k] : c < d
    OBVIOUS
  <2>1. \E c \in all[i] : \A d \in all[k] : c < d
    BY <1>3 DEF WellMade
  <2> QED  BY <1>3, <2>1
<1>9. \A i, k \in DOMAIN m : i # k => m[i] \cap m[k] = {}
  BY <1>3 DEF WellMade
<1>10. UNION Routes!Range(m) \subseteq DOMAIN cs
  BY <1>3, <1>4, <1>5
<1>11. Len(m) = Len(all) => UNION Routes!Range(m) = DOMAIN cs
  BY <1>5, <1>6, <1>10
<1> QED  BY <1>7, <1>8, <1>9, <1>10, <1>11 DEF WellShown

LEMMA RoutesWhole == RoutesOK => ExportIsWhole
<1> SUFFICES ASSUME RoutesOK, NEW r \in Readers, export[r].step = "done", export[r].revision # 0,
                    NEW s \in Routes!Sources
             PROVE  WellShown(s, past[export[r].revision][s], export[r].merged[s],
                              export[r].complete /\ s \in Routes!Range(export[r].asked))
  BY DEF ExportIsWhole, Routes!ExportIsWhole, WellShown
<1> DEFINE e == export[r]
           saved == past[e.revision][s]
           shown == e.merged[s]
           all == Routes!Schemes(s, saved)
<1>1. e \in ExportType /\ Walking(e) /\ Read(e) /\ e.todo = <<>> /\ SavedTyped
  BY DEF RoutesOK, Walking
<1>2. e.revision # 0
  OBVIOUS
<1> HIDE DEF e
<1>3. saved \in Lists
  <2>1. e.revision \in 1..Len(past) /\ past \in Seq([Routes!Sources -> Lists])
    BY <1>1, <1>2, FieldsOf DEF Read, SavedTyped
  <2> QED  BY <2>1
<1>4. WellMade(s, saved, all)
  BY <1>3, SchemesWell
<1>5. Begins(shown, all) /\ shown \in Seq(SUBSET Nat)
  BY <1>1, <1>2, FieldsOf DEF Read, Moment
<1>6. e.complete /\ s \in Routes!Range(e.asked) => Len(shown) = Len(all)
  <2>1. CASE s = "graph"
    BY <1>1, <1>2, <2>1 DEF Read, Moment, Routes!Range
  <2>2. CASE s = "gemini"
    <3>1. s \in Routes!Range(e.asked) => e.asked = <<"graph", "gemini">>
      BY <1>1, <2>2, FieldsOf DEF Orders, Routes!Range
    <3> QED  BY <1>1, <1>2, <2>2, <3>1 DEF Read, Moment
  <2> QED  BY <2>1, <2>2 DEF Routes!Sources
<1> HIDE DEF saved, shown, all
<1>7. WellShown(s, saved, shown, Len(shown) = Len(all))
  BY <1>4, <1>5, BeginningWhole
<1>8. WellShown(s, saved, shown, e.complete /\ s \in Routes!Range(e.asked))
  BY <1>6, <1>7 DEF WellShown
<1> QED  BY <1>8 DEF e, saved, shown

(***************************************************************************)
(* The theorems, for the parts together                                    *)
(***************************************************************************)
ApiOK == SessionsOK /\ Windows /\ TripsOK /\ ListOK /\ RoutesOK

LEMMA InitApi == ApiInit => ApiOK
  BY InitSessions, InitWindows, InitTrips, InitList, InitRoutes DEF ApiInit, ApiOK

LEMMA NextApi == ApiOK /\ [ApiNext]_<<part, vars, tripVars, routeVars>> => ApiOK' /\ [Next]_vars
<1> SUFFICES ASSUME ApiOK, [ApiNext]_<<part, vars, tripVars, routeVars>> PROVE ApiOK' /\ [Next]_vars  OBVIOUS
<1>1. [Next]_vars /\ [Trips!Next]_tripVars /\ [Routes!Next]_routeVars
  BY DEF ApiNext
<1> QED  BY <1>1, NextSessions, NextWindows, NextTrips, NextList, NextRoutes DEF ApiOK

LEMMA AlwaysApi == ApiSpec => []ApiOK
<1>1. ApiOK /\ [ApiNext]_<<part, vars, tripVars, routeVars>> => ApiOK'
  BY NextApi
<1> QED  BY InitApi, <1>1, PTL DEF ApiSpec

(***************************************************************************)
(* However attempts, full tables and the ends of windows interleave, fewer *)
(* than twice the allowed attempts of an address are admitted within any   *)
(* span of one window (limiter.allow). That is all a window which opens    *)
(* with an attempt can keep: the limit itself, which                       *)
(* docs/specs/cabinet-auth.md:17 promises, is AttemptsPerWindow, and the   *)
(* run login_window_edge shows it broken.                                  *)
(***************************************************************************)
THEOREM LimitHolds == ApiSpec => []AttemptsBounded
<1>1. ApiOK => AttemptsBounded
  BY WindowsBound DEF ApiOK
<1> QED  BY AlwaysApi, <1>1, PTL

(***************************************************************************)
(* A session whose browser was told of its end, by a logout or by the next *)
(* login, identifies nobody any more, in any overlap of requests (Logout,  *)
(* ReplaceSession).                                                        *)
(***************************************************************************)
THEOREM EndedSessionsStayEnded == ApiSpec => []SignedOutStaysOut
<1>1. ApiOK => SignedOutStaysOut
  BY SignedOutHolds DEF ApiOK
<1> QED  BY AlwaysApi, <1>1, PTL

(***************************************************************************)
(* An account comes with a session, and a session goes only by logout or   *)
(* for the next one of its browser, at whatever statement a handler fails  *)
(* (RegisterWithSession, ReplaceSession).                                  *)
(***************************************************************************)
THEOREM WritesAreWhole == ApiSpec => NothingHalfDone
<1>1. ApiOK /\ [ApiNext]_<<part, vars, tripVars, routeVars>> => [Whole]_vars
  BY NextApi, NothingHalfDoneStep DEF ApiOK
<1>2. NothingHalfDone <=> [][Whole]_vars
  BY PTL DEF NothingHalfDone, Whole
<1> QED  BY AlwaysApi, <1>1, <1>2, PTL DEF ApiSpec

(***************************************************************************)
(* There is one trip per request id, and every repetition of a creation is *)
(* answered in agreement with it (Store.CreateTrip).                       *)
(***************************************************************************)
THEOREM RepetitionsAgree == ApiSpec => []RetriesAgree
<1>1. ApiOK => RetriesAgree
  BY TripsAgree DEF ApiOK
<1> QED  BY AlwaysApi, <1>1, PTL

(***************************************************************************)
(* A reader of all pages sees every trip that was there at the first page, *)
(* though trips come in before and behind the page (Store.ListTrips).      *)
(***************************************************************************)
THEOREM NoTripIsSkipped == ApiSpec => []PagesSkipNothing
<1>1. ApiOK => PagesSkipNothing
  BY DEF ApiOK, ListOK, Walked, PagesSkipNothing, Trips!PagesSkipNothing
<1> QED  BY AlwaysApi, <1>1, PTL

(***************************************************************************)
(* An export that is handed out shows the routes of one revision, each     *)
(* candidate in at most one scheme and in the order of what was saved, and *)
(* all of them where it calls itself complete, though the building goes on *)
(* between its pages (GetRoutes, collectAllRoutes).                         *)
(***************************************************************************)
THEOREM ExportsAreWhole == ApiSpec => []ExportIsWhole
<1>1. ApiOK => ExportIsWhole
  BY RoutesWhole DEF ApiOK
<1> QED  BY AlwaysApi, <1>1, PTL

=============================================================================
