------------------------------ MODULE MCOwnerApi ------------------------------
(***************************************************************************)
(* Instance of OwnerApi for TLC. Sessions: two browsers behind different   *)
(* addresses and a table that tracks one, scripts of four and five         *)
(* requests. Trips: three or four forms on two cities. Routes: plans and   *)
(* replies at and beyond each limit, and two readers of one trip.          *)
(***************************************************************************)
EXTENDS OwnerApi, Sequences

MCBrowsers == {"b1", "b2"}
MCAddressOf == [b \in MCBrowsers |-> IF b = "b1" THEN "here" ELSE "there"]

Does(b, op, email, password) == [by |-> b, op |-> op, email |-> email, password |-> password]

\* One browser signs in and out again; two register the same account; one
\* address goes on trying while the other waits for room in the table.
MCScripts ==
    {<<Does("b1", "register", "e1", "p1"), Does("b1", "login", "e1", "p1"),
       Does("b1", "logout", "none", "none"), Does("b1", "whoami", "none", "none")>>,
     <<Does("b1", "register", "e1", "p1"), Does("b2", "register", "e1", "p2"),
       Does("b2", "login", "e1", "p1"), Does("b2", "logout", "none", "none")>>,
     <<Does("b1", "login", "e1", "p1"), Does("b1", "login", "e1", "p1"), Does("b1", "login", "e1", "p2"),
       Does("b1", "register", "e1", "short"), Does("b2", "register", "e1", "p1")>>}

\* A repetition and another content under one key, a form with an error, and three trips.
Form(key, content) == [key |-> key, content |-> content]
Journey == [origin |-> "a", destination |-> "b", from |-> 1, to |-> 2, adults |-> 1]
MCForms ==
    {<<Form("k", Journey), Form("k", Journey), Form("k", [Journey EXCEPT !.adults = 2])>>,
     <<Form("k", Journey), Form("l", [Journey EXCEPT !.to = 0]), Form("k", Journey), Form("l", Journey)>>,
     <<Form("k", Journey), Form("l", Journey), Form("m", Journey)>>}

\* Plans that fill the pages beyond their limit, that time out and that fail; replies
\* that are taken, that break one limit each, and that never come.
Plan(candidates, failures, error) == [candidates |-> candidates, failures |-> failures, error |-> error]
MCPlans ==
    {Plan(<<"k", "", "k", "l", "", "m">>, 0, "none"), Plan(<<"k", "k", "">>, 1, "timeout"), Plan(<<>>, 1, "none"),
     Plan(<<>>, 0, "none")}

Path(steps, warnings) == [steps |-> steps, warnings |-> warnings]
Reply(candidates, finish, paths) == [body |-> "answer", candidates |-> candidates, finish |-> finish, paths |-> paths]
Three == <<Path(1, 0), Path(2, 1), Path(1, 1)>>
MCReplies ==
    {Reply(1, "STOP", Three), Reply(1, "STOP", <<>>), Reply(1, "STOP", Three \o <<Path(1, 0)>>),
     Reply(1, "STOP", <<Path(1, 0), Path(0, 1)>>), Reply(1, "MAX_TOKENS", Three), Reply(2, "STOP", Three)}
    \cup {[Reply(0, "none", <<>>) EXCEPT !.body = b] : b \in {"unconfigured", "deadline", "refused"}}

==============================================================================
