----------------------------- MODULE MCDelivery -----------------------------
(***************************************************************************)
(* Instance of Delivery for TLC. The calls are seven of six methods, one   *)
(* of them to Google Flights, one refused and one too long for a frame.    *)
(***************************************************************************)
EXTENDS Delivery, TLC

CONSTANTS m1, m2

MCRefused == {m1}

Ask(method, key, page) ==
    [method |-> method, key |-> key, mode |-> "plane", page |-> page, sound |-> TRUE, size |-> 1]

MCCalls ==
    <<Ask("departures", "k2", 1), Ask("flight-paths", "k3", 1), [Ask("thread", "k1", 1) EXCEPT !.sound = FALSE],
      Ask("stations", "k1", 1), Ask("thread", "k3", 1), [Ask("search", "k1", 1) EXCEPT !.size = 2],
      Ask("settlement", "k1", 1)>>

Item(direct, ends) == [mode |-> "plane", direct |-> direct, ends |-> ends]

Sound(ends, intervals) ==
    [pages |-> <<{Item(TRUE, "asked")}, {Item(TRUE, ends)}>>, intervals |-> intervals]

MCWorlds ==
    {[k1 |-> Sound("other", FALSE), k2 |-> Sound("asked", TRUE),
      k3 |-> [pages |-> <<{Item(TRUE, "asked"), Item(FALSE, "asked")}>>, intervals |-> FALSE]],
     [k1 |-> [pages |-> <<{Item(TRUE, "unnamed")}>>, intervals |-> TRUE],
      k2 |-> Sound("other", FALSE), k3 |-> [pages |-> <<{Item(TRUE, "other")}>>, intervals |-> FALSE]]}

=============================================================================
