------------------------------ MODULE MCCatalogs ------------------------------
(***************************************************************************)
(* Instance of Catalogs for TLC: GeoNames and OurAirports, each with two   *)
(* versions of its files. The second version of the cities brings a        *)
(* country that the first one of the countries lacks.                      *)
(***************************************************************************)
EXTENDS Catalogs, TLC

City(i, country, region) == [id |-> i, country |-> country, region |-> region]
Place(i, code, name) == [id |-> i, code |-> code, name |-> name]
Name(i, of, lang, name, preferred, short) ==
    [id |-> i, of |-> of, lang |-> lang, name |-> name, preferred |-> preferred, short |-> short, current |-> i # 3]

AA == Place(10, "AA", "aa")
BB == Place(11, "BB", "bb")
Region == Place(12, "R", "r")

GeoNames ==
    [kind |-> "cities",
     files |-> [countries |-> <<{AA}, {AA, BB}>>,
                cities |-> <<{City(1, "AA", "R"), City(2, "AA", "R")}, {City(2, "AA", "other"), City(3, "BB", "R")}>>,
                regions |-> <<{Region}, {Region}>>,
                names |-> <<{Name(1, 1, "ru", "n1", TRUE, FALSE), Name(2, 1, "ru", "n2", TRUE, FALSE),
                             Name(3, 2, "ru", "n3", FALSE, FALSE), Name(4, 1, "iata", "AAA", FALSE, FALSE)},
                            {Name(5, 2, "ru", "n5", FALSE, FALSE), Name(6, 2, "ru", "n6", FALSE, TRUE),
                             Name(7, 12, "ru", "n7", FALSE, FALSE),
                             Name(8, 2, "iata", "AAA", FALSE, FALSE), Name(9, 2, "iata", "BBB", FALSE, FALSE)}>>]]

Airport(i, name, sound) == [id |-> i, name |-> name, sound |-> sound, scheduled |-> i # 1]

OurAirports(second) ==
    [kind |-> "airports",
     files |-> [airports |-> <<{Airport(i, "old", TRUE) : i \in 1..3}, second>>]]

MCUpstreams ==
    {GeoNames, OurAirports({Airport(2, "new", TRUE), Airport(1, "new", TRUE)}),
     OurAirports({Airport(2, "new", TRUE), Airport(2, "other", TRUE)}),
     OurAirports({Airport(3, "new", TRUE), Airport(2, "new", FALSE)}), OurAirports({Airport(3, "new", TRUE)})}

Symmetry == Permutations(Processes)
==============================================================================
