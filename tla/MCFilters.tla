----------------------------- MODULE MCFilters -----------------------------
\* A configuration file with a list given twice, the second time without an
\* ID, and an ID given twice.
EXTENDS Filters

MCDocuments == {<<"title", "rule1", "comment">>, <<"rule1", "", "rule2">>, <<"comment">>}

List(id, url) == [id |-> id, url |-> url, enabled |-> TRUE, sum |-> <<>>, fresh |-> FALSE]

MCFirstLists ==
    [block |-> <<List(1, "u1"), List(0, "u1"), List(1, "u2")>>, allow |-> <<>>]

MCFirstRemote ==
    [u \in Urls |-> IF u = "u3" THEN <<"rule1", "", "rule2">> ELSE <<"title", "rule1", "comment">>]

MCOutages == {<<"u1", Down>>, <<"u3", <<"comment">>>>}

MCNewUrl == [u \in Urls |-> IF u = "u1" THEN {u, "u3"} ELSE {u}]
=============================================================================
