--------------------------- MODULE MCClientIndex ---------------------------
EXTENDS ClientIndex, TLC

\* An address, a text that is both an address and a hardware address, a
\* hardware address, a ClientID in both cases, and two nested subnets.
MCStrings == {"ip", "eui", "mac", "cid", "CID", "narrow", "wide", "bad"}
MCIPs == {"ip", "eui"}
MCMACs == {"eui", "mac"}
MCClientIDs == {"cid", "CID"}
MCSubnets == <<"narrow", "wide">>
MCContains == {<<"narrow", "ip">>, <<"wide", "ip">>, <<"wide", "eui">>}
MCLower == [s \in MCStrings |-> IF s = "CID" THEN "cid" ELSE s]

T(ids, ups, own, valid) ==
    [ids |-> ids, ups |-> ups, own |-> own, svc |-> ~own, valid |-> valid]

MCTemplates ==
    {T({"ip", "CID"}, "a", TRUE, TRUE), T({"eui", "wide"}, "b", FALSE, TRUE),
     T({"mac", "narrow", "cid"}, "none", TRUE, TRUE),
     T({"ip", "bad"}, "a", TRUE, TRUE), T({"mac"}, "b", TRUE, FALSE)}

MCRequests == {<<"cid", "ip">>}
MCLeases == {<<"ip", "mac">>}
MCInitialFiles ==
    LET c(n, ids) == jsonToClient(n, CHOOSE t \in MCTemplates : t.ids = ids) IN
    {[u \in UIDs |-> NoClient]}
    \cup {f \in [UIDs -> {c("n1", {"ip", "CID"}), c("n2", {"eui", "wide"})}] : Loads(f)}

Symmetric == Permutations(UIDs)
=============================================================================
