----------------------------- MODULE MCServices -----------------------------
EXTENDS Services
MCOffers == [u \in Urls |-> IF u = "u1" THEN {"s1"} ELSE {"s1", "s2"}]
=============================================================================
