-------------------------- MODULE MCRuntimeClients --------------------------
EXTENDS RuntimeClients

MCProcs == {1, 2}
\* A server that is found after one redirect, and one too many redirects.
MCChains ==
    {<< <<<<"referralserver", "s">>>>,
        <<<<"netname", "n">>, <<"orgname", "o">>, <<"country", "x">>, <<"descr", "d">>>> >>,
     << <<<<"whois", "s">>>>, <<<<"whois", "t">>>>, <<<<"city", "c">>>> >>}
MCTables == {{}, {[ip |-> "pub", host |-> "h1"], [ip |-> Nil, host |-> "h2"]}}
MCContents == {[ip \in IPs |-> n] : n \in {"h1", Nil}}
=============================================================================
