-------------------------------- MODULE MCDNS --------------------------------
EXTENDS DNS

\* Names, as sequences of labels.
Plain == <<"www", "org">>
Alias == <<"alias", "org">>
Danger == <<"sub", "evil", "org">>
DangerAbove == <<"evil", "org">>
Adult == <<"adult", "org">>
Search == <<"search", "org">>
Strict == <<"strict", "org">>
Ads == <<"ads", "org">>
Known == <<"known", "lan">>
Unknown == <<"new", "lan">>
BlockPage == <<"page", "org">>

MCSuffixes == {<<"org">>, <<"lan">>, <<"arpa">>}
MCLocal == <<"lan">>
MCZero4 == <<"0.0.0.0">>
MCZero6 == <<"::">>
MCV4 == {<<"1.1.1.1">>, <<"9.9.9.9">>, <<"0.0.0.0">>, <<"192.168.0.2">>}
MCV6 == {<<"::">>, <<"fe::1">>}
MCLower == ("EVIL" :> "evil")
MCPrefix ==
    (Danger :> "p1") @@ (DangerAbove :> "p2") @@ (Adult :> "p2") @@ (<<"org">> :> "p0")
    @@ [n \in {Plain, Alias, Search, Strict, Ads, BlockPage} |-> "p1"]
    @@ [n \in {Known, Unknown, MCLocal} |-> "p3"]
MCMap64 == (<<"192.168.0.2">> :> <<"fe::1">>)

Addr(ip) == [ip |-> ip, port |-> 53]
L(kind, ip, domains) == [kind |-> kind, addr |-> Addr(ip), domains |-> domains]
MCLine ==
    ("u1" :> L("ups", <<"9.9.9.9">>, {})) @@ ("u2" :> L("ups", <<"1.1.1.1">>, {}))
    @@ ("d1" :> L("ups", <<"1.1.1.1">>, {Ads})) @@ ("own" :> L("ups", <<"192.168.0.2">>, {}))
    @@ ("bad" :> L("bad", <<"0.0.0.0">>, {})) @@ ("#" :> L("comment", <<"0.0.0.0">>, {}))
MCFiles == ("f1" :> <<"#", "u2">>) @@ ("gone" :> None)
MCRulesets == ("r1" :> [scheme |-> "https", fresh |-> FALSE, file |-> {Ads}, remote |-> {Plain}])
MCSys == <<Addr(<<"1.1.1.1">>), Addr(<<"192.168.0.2">>)>>
MCIfaces == {<<"192.168.0.2">>}
MCClient ==
    ("c1" :> [kind |-> "id", ips |-> {}]) @@ ("ip1" :> [kind |-> "ip", ips |-> {"ip1"}])
    @@ ("net" :> [kind |-> "net", ips |-> {"ip1", "ip2"}])
    @@ ("junk" :> [kind |-> "bad", ips |-> {}])

MCDefaults == [upstreams |-> <<"u1">>, bootstrap |-> <<"u1">>, hosts |-> <<<<"version", "bind">>>>]
MCConf ==
    [upstream_dns |-> <<"u1", "d1">>, upstream_dns_file |-> None, bootstrap_dns |-> <<>>,
     fallback_dns |-> <<"u2">>, upstream_alternate_dns |-> <<"u2">>,
     upstream_alternate_rulesets |-> <<"r1">>, local_ptr_upstreams |-> <<>>,
     use_private_ptr_resolvers |-> TRUE, upstream_mode |-> "load_balance",
     cache_ttl_min |-> 0, cache_ttl_max |-> 2, disable_ipv6 |-> FALSE,
     dnssec_enabled |-> TRUE, edns_cs_custom_ip |-> None, ratelimit |-> 20,
     upstream_timeout |-> 10, service_type |-> "", server_name |-> <<"dns", "org">>,
     strict_sni |-> TRUE, listen |-> {Addr(<<"0.0.0.0">>)}, cert |-> TRUE,
     encrypted |-> {}, serve_plain |-> TRUE, dns64 |-> TRUE, handle_ddr |-> TRUE,
     access |-> [allowed |-> <<>>, disallowed |-> <<"ip1">>, hosts |-> <<>>]]

Rewrite(d, a) == [domain |-> d, answer |-> a]
MCFilter ==
    [protection |-> TRUE, until |-> None, filtering |-> TRUE,
     blocking |-> [mode |-> "default", v4 |-> None, v6 |-> None],
     sb |-> TRUE, pc |-> TRUE, ss |-> [enabled |-> TRUE, services |-> {"s1"}],
     rewrites |-> <<normalize(Rewrite(Alias, Plain))>>]

MCEngines ==
    [allow |-> <<>>,
     block |-> (Ads :> [NoMatch EXCEPT !.net = "block"])]
MCEtcHosts == (<<"hosts", "org">> :> <<<<"1.1.1.1">>>>)
MCBad == [sb |-> {DangerAbove}, pc |-> {Adult}]
MCSafe ==
    [s1 |-> (Search :> [type |-> "CNAME", cname |-> Strict, val |-> None]),
     s2 |-> (Search :> [type |-> "A", cname |-> None, val |-> <<"1.1.1.1">>])]
RR(n, type, val) == [name |-> n, type |-> type, val |-> val]
MCZone ==
    (Plain :> <<RR(Plain, "CNAME", Ads), RR(Ads, "A", <<"1.1.1.1">>)>>)
    @@ (Strict :> <<RR(Strict, "A", <<"9.9.9.9">>)>>)
    @@ (BlockPage :> <<RR(BlockPage, "A", <<"9.9.9.9">>)>>)
MCIgnored == {Known}
MCLeases == (<<"known">> :> <<"192.168.0.2">>)
MCLeaseHosts == (<<"192.168.0.2">> :> <<"known">>)
MCPage == [sb |-> <<"9.9.9.9">>, pc |-> BlockPage]
MCTLS == [https |-> <<443>>, tls |-> <<853>>, quic |-> <<>>, hasIPAddrs |-> TRUE]

Ask1(name, type) ==
    [q |-> [name |-> name, type |-> type], ip |-> "ip2", proto |-> "udp", sni |-> <<>>,
     path |-> <<>>, private |-> TRUE, arpa |-> None, ad |-> FALSE]
Over(proto, sni, path, ask) == [ask EXCEPT !.proto = proto, !.sni = sni, !.path = path]
MCQueries ==
    {Ask1(Alias, "A"), Ask1(<<"sub", "EVIL", "org">>, "A"), Ask1(Adult, "A"), Ask1(Search, "A"),
     Over("https", <<>>, <<"dns-query", "c1">>, Ask1(Known, "AAAA")),
     Over("tls", <<"c1", "dns", "org">>, <<>>, [Ask1(Unknown, "A") EXCEPT !.ip = "ip1"]),
     [Ask1(<<"2", "0", "168", "192">>, "PTR") EXCEPT !.arpa = <<"192.168.0.2">>],
     Over("tls", <<"dns", "net">>, <<>>, Ask1(<<"_dns", "resolver", "arpa">>, "SVCB"))}

Op1(name, arg) == [name |-> name, arg |-> arg]
Set(name, val) == Op1("dns_config", name :> val)
Settings(on, services) == Op1("ss_settings", [enabled |-> on, services |-> services])
Pause == Op1("protection", [enabled |-> FALSE, duration |-> 1])
Test(ups) ==
    Op1("test_upstream", [upstream_dns |-> ups, fallback_dns |-> <<"u2">>,
                          private_upstream |-> <<"own">>, bootstrap_dns |-> <<"#">>])
MCScripts ==
    {<<Set("fallback_dns", <<"bad">>), Set("fallback_dns", <<"#">>), Op1("close", None)>>,
     <<Set("cache_ttl_min", 3)>>,
     <<Test(<<"d1", "u1", "#">>), Set("use_private_ptr_resolvers", TRUE)>>,
     <<Op1("access", [allowed |-> <<"c1">>, disallowed |-> <<>>, hosts |-> <<Plain>>]),
       Set("upstream_dns_file", "gone"), Test(<<"bad">>)>>,
     <<Pause, Op1("protection", [enabled |-> FALSE, duration |-> 0])>>,
     <<Pause, Set("protection_enabled", TRUE)>>,
     <<Op1("rewrite", [what |-> "delete", target |-> Rewrite(Alias, Plain), entry |-> None]),
       Op1("rewrite", [what |-> "add", target |-> None, entry |-> Rewrite(<<"*", "lan">>, Plain)])>>,
     <<Op1("sb", FALSE), Settings(TRUE, {"s2"})>>,
     <<Op1("ss_enable", FALSE), Settings(FALSE, {"s2"}), Op1("ss_enable", TRUE)>>}

MCFreezeQueries == {Ask1(Adult, "A")}
MCFreezeScripts == {<<Op1("close", None)>>}
=============================================================================
