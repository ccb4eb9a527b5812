------------------------------ MODULE DNSConf -------------------------------
(* The configuration of the DNS server: how a request to change it is        *)
(* validated and merged, and what the server prepares from it.  A            *)
(* configuration is a function from the names of the settings, as the web    *)
(* interface calls them; a request is such a function on the settings it     *)
(* names.  A line of an upstream list is a value that Line describes.        *)
EXTENDS DNSMsg, FiniteSets

CONSTANTS Line,        \* what each line of an upstream list says
          Files,       \* the files of upstream lines, by name
          Rulesets,    \* what each ruleset address leads to
          SysResolvers,\* the addresses of the system's resolvers
          IfaceAddrs,  \* the addresses of the network interfaces
          Client,      \* what each entry of an access list is
          MaxParallelUpstreams, MaxUpstreams, MaxDomains

-----------------------------------------------------------------------------
(* The settings that are modelled: of the DNS section of the configuration   *)
(* file, of the certificate, and those the program adds; and the ones a      *)
(* request may name.                                                         *)

Config == {"upstream_dns", "upstream_dns_file", "bootstrap_dns", "fallback_dns",
    "upstream_alternate_dns", "upstream_alternate_rulesets", "upstream_mode", "cache_ttl_min",
    "cache_ttl_max", "disable_ipv6", "dnssec_enabled", "edns_cs_custom_ip", "ratelimit",
    "access", "handle_ddr"}
TLSConfig == {"server_name", "strict_sni", "cert", "encrypted"}
ServerConfig == Config \cup TLSConfig \cup {"upstream_timeout", "local_ptr_upstreams",
    "use_private_ptr_resolvers", "listen", "serve_plain", "dns64", "service_type"}
jsonDNSConfig == (Config \ {"access", "handle_ddr"}) \cup {"upstream_timeout",
    "local_ptr_upstreams", "use_private_ptr_resolvers", "blocking", "protection_enabled",
    "edns_cs_enabled", "edns_cs_use_custom", "cache_size", "cache_optimistic",
    "resolve_clients", "ratelimit_subnet_len_ipv4", "ratelimit_subnet_len_ipv6",
    "ratelimit_whitelist"}

-----------------------------------------------------------------------------
(* Upstream lists *)

IsCommentOrEmpty(line) == Line[line].kind = "comment"
FilterOut(lines) == Only(lines, {i \in DOMAIN lines : ~IsCommentOrEmpty(lines[i])})

(* One address per line, general or for some domains; a bad line fails all. *)
ParseUpstreamsConfig(lines) ==
    LET used == FilterOut(lines)
        of(d) == SelectSeq(used, LAMBDA l : d \in Line[l].domains)
        general == SelectSeq(used, LAMBDA l : Line[l].domains = {})
        addrs(s) == [i \in DOMAIN s |-> Line[s[i]].addr]
    IN  [err |-> \E i \in DOMAIN used : Line[used[i]].kind = "bad",
         ups |-> addrs(general),
         reserved |-> [d \in UNION {Line[used[i]].domains : i \in DOMAIN used} |-> addrs(of(d))]]

loadUpstreams(conf) ==
    IF conf.upstream_dns_file = None THEN conf.upstream_dns
    ELSE Files[conf.upstream_dns_file]

newUpstreamConfig(lines, default) ==
    LET uc == ParseUpstreamsConfig(lines)
    IN  [uc EXCEPT !.ups = IF @ = <<>> THEN ParseUpstreamsConfig(default).ups ELSE @]

newBootstrap(addrs, default) ==
    LET used == IF addrs = <<>> THEN default ELSE addrs
    IN  [err |-> \E i \in DOMAIN used : Line[used[i]].kind # "ups"]

(* The server's own addresses, as a test.  As soon as one listening address *)
(* is unspecified, only its port on the interfaces' addresses counts.       *)
ourAddrsSet(conf, addr) ==
    LET unspec == {a \in conf.listen : a.ip \in {Zero4, Zero6}}
    IN  IF unspec = {} THEN addr \in conf.listen
        ELSE addr.port \in {a.port : a \in unspec} /\ addr.ip \in IfaceAddrs

filterOutAddrs(conf, uc) ==
    LET foreign(addr) == ~ourAddrsSet(conf, addr)
    IN  [uc EXCEPT !.ups = SelectSeq(@, foreign),
                   !.reserved = [d \in DOMAIN @ |-> SelectSeq(@[d], foreign)]]

defaultLocalPTRUpstreams(conf) ==
    SelectSeq(SysResolvers, LAMBDA addr : ~ourAddrsSet(conf, addr))

(* A private configuration may name no domains but private ones.            *)
newPrivateConfig(conf, lines) ==
    LET uc == IF lines = <<>>
              THEN [err |-> FALSE, ups |-> defaultLocalPTRUpstreams(conf), reserved |-> <<>>]
              ELSE filterOutAddrs(conf, ParseUpstreamsConfig(lines))
    IN  [uc EXCEPT !.err = @ \/ DOMAIN uc.reserved # {}]

prepareLocalResolvers(conf) ==
    IF conf.use_private_ptr_resolvers THEN newPrivateConfig(conf, conf.local_ptr_upstreams)
    ELSE [err |-> FALSE, ups |-> <<>>, reserved |-> <<>>]

setupFallbackDNS(conf) == ParseUpstreamsConfig(conf.fallback_dns)

(* A fresh file is used as it is; otherwise the download must succeed, an   *)
(* old file does not help.                                                  *)
downloadRuleset(url) ==
    IF Rulesets[url].scheme \notin {"http", "https"} THEN None
    ELSE IF Rulesets[url].fresh THEN Rulesets[url].file ELSE Rulesets[url].remote

(* A ruleset that cannot be had adds nothing.                               *)
downloadAndParseRuleset(url) == IF downloadRuleset(url) = None THEN {} ELSE downloadRuleset(url)

prepareAlternateUpstreams(conf) ==
    LET alt == ParseUpstreamsConfig(conf.upstream_alternate_dns)
        urls == Range(conf.upstream_alternate_rulesets)
    IN  IF FilterOut(conf.upstream_alternate_dns) = <<>> \/ alt.err THEN <<>>
        ELSE [d \in UNION {downloadAndParseRuleset(u) : u \in urls} |-> alt.ups]

(* The alternate upstreams of a domain replace the ones of the lists.       *)
mergeAlternateUpstreams(uc, alt) == [uc EXCEPT !.reserved = alt @@ @]

(* At most MaxDomains domains, whichever, with at most MaxUpstreams each,   *)
(* and in parallel mode MaxParallelUpstreams in all the lists.              *)
limitResourceUsage(proxy) ==
    LET cut(s, n) == SubSeq(s, 1, IF Len(s) < n THEN Len(s) ELSE n)
        parallel == proxy.mode = "parallel"
        most == IF parallel /\ MaxParallelUpstreams < MaxUpstreams
                THEN MaxParallelUpstreams ELSE MaxUpstreams
        all == DOMAIN proxy.reserved
        kept == IF Cardinality(all) <= MaxDomains THEN all
                ELSE CHOOSE D \in SUBSET all : Cardinality(D) = MaxDomains
    IN  [proxy EXCEPT
            !.reserved = [d \in kept |-> cut(@[d], most)],
            !.ups = IF parallel THEN cut(@, MaxParallelUpstreams) ELSE @,
            !.fallback = IF parallel THEN cut(@, MaxParallelUpstreams) ELSE @]

-----------------------------------------------------------------------------
(* Access lists *)

newAccessCtx(list) ==
    LET of(entries, kind) == {e \in Range(entries) : Client[e].kind = kind}
    IN  [err |-> of(list.allowed \o list.disallowed, "bad") # {},
         allowedIPs |-> of(list.allowed, "ip") \cup of(list.allowed, "net"),
         blockedIPs |-> of(list.disallowed, "ip") \cup of(list.disallowed, "net"),
         allowedIDs |-> of(list.allowed, "id"), blockedIDs |-> of(list.disallowed, "id"),
         hosts |-> {ToLower(h) : h \in Range(list.hosts)}]

allowlistMode(a) == a.allowedIPs # {} \/ a.allowedIDs # {}

isBlockedClientID(a, id) ==
    IF id = None THEN allowlistMode(a)
    ELSE IF allowlistMode(a) THEN id \notin a.allowedIDs ELSE id \in a.blockedIDs

isBlockedIP(a, ip) ==
    LET in(entries) == \E e \in entries : ip \in Client[e].ips
    IN  IF allowlistMode(a) THEN ~in(a.allowedIPs) ELSE in(a.blockedIPs)

isBlockedHost(a, host) == host \in a.hosts

(* In allowlist mode one permission is enough, otherwise one ban is.        *)
IsBlockedClient(a, ip, id) ==
    IF allowlistMode(a) THEN isBlockedIP(a, ip) /\ isBlockedClientID(a, id)
    ELSE isBlockedIP(a, ip) \/ isBlockedClientID(a, id)

validateAccessSet(list) ==
    /\ IsInjective(list.allowed) /\ IsInjective(list.disallowed) /\ IsInjective(list.hosts)
    /\ Range(list.allowed) \cap Range(list.disallowed) = {}

-----------------------------------------------------------------------------
(* The ClientID of an encrypted request *)

clientIDFromClientServerName(host, cli, strict) ==
    LET sub == Len(cli) = Len(host) + 1 /\ Tail(cli) = host
    IN  IF host = cli \/ (~sub /\ ~strict) THEN [err |-> FALSE, id |-> None]
        ELSE IF sub /\ Client[cli[1]].kind = "id" THEN [err |-> FALSE, id |-> ToLower(cli)[1]]
        ELSE [err |-> TRUE, id |-> None]

(* path is what follows the leading slash, part by part.                    *)
clientIDFromDNSContextHTTPS(path) ==
    IF path = <<"dns-query">> THEN [err |-> FALSE, id |-> None]
    ELSE IF /\ Len(path) = 2 /\ path[1] = "dns-query"
            /\ Client[path[2]].kind = "id"
         THEN [err |-> FALSE, id |-> ToLower(path)[2]]
    ELSE [err |-> TRUE, id |-> None]

clientIDFromDNSContext(conf, ctx) ==
    LET path == clientIDFromDNSContextHTTPS(ctx.path)
    IN  IF ctx.proto = "https" /\ (path.err \/ path.id # None) THEN path
        ELSE IF ctx.proto \notin {"https", "tls", "quic"} \/ conf.server_name = <<>>
             THEN [err |-> FALSE, id |-> None]
        ELSE clientIDFromClientServerName(conf.server_name, ctx.sni, conf.strict_sni)

-----------------------------------------------------------------------------
(* Validation of a request *)

Asked(req, name, default) == IF name \in DOMAIN req THEN req[name] ELSE default

checkInclusion(req, name, max) == name \in DOMAIN req => req[name] \in 0..max
checkRatelimitSubnetMaskLen(req) ==
    /\ checkInclusion(req, "ratelimit_subnet_len_ipv4", 32)
    /\ checkInclusion(req, "ratelimit_subnet_len_ipv6", 128)

validateCacheTTL(min, max) == (min = 0 /\ max = 0) \/ max = 0 \/ min <= max
(* A bound the request does not name counts as zero, whatever it is now.    *)
checkCacheTTL(req) ==
    validateCacheTTL(Asked(req, "cache_ttl_min", 0), Asked(req, "cache_ttl_max", 0))

validateBlockingMode(blocking) ==
    CASE blocking.mode = "custom_ip" -> Is4(blocking.v4) /\ Is6(blocking.v6)
      [] OTHER -> blocking.mode \in {"default", "nxdomain", "refused", "null_ip"}
checkBlockingMode(req) == "blocking" \in DOMAIN req => validateBlockingMode(req.blocking)

checkUpstreamMode(req) ==
    "upstream_mode" \in DOMAIN req =>
        req.upstream_mode \in {"", "load_balance", "parallel", "fastest_addr"}
mustParseUpstreamMode(mode) == IF mode = "" THEN "load_balance" ELSE mode

checkUpstreamTimeout(req) == "upstream_timeout" \in DOMAIN req => req.upstream_timeout >= 1

checkBootstrap(req) ==
    "bootstrap_dns" \in DOMAIN req =>
        \A i \in DOMAIN req.bootstrap_dns : Line[req.bootstrap_dns[i]].kind = "ups"

containsPrivateRDNS(req) ==
    \/ Asked(req, "use_private_ptr_resolvers", FALSE)
    \/ Asked(req, "local_ptr_upstreams", <<>>) # <<>>
checkPrivateRDNS(conf, req) ==
    containsPrivateRDNS(req) =>
        ~newPrivateConfig(conf, Asked(req, "local_ptr_upstreams", <<>>)).err

(* Mutant: the fallback servers are not looked at.                          *)
ValidateNoFallback(conf, req) ==
    /\ ~ParseUpstreamsConfig(Asked(req, "upstream_dns", <<>>)).err
    /\ checkPrivateRDNS(conf, req) /\ checkBootstrap(req)

validateUpstreamDNSServers(conf, req) ==
    /\ ~ParseUpstreamsConfig(Asked(req, "upstream_dns", <<>>)).err
    /\ checkPrivateRDNS(conf, req)
    /\ checkBootstrap(req)
    /\ ~ParseUpstreamsConfig(Asked(req, "fallback_dns", <<>>)).err

validate(conf, req) ==
    /\ validateUpstreamDNSServers(conf, req) /\ checkRatelimitSubnetMaskLen(req)
    /\ checkBlockingMode(req) /\ checkUpstreamMode(req)
    /\ checkCacheTTL(req) /\ checkUpstreamTimeout(req)

(* Only an enterprise installation may change the rate limit and the cache. *)
checkServiceType(conf, req) ==
    IF conf.service_type \in {"", "enterprise"} THEN req
    ELSE [f \in DOMAIN req \ {"ratelimit", "cache_size"} |-> req[f]]

-----------------------------------------------------------------------------
(* Merging a request *)

Restartable == {"upstream_dns", "local_ptr_upstreams", "upstream_dns_file", "bootstrap_dns",
    "fallback_dns", "upstream_alternate_dns", "upstream_alternate_rulesets",
    "edns_cs_enabled", "edns_cs_use_custom", "cache_size", "cache_ttl_min", "cache_ttl_max",
    "cache_optimistic", "resolve_clients", "use_private_ptr_resolvers",
    "ratelimit_subnet_len_ipv4", "ratelimit_subnet_len_ipv6", "ratelimit_whitelist"}

setIfNotNil(conf, req, names) ==
    [f \in DOMAIN conf |-> IF f \in names \cap DOMAIN req THEN req[f] ELSE conf[f]]

setConfigRestartable(conf, req) == 
    LET differ == {"ratelimit", "upstream_timeout"}
    IN  [conf |-> setIfNotNil(conf, req, Restartable \cup differ),
         restart |-> \/ DOMAIN req \cap Restartable # {}
                     \/ \E f \in differ \cap DOMAIN req : req[f] # conf[f]]

setConfig(conf, req) ==
    LET direct == setIfNotNil(conf, req, {"dnssec_enabled", "disable_ipv6"})
        moded == IF "upstream_mode" \in DOMAIN req
                 THEN [direct EXCEPT !.upstream_mode = mustParseUpstreamMode(req.upstream_mode)]
                 ELSE direct
        custom == IF Asked(req, "edns_cs_use_custom", FALSE)
                  THEN [moded EXCEPT !.edns_cs_custom_ip = Asked(req, "edns_cs_custom_ip", None)]
                  ELSE moded
    IN  setConfigRestartable(custom, req)

-----------------------------------------------------------------------------
(* Preparing the server *)

initDefaultSettings(conf, def) ==
    [conf EXCEPT
        !.upstream_dns = IF @ = <<>> THEN def.upstreams ELSE @,
        !.bootstrap_dns = IF @ = <<>> THEN def.bootstrap ELSE @,
        !.access.hosts = IF @ = <<>> THEN def.hosts ELSE @,
        !.service_type = IF @ = "" THEN "enterprise" ELSE @]

(* The TLS and QUIC listeners need a certificate.                           *)
prepareTLS(conf) == IF conf.cert THEN conf.encrypted ELSE {}
preparePlain(conf) == [err |-> ~conf.serve_plain /\ prepareTLS(conf) = {},
                       plain |-> IF conf.serve_plain THEN conf.listen ELSE {}]

setProxyUpstreamMode(conf) ==
    [err |-> conf.upstream_mode \notin {"load_balance", "parallel", "fastest_addr"}]

prepareCacheConfig(conf) == [err |-> ~validateCacheTTL(conf.cache_ttl_min, conf.cache_ttl_max)]

prepareUpstreamSettings(conf, def) ==
    mergeAlternateUpstreams(newUpstreamConfig(FilterOut(loadUpstreams(conf)), def.upstreams),
                            prepareAlternateUpstreams(conf))

newProxyConfig(conf, def) ==
    LET uc == prepareUpstreamSettings(conf, def)
    IN  limitResourceUsage([mode |-> conf.upstream_mode, ups |-> uc.ups,
            reserved |-> uc.reserved, fallback |-> setupFallbackDNS(conf).ups,
            listen |-> preparePlain(conf).plain \cup prepareTLS(conf)])

(* What makes the preparation fail, in the order of the code.               *)
prepareInternalDNS(conf, def) ==
    CASE newBootstrap(conf.bootstrap_dns, def.bootstrap).err -> "bootstrap"
      [] loadUpstreams(conf) = None -> "file"
      [] newUpstreamConfig(FilterOut(loadUpstreams(conf)), def.upstreams).err ->
            IF conf.upstream_dns_file = None THEN "upstream" ELSE "file"
      [] prepareLocalResolvers(conf).err -> "private"
      [] OTHER -> "ok"

Prepare(c, blocking, def) ==
    LET conf == initDefaultSettings(c, def)
        internal == prepareInternalDNS(conf, def)
        access == newAccessCtx(conf.access)
        cause == CASE ~validateBlockingMode(blocking) -> "blocking"
                   [] internal # "ok" -> internal
                   [] setProxyUpstreamMode(conf).err -> "mode"
                   [] preparePlain(conf).err -> "plain"
                   [] prepareCacheConfig(conf).err -> "ttl"
                   [] access.err -> "access"
                   [] setupFallbackDNS(conf).err -> "fallback"
                   [] OTHER -> "ok"
    IN  [conf |-> IF cause = "blocking" THEN c ELSE conf, cause |-> cause, access |-> access,
         proxy |-> IF cause = "ok" THEN newProxyConfig(conf, def) ELSE None]

-----------------------------------------------------------------------------
(* Testing upstreams *)

(* The result of each address of a configuration: general lines win.        *)
insertConfResults(uc, healthy) ==
    [a \in Range(uc.ups) \cup UNION {Range(uc.reserved[d]) : d \in DOMAIN uc.reserved} |->
        IF a \in healthy THEN "OK" ELSE IF a \in Range(uc.ups) THEN "error" ELSE "WARNING"]

(* The lines that cannot be parsed.                                         *)
collectErrResults(lines) == {l \in Range(FilterOut(lines)) : Line[l].kind = "bad"}

(* The first section that knows an address decides.  Servers of the private *)
(* section need not answer well, only answer.                               *)
status(req, healthy, answering) ==
    LET of(lines, ok) == insertConfResults(ParseUpstreamsConfig(SelectSeq(lines,
                             LAMBDA l : Line[l].kind # "bad")), ok)
    IN  [upstreams |-> of(req.upstream_dns, healthy) @@ of(req.fallback_dns, healthy)
                       @@ of(req.private_upstream, answering),
         errors |-> UNION {collectErrResults(req[s]) :
                           s \in {"upstream_dns", "fallback_dns", "private_upstream"}}]
=============================================================================
