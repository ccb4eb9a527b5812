------------------------------ MODULE CheckHost ------------------------------
(* What the filter answers when the DNS server asks it about a host: the     *)
(* legacy rewrites, the hosts files, the rule engines, the blocked services  *)
(* and the hash-prefix and safe-search checkers, in the order of             *)
(* DNSFilter.CheckHost.  A domain name is the sequence of its labels, an IP  *)
(* address the one label it is printed as; a rule engine is a function from  *)
(* the names it matches to what it found.                                    *)
EXTENDS Integers, Sequences, SequencesExt, TLC

CONSTANTS V4, V6,        \* the IPv4 and IPv6 addresses
          LowerCase,     \* the labels that have a lower-case form, with it
          PublicSuffixes,\* the suffixes under which names are registered
          Prefix,        \* the prefix of the hash of each name
          SubDomainNum,  \* how many labels of a name are hashed at most
          None

ASSUME HashesAssumption == SubDomainNum \in Nat

Is4(ip) == ip \in V4
Is6(ip) == ip \in V6
ToLower(name) ==
    [i \in DOMAIN name |->
        IF name[i] \in DOMAIN LowerCase THEN LowerCase[name[i]] ELSE name[i]]

-----------------------------------------------------------------------------
(* Results and rules *)

Result == [reason |-> "NotFilteredNotFound", canon |-> None, ips |-> <<>>,
           rules |-> <<>>, rw |-> None, filtered |-> FALSE]
Matched(res) == res.reason # "NotFilteredNotFound"

makeResult(rules, reason) ==
    [Result EXCEPT !.rules = rules, !.reason = reason,
                   !.filtered = reason = "FilteredBlockList"]

(* What an engine finds: the network rule if any, the addresses of the      *)
(* hosts-style rules, and the $dnsrewrite rules.                            *)
NoMatch == [net |-> "none", v4 |-> <<>>, v6 |-> <<>>, rewrites |-> <<>>]
MatchRequest(eng, host) == IF host \in DOMAIN eng THEN eng[host] ELSE NoMatch
MatchedEngine(m) == m.net \in {"block", "allow"} \/ m.v4 # <<>> \/ m.v6 # <<>>

-----------------------------------------------------------------------------
(* Legacy rewrites *)

isWildcard(pat) == Len(pat) > 1 /\ pat[1] = "*"
matchDomainWildcard(host, pat) ==
    isWildcard(pat) /\ Len(host) >= Len(pat) /\ IsSuffix(Tail(pat), host)

normalize(rw) ==
    LET entry(ip, type) ==
            [domain |-> ToLower(rw.domain), answer |-> rw.answer, ip |-> ip, type |-> type]
    IN  IF rw.answer \in {<<"A">>, <<"AAAA">>} THEN entry(None, rw.answer[1])
        ELSE IF Is4(rw.answer) THEN entry(rw.answer, "A")
        ELSE IF Is6(rw.answer) THEN entry(rw.answer, "AAAA")
        ELSE entry(None, "CNAME")

equal(a, b) == a.domain = b.domain /\ a.answer = b.answer

matchesQType(rw, qt) ==
    \/ rw.type = "CNAME"
    \/ qt \in {"A", "AAAA"} /\ (rw.type = qt \/ rw.ip = None)

(* Whether a sorts before b: CNAMEs first, then exact names, then the       *)
(* longer pattern.                                                          *)
Compare(a, b) ==
    IF (a.type = "CNAME") # (b.type = "CNAME") THEN a.type = "CNAME"
    ELSE IF isWildcard(a.domain) = isWildcard(b.domain)
         THEN Len(a.domain) > Len(b.domain)
    ELSE isWildcard(b.domain)

findRewrites(entries, host, qt) ==
    LET found == SelectSeq(entries, LAMBDA e : e.domain = host \/ matchDomainWildcard(host, e.domain))
        sorted == SortSeq(SelectSeq(found, LAMBDA e : matchesQType(e, qt)), Compare)
        wild == {i \in DOMAIN sorted : isWildcard(sorted[i].domain)}
        cut == CHOOSE i \in wild : \A j \in wild : i <= j
    IN  [matched |-> found # <<>>,
         rws |-> IF wild = {} THEN sorted
                 ELSE SubSeq(sorted, 1, IF cut > 1 THEN cut - 1 ELSE 1)]

setRewriteResult(res, rws, qt) ==
    LET typed == SelectSeq(rws, LAMBDA rw : rw.type = qt /\ qt \in {"A", "AAAA"})
        except == {i \in DOMAIN typed : typed[i].ip = None}
    IN  [res EXCEPT !.reason = IF except = {} THEN @ ELSE "NotFilteredNotFound",
                    !.ips = IF except = {} THEN [i \in DOMAIN typed |-> typed[i].ip] ELSE @]

(* One turn of the loop that follows the CNAME rewrites; done holds the     *)
(* result once the loop returns, breaks or ends.                            *)
FollowCNAME(entries, orig, qt, s) ==
    LET rw == s.rws[1]
        seen == [s.res EXCEPT !.canon = rw.answer]
        next == findRewrites(entries, rw.answer, qt)
    IN  IF s.done THEN s
        ELSE IF ~s.matched \/ s.rws = <<>> \/ s.rws[1].type # "CNAME"
             THEN [s EXCEPT !.done = TRUE, !.res = setRewriteResult(s.res, s.rws, qt)]
        ELSE IF rw.answer \in {orig, rw.domain}
             THEN [s EXCEPT !.done = TRUE, !.res = Result]
        ELSE IF s.host = rw.answer /\ isWildcard(rw.domain)
             THEN [s EXCEPT !.done = TRUE, !.res = setRewriteResult(seen, s.rws, qt)]
        ELSE IF rw.answer \in s.cnames THEN [s EXCEPT !.done = TRUE]
        ELSE [s EXCEPT !.host = rw.answer, !.cnames = @ \cup {rw.answer}, !.res = seen,
                       !.rws = next.rws, !.matched = next.matched]

processRewrites(entries, host, qt) ==
    LET first == findRewrites(entries, host, qt)
        start == [host |-> host, cnames |-> {}, rws |-> first.rws,
                  matched |-> first.matched, done |-> FALSE,
                  res |-> [Result EXCEPT !.reason = "Rewritten"]]
        turns == Len(entries) + 2
        walk[n \in 0..turns] ==
            IF n = 0 THEN start ELSE FollowCNAME(entries, host, qt, walk[n - 1])
    IN  IF first.matched THEN walk[turns].res ELSE Result

-----------------------------------------------------------------------------
(* $dnsrewrite rules, hosts files, rule engines *)

(* The first rule with a new CNAME or with another code than success wins;  *)
(* the values of the others are collected by type.                          *)
processDNSRewrites(rules) ==
    LET strong == {i \in DOMAIN rules : rules[i].cname # None \/ rules[i].rcode # "NOERROR"}
        first == rules[CHOOSE i \in strong : \A j \in strong : i <= j]
        base == [Result EXCEPT !.reason = "RewrittenRule"]
    IN  IF strong = {}
        THEN [base EXCEPT !.rw = [rcode |-> "NOERROR", vals |-> rules]]
        ELSE IF first.cname # None THEN [base EXCEPT !.canon = first.cname]
        ELSE [base EXCEPT !.rw = [rcode |-> first.rcode, vals |-> None]]

processDNSResultRewrites(m, host) ==
    LET res == processDNSRewrites(m.rewrites)
    IN  IF m.rewrites = <<>> \/ res.canon = host THEN Result ELSE res

(* etcHosts: the addresses of a name, the names of an address.              *)
matchSysHosts(hosts, host, qt, setts) ==
    LET known == IF host \in DOMAIN hosts THEN hosts[host] ELSE <<>>
        vals == CASE qt = "A" -> SelectSeq(known, Is4)
                  [] qt = "AAAA" -> SelectSeq(known, Is6)
                  [] OTHER -> known
    IN  IF ~setts.filtering \/ qt \notin {"A", "AAAA", "PTR"} \/ known = <<>> THEN Result
        ELSE [Result EXCEPT !.reason = "RewrittenAutoHosts",
                            !.rw = [rcode |-> "NOERROR",
                                    vals |-> [i \in DOMAIN vals |->
                                        [cname |-> None, rcode |-> "NOERROR",
                                         type |-> qt, val |-> vals[i]]]]]

matchHostProcessAllowList(m) == makeResult(<<None>>, "NotFilteredAllowList")

hostResultForOtherQType(m) ==
    IF m.v4 # <<>> \/ m.v6 # <<>> THEN makeResult(<<None>>, "FilteredBlockList") ELSE Result

matchHostProcessDNSResult(m, qt) ==
    IF m.net # "none"
    THEN makeResult(<<None>>, IF m.net = "allow" THEN "NotFilteredAllowList"
                                                 ELSE "FilteredBlockList")
    ELSE IF qt = "A" /\ m.v4 # <<>> THEN makeResult(m.v4, "FilteredBlockList")
    ELSE IF qt = "AAAA" /\ m.v6 # <<>> THEN makeResult(m.v6, "FilteredBlockList")
    ELSE hostResultForOtherQType(m)

matchHost(engines, name, qt, setts) ==
    LET host == ToLower(name)
        allow == MatchRequest(engines.allow, host)
        block == MatchRequest(engines.block, host)
        rewritten == processDNSResultRewrites(block, host)
    IN  IF ~setts.filtering THEN Result
        ELSE IF setts.protection /\ MatchedEngine(allow) THEN matchHostProcessAllowList(allow)
        ELSE IF Matched(rewritten) THEN rewritten
        ELSE IF ~MatchedEngine(block) \/ ~setts.protection THEN Result
        ELSE matchHostProcessDNSResult(block, qt)

(* The blocked services of the settings, as the names their rules match.    *)
matchBlockedServicesRules(host, setts) ==
    IF setts.protection /\ host \in setts.services
    THEN [Result EXCEPT !.reason = "FilteredBlockedService", !.filtered = TRUE, !.rules = <<None>>]
    ELSE Result

(* The checks that need no answer from elsewhere, in their order.           *)
CheckHostLocal(rewrites, hosts, engines, name, qt, setts) ==
    LET host == ToLower(name)
        rewritten == processRewrites(rewrites, host, qt)
        sys == matchSysHosts(hosts, host, qt, setts)
        rules == matchHost(engines, host, qt, setts)
    IN  IF host = <<>> THEN Result
        ELSE IF setts.filtering /\ rewritten.reason = "Rewritten" THEN rewritten
        ELSE IF Matched(sys) THEN sys
        ELSE IF Matched(rules) THEN rules
        ELSE matchBlockedServicesRules(host, setts)

-----------------------------------------------------------------------------
(* Safe browsing and parental control: hash prefixes with a cache *)

(* A hash is the name it was made of; the cache maps a prefix to an item.   *)
hostnameToHashes(host) ==
    LET n == Len(host)
        tail(k) == SubSeq(host, n - k + 1, n)
        most == IF n < SubDomainNum THEN n ELSE SubDomainNum
        stop == {k \in 1..most : tail(k) \in PublicSuffixes}
        least == IF stop = {} THEN 0 ELSE CHOOSE k \in stop : \A j \in stop : j <= k
    IN  [i \in 1..(most - least) |-> tail(most - i + 1)]

Live(cache, hash, now) ==
    Prefix[hash] \in DOMAIN cache /\ now <= cache[Prefix[hash]].expiry

(* The elements of a sequence at the places in I, in their order.           *)
Only(s, I) ==
    LET f[i \in 0..Len(s)] ==
            IF i = 0 THEN <<>> ELSE IF i \in I THEN Append(f[i - 1], s[i]) ELSE f[i - 1]
    IN  f[Len(s)]

Missing(cache, hashes, now) ==
    Only(hashes, {i \in DOMAIN hashes : ~Live(cache, hashes[i], now)})

(* Mutant: one cached prefix is enough for an answer.                       *)
FindAnyCached(cache, hashes, now) ==
    LET live == {i \in DOMAIN hashes : Live(cache, hashes[i], now)}
        hit == \E i \in live, j \in DOMAIN hashes : hashes[j] \in cache[Prefix[hashes[i]]].hashes
    IN  [found |-> live # {}, blocked |-> hit,
         request |-> Missing(cache, hashes, now)]

findInCache(cache, hashes, now) ==
    LET missing == Missing(cache, hashes, now)
        hit == \E i, j \in DOMAIN hashes :
                  /\ Live(cache, hashes[i], now)
                  /\ hashes[j] \in cache[Prefix[hashes[i]]].hashes
    IN  [found |-> hit \/ missing = <<>>, blocked |-> hit, request |-> missing]

storeInCache(cache, request, received, expiry) ==
    LET prefixes == {Prefix[h] : h \in received}
        asked == {Prefix[request[i]] : i \in DOMAIN request}
    IN  [p \in DOMAIN cache \cup prefixes \cup asked |->
            IF p \in prefixes
            THEN [hashes |-> {h \in received : Prefix[h] = p}, expiry |-> expiry]
            ELSE IF p \in DOMAIN cache THEN cache[p]
            ELSE [hashes |-> {}, expiry |-> expiry]]

processAnswer(request, received) == \E i \in DOMAIN request : request[i] \in received

(* The service answers with all hashes it has under the asked prefixes.     *)
Exchange(bad, request) ==
    {h \in bad : \E i \in DOMAIN request : Prefix[request[i]] = Prefix[h]}

Blocked(reason) == [Result EXCEPT !.reason = reason, !.filtered = TRUE, !.rules = <<None>>]

-----------------------------------------------------------------------------
(* Safe search: an engine and a cache of its results *)

(* A service maps the names it protects to its rewrites; the engine holds   *)
(* the services that are protected.  A configuration that is not enabled    *)
(* leaves the old engine.                                                   *)
resetEngine(engine, conf, services) ==
    IF ~conf.enabled THEN engine
    ELSE [h \in UNION {DOMAIN services[s] : s \in conf.services} |->
            services[CHOOSE s \in conf.services : h \in DOMAIN services[s]][h]]

searchHost(engine, host) ==
    IF engine # None /\ host \in DOMAIN engine THEN engine[host] ELSE None

newResult(rewrite, qt) ==
    LET base == [Result EXCEPT !.reason = "FilteredSafeSearch", !.filtered = TRUE]
    IN  IF rewrite.type = qt THEN [base EXCEPT !.rules = <<rewrite.val>>]
        ELSE [base EXCEPT !.canon = rewrite.cname]
=============================================================================
