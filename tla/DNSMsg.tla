------------------------------- MODULE DNSMsg -------------------------------
(* The DNS messages the server makes itself: negative and blocking answers,  *)
(* answers made of rewrites and of DHCP leases, and what it reads from the   *)
(* answers of upstreams.  A message has the question it answers, a code, the *)
(* records of its answer, a flag for the SOA record of negative answers and  *)
(* the flag of validated data; a record has a name, a type and a value.      *)
(* Lifetimes and sizes are left out.                                         *)
EXTENDS CheckHost

CONSTANTS Zero4, Zero6,     \* the unspecified addresses
          Map64             \* IPv4 addresses mapped into the DNS64 prefix

-----------------------------------------------------------------------------
(* Building blocks *)

reply(q, code) == [q |-> q, rcode |-> code, ans |-> <<>>, soa |-> FALSE, ad |-> FALSE]
replyCompressed(q) == reply(q, "NOERROR")
genSOA(msg) == [msg EXCEPT !.soa = TRUE]
NewMsgNXDOMAIN(q) == genSOA(reply(q, "NXDOMAIN"))
NewMsgNODATA(q) == genSOA(reply(q, "NOERROR"))
NewMsgSERVFAIL(q) == reply(q, "SERVFAIL")
makeResponseREFUSED(q) == reply(q, "REFUSED")

hdr(q, type, val) == [name |-> q.name, type |-> type, val |-> val]

(* The addresses of a set of rules, without the empty ones and repetitions. *)
ipsFromRules(rules) ==
    SelectSeq([i \in DOMAIN rules |->
                  IF \E j \in 1..(i - 1) : rules[j] = rules[i] THEN None ELSE rules[i]],
              LAMBDA ip : ip # None)

(* One address that is not IPv4 empties the whole list.                     *)
genAnswersWithIPv4s(q, ips) ==
    IF \A i \in DOMAIN ips : Is4(ips[i]) THEN [i \in DOMAIN ips |-> hdr(q, "A", ips[i])]
    ELSE <<>>

AnswersWithIPv6s(q, ips) ==
    LET six == SelectSeq(ips, Is6) IN [i \in DOMAIN six |-> hdr(q, "AAAA", six[i])]

genResponseWithIPs(q, ips) ==
    [replyCompressed(q) EXCEPT
        !.ans = CASE q.type = "A" -> genAnswersWithIPv4s(q, ips)
                  [] q.type = "AAAA" -> AnswersWithIPv6s(q, ips)
                  [] OTHER -> <<>>]

-----------------------------------------------------------------------------
(* Blocking answers *)

makeResponseNullIP(q) ==
    genResponseWithIPs(q, IF q.type = "A" THEN <<Zero4>>
                          ELSE IF q.type = "AAAA" THEN <<Zero6>> ELSE <<>>)

makeResponseCustomIP(q, blocking) ==
    [replyCompressed(q) EXCEPT
        !.ans = IF q.type = "A" THEN <<hdr(q, "A", blocking.v4)>>
                ELSE IF q.type = "AAAA" THEN <<hdr(q, "AAAA", blocking.v6)>> ELSE <<>>]

genForBlockingMode(q, ips, blocking) ==
    CASE blocking.mode = "custom_ip" -> makeResponseCustomIP(q, blocking)
      [] blocking.mode = "default" /\ ips # <<>> -> genResponseWithIPs(q, ips)
      [] blocking.mode = "nxdomain" -> NewMsgNXDOMAIN(q)
      [] blocking.mode = "refused" -> makeResponseREFUSED(q)
      [] OTHER -> makeResponseNullIP(q)

(* The addresses belong to the canonical name when there is one.            *)
getCNAMEWithIPs(q, ips, cname) ==
    LET canon == [q EXCEPT !.name = IF cname = None THEN @ ELSE cname]
        head == IF cname = None THEN <<>> ELSE <<hdr(q, "CNAME", cname)>>
    IN  [replyCompressed(q) EXCEPT !.ans = head \o genResponseWithIPs(canon, ips).ans]

(* The answer for a page that replaces a dangerous one; lookup is what the  *)
(* proxy resolved the page's name to, None when it could not.               *)
genBlockedHost(q, page, lookup) ==
    IF page = <<>> THEN NewMsgSERVFAIL(q)
    ELSE IF Is4(page) \/ Is6(page) THEN genResponseWithIPs(q, <<page>>)
    ELSE IF lookup = None THEN NewMsgSERVFAIL(q)
    ELSE [replyCompressed(q) EXCEPT
             !.ans = [i \in DOMAIN lookup |-> [lookup[i] EXCEPT !.name = q.name]]]

genDNSFilterMessage(q, res, blocking, page, lookup) ==
    IF q.type \notin {"A", "AAAA", "HTTPS"}
    THEN IF blocking.mode = "null_ip" THEN replyCompressed(q) ELSE NewMsgNODATA(q)
    ELSE CASE res.reason \in {"FilteredSafeBrowsing", "FilteredParental"} ->
                genBlockedHost(q, page, lookup)
           [] res.reason = "FilteredSafeSearch" ->
                getCNAMEWithIPs(q, ipsFromRules(res.rules), res.canon)
           [] OTHER -> genForBlockingMode(q, ipsFromRules(res.rules), blocking)

-----------------------------------------------------------------------------
(* Answers made of rewrites and leases *)

(* The parameters of a service record; one that cannot be read is left out. *)
genAnswerSVCB(q, type, params) ==
    LET known == {k \in DOMAIN params :
                    /\ k \in {"alpn", "ipv4hint", "ipv6hint", "port", "dohpath"}
                    /\ k = "ipv4hint" => \A i \in DOMAIN params[k] : Is4(params[k][i])}
    IN  hdr(q, type, [k \in known |-> params[k]])

filterDNSRewriteResponse(q, val) ==
    IF q.type \in {"HTTPS", "SVCB"} THEN genAnswerSVCB(q, q.type, val) ELSE hdr(q, q.type, val)

(* A rule with a code answers with it; otherwise the values of the asked    *)
(* type are the answer.                                                     *)
filterDNSRewrite(q, rw) ==
    LET typed == SelectSeq(rw.vals, LAMBDA v : v.type = q.type)
    IN  IF rw.rcode # "NOERROR" THEN reply(q, rw.rcode)
        ELSE [replyCompressed(q) EXCEPT
                 !.ans = [i \in DOMAIN typed |-> filterDNSRewriteResponse(q, typed[i].val)]]

(* The answer for the name of a DHCP client that has a lease.               *)
DHCPAnswer(q, ip, dns64) ==
    [replyCompressed(q) EXCEPT
        !.ans = CASE q.type = "A" -> <<hdr(q, "A", ip)>>
                  [] q.type = "AAAA" /\ dns64 -> <<hdr(q, "AAAA", Map64[ip])>>
                  [] OTHER -> <<>>]

(* The designated resolvers: DoH, DoT if the certificate has addresses, DoQ. *)
makeDDRResponse(q, tls) ==
    LET each(ports, alpn) == [i \in DOMAIN ports |-> hdr(q, "SVCB", <<alpn, ports[i]>>)]
    IN  IF q.type # "SVCB" THEN replyCompressed(q)
        ELSE [replyCompressed(q) EXCEPT
                 !.ans = each(tls.https, "h2")
                         \o each(IF tls.hasIPAddrs THEN tls.tls ELSE <<>>, "dot")
                         \o each(tls.quic, "doq")]

-----------------------------------------------------------------------------
(* What is read from the answers of upstreams *)

removeIPv6Hints(rr) == [rr EXCEPT !.val = [k \in DOMAIN @ \ {"ipv6hint"} |-> @[k]]]

(* The names and addresses of a record the rules are asked about.           *)
CheckedHosts(rr) ==
    CASE rr.type \in {"CNAME", "A", "AAAA"} -> {rr.val}
      [] rr.type = "HTTPS" -> UNION {{rr.val[k][i] : i \in DOMAIN rr.val[k]} :
                                     k \in DOMAIN rr.val \cap {"ipv4hint", "ipv6hint"}}
      [] OTHER -> {}
=============================================================================
