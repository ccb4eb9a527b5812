------------------------------ MODULE DNSProofs ------------------------------
(***************************************************************************)
(* Proofs about DNS for any number of workers, requests, rules and calls:  *)
(* answers and log entries carry the question of the client, the checkers  *)
(* call a name dangerous when it is, the results of safe search are those  *)
(* of its configuration, an accepted configuration can be prepared, and a  *)
(* pause of the protection lasts as long as it was asked for.              *)
(***************************************************************************)
EXTENDS DNS, WellFoundedInduction, TLAPS

-----------------------------------------------------------------------------
(* Numbers *)

(* The least element of a set of naturals.                                 *)
LEMMA LeastOf ==
    ASSUME NEW T \in SUBSET Nat, T # {}
    PROVE  \E m \in T : \A y \in T : m <= y
<1> DEFINE R == OpToRel(<, Nat)
<1>1. IsWellFoundedOn(R, Nat)
  BY NatLessThanWellFounded
<1>2. \A x, y \in Nat : <<x, y>> \in R <=> x < y
  BY DEF OpToRel
<1> HIDE DEF R
<1>3. PICK m \in T : \A y \in T : ~ (<<y, m>> \in R)
  BY <1>1, WFMin
<1>4. \A y \in T : m \in Nat /\ y \in Nat /\ ~(y < m)
  BY <1>2, <1>3
<1> QED
  BY <1>3, <1>4

(* What holds at zero and passes from each number to the next holds of all. *)
LEMMA Reaches ==
    ASSUME NEW n \in Nat, NEW S, 0 \in S, \A i \in 1..n : i - 1 \in S => i \in S
    PROVE  \A i \in 0..n : i \in S
<1> DEFINE T == (0..n) \ S
<1> SUFFICES ASSUME T # {}
             PROVE  FALSE
  OBVIOUS
<1>1. T \in SUBSET Nat
  OBVIOUS
<1>2. PICK i \in T : \A y \in T : i <= y
  <2> HIDE DEF T
  <2> QED
    BY <1>1, LeastOf
<1>3. i \in 1..n /\ i - 1 \in 0..n
  BY <1>2
<1>4. i - 1 \notin T
  <2>1. i \in Nat
    BY <1>1, <1>2
  <2> HIDE DEF T
  <2> QED
    BY <1>2, <2>1
<1> QED
  BY <1>2, <1>3, <1>4

(* The greatest element of a set of naturals that has a bound.             *)
LEMMA GreatestOf ==
    ASSUME NEW n \in Nat, NEW T \in SUBSET (0..n), T # {}
    PROVE  \E m \in T : \A y \in T : y <= m
<1> DEFINE U == {n - x : x \in T}
<1>1. U \in SUBSET Nat /\ U # {}
  <2>1. \A x \in T : x \in 0..n /\ n - x \in Nat
    OBVIOUS
  <2> QED
    BY <2>1
<1>2. PICK u \in U : \A v \in U : u <= v
  <2> HIDE DEF U
  <2> QED
    BY <1>1, LeastOf
<1>3. PICK m \in T : u = n - m
  BY <1>2
<1>4. \A y \in T : n - m <= n - y
  BY <1>2, <1>3
<1>5. m \in 0..n /\ \A y \in T : y \in 0..n
  OBVIOUS
<1> QED
  BY <1>4, <1>5

-----------------------------------------------------------------------------
(* The elements of a sequence at some places *)

(* The function that Only computes with.                                   *)
LEMMA OnlyDef ==
    ASSUME NEW s, Len(s) \in Nat, NEW I
    PROVE  \E f : /\ Only(s, I) = f[Len(s)]
                  /\ f[0] = <<>>
                  /\ \A i \in 1..Len(s) :
                        f[i] = IF i \in I THEN Append(f[i - 1], s[i]) ELSE f[i - 1]
<1> DEFINE n == Len(s)
           Next2(f, i) == IF i \in I THEN Append(f[i - 1], s[i]) ELSE f[i - 1]
           Unrolled(f, k) ==
             f = [i \in 0..k |-> IF i = 0 THEN <<>> ELSE
                                 IF i \in I THEN Append(f[i - 1], s[i]) ELSE f[i - 1]]
           S == {k \in 0..n : \E f : Unrolled(f, k)}
<1>1. 0 \in S
  <2> DEFINE f == [i \in 0..0 |-> <<>>]
  <2>1. \A i \in 0..0 : i = 0
    OBVIOUS
  <2>2. Unrolled(f, 0)
    BY <2>1
  <2>3. \E g : Unrolled(g, 0)
    BY <2>2
  <2> HIDE DEF f, Unrolled
  <2> QED
    BY <2>3
<1>2. ASSUME NEW k \in 1..n, k - 1 \in S
      PROVE  k \in S
  <2>1. PICK f : Unrolled(f, k - 1)
    BY <1>2
  <2> DEFINE g == [i \in 0..k |-> IF i = k THEN Next2(f, k) ELSE f[i]]
  <2>2. \A i \in 0..(k - 1) : f[i] = IF i = 0 THEN <<>> ELSE Next2(f, i)
    BY <2>1
  <2>3. ASSUME NEW i \in 0..k
        PROVE  g[i] = IF i = 0 THEN <<>> ELSE Next2(g, i)
    <3>1. CASE i = k
      <4>1. g[k - 1] = f[k - 1] /\ g[k] = Next2(f, k) /\ k # 0
        OBVIOUS
      <4> QED
        BY <3>1, <4>1
    <3>2. CASE i # k /\ i # 0
      <4>1. i \in 0..(k - 1) /\ g[i] = f[i] /\ g[i - 1] = f[i - 1]
        BY <3>2
      <4> QED
        BY <2>2, <3>2, <4>1
    <3>3. CASE i # k /\ i = 0
      BY <2>2, <3>3
    <3> QED
      BY <3>1, <3>2, <3>3
  <2>4. Unrolled(g, k)
    <3>1. g = [i \in 0..k |-> g[i]]
      OBVIOUS
    <3> HIDE DEF g
    <3> QED
      BY <2>3, <3>1
  <2>5. \E h : Unrolled(h, k)
    BY <2>4
  <2> HIDE DEF g, Unrolled
  <2> QED
    BY <2>5
<1>3. n \in S
  <2>1. n \in Nat /\ n \in 0..n
    OBVIOUS
  <2> HIDE DEF S, n
  <2> QED
    BY <1>1, <1>2, <2>1, Reaches
<1> DEFINE f == CHOOSE g : Unrolled(g, n)
<1>4. Only(s, I) = f[n]
  BY DEF Only
<1>5. Unrolled(f, n)
  <2> HIDE DEF Unrolled, n
  <2> QED
    BY <1>3
<1>6. \A i \in 0..n : f[i] = IF i = 0 THEN <<>> ELSE Next2(f, i)
  <2> HIDE DEF f
  <2> QED
    BY <1>5
<1> HIDE DEF f
<1> QED
  BY <1>4, <1>6

LEMMA OnlyFacts ==
    ASSUME NEW S, NEW s \in Seq(S), NEW I
    PROVE  Only(s, I) \in Seq(S) /\ Range(Only(s, I)) = {s[i] : i \in DOMAIN s \cap I}
<1>1. Len(s) \in Nat /\ DOMAIN s = 1..Len(s) /\ \A i \in 1..Len(s) : s[i] \in S
  OBVIOUS
<1>2. PICK f : /\ Only(s, I) = f[Len(s)]
               /\ f[0] = <<>>
               /\ \A i \in 1..Len(s) :
                     f[i] = IF i \in I THEN Append(f[i - 1], s[i]) ELSE f[i - 1]
  BY <1>1, OnlyDef
<1> DEFINE Shown(k) == {s[i] : i \in (1..k) \cap I}
           Right(k) == f[k] \in Seq(S) /\ Range(f[k]) = Shown(k)
           R == {k \in 0..Len(s) : Right(k)}
<1>3. 0 \in R
  <2>1. (1..0) \cap I = {} /\ 0 \in 0..Len(s)
    BY <1>1
  <2>2. Shown(0) = {}
    BY <2>1
  <2>3. <<>> \in Seq(S) /\ Range(<<>>) = {}
    BY DEF Range
  <2> HIDE DEF Shown
  <2> QED
    BY <1>2, <2>1, <2>2, <2>3
<1>4. ASSUME NEW k \in 1..Len(s), k - 1 \in R
      PROVE  k \in R
  <2>1. Right(k - 1)
    BY <1>4
  <2>2. s[k] \in S /\ k \in 0..Len(s)
    BY <1>1
  <2>3. CASE k \in I
    <3>1. f[k] = Append(f[k - 1], s[k])
      BY <1>2, <2>3
    <3>2. (1..k) \cap I = ((1..(k - 1)) \cap I) \cup {k}
      BY <2>3
    <3>3. Shown(k) = Shown(k - 1) \cup {s[k]}
      BY <3>2
    <3>4. \A t \in Seq(S), x \in S : /\ Append(t, x) \in Seq(S)
                                    /\ Range(Append(t, x)) = Range(t) \cup {x}
      <4> SUFFICES ASSUME NEW t \in Seq(S), NEW x \in S
                   PROVE  Append(t, x) \in Seq(S) /\ Range(Append(t, x)) = Range(t) \cup {x}
        OBVIOUS
      <4> DEFINE n == Len(t)
                 u == Append(t, x)
      <4>1. /\ n \in Nat /\ DOMAIN t = 1..n /\ u \in Seq(S) /\ DOMAIN u = 1..(n + 1)
            /\ u[n + 1] = x /\ \A i \in 1..n : u[i] = t[i]
        OBVIOUS
      <4>2. 1..(n + 1) = (1..n) \cup {n + 1}
        BY <4>1
      <4> HIDE DEF n, u
      <4>3. Range(u) = Range(t) \cup {x}
        BY <4>1, <4>2 DEF Range
      <4> QED
        BY <4>1, <4>3 DEF u
    <3> HIDE DEF Shown
    <3> QED
      BY <2>1, <2>2, <3>1, <3>3, <3>4
  <2>4. CASE k \notin I
    <3>1. f[k] = f[k - 1]
      BY <1>2, <2>4
    <3>2. (1..k) \cap I = (1..(k - 1)) \cap I
      BY <2>4
    <3>3. Shown(k) = Shown(k - 1)
      BY <3>2
    <3> HIDE DEF Shown
    <3> QED
      BY <2>1, <2>2, <3>1, <3>3
  <2> QED
    BY <2>3, <2>4
<1>5. Len(s) \in R
  <2>1. Len(s) \in 0..Len(s)
    BY <1>1
  <2> HIDE DEF R
  <2> QED
    BY <1>1, <1>3, <1>4, <2>1, Reaches
<1>6. Shown(Len(s)) = {s[i] : i \in DOMAIN s \cap I}
  BY <1>1
<1> HIDE DEF Shown
<1> QED
  BY <1>2, <1>5, <1>6

(* The lists of upstreams: the lines that are not comments, and whether all *)
(* of them can be parsed.                                                  *)
Lines == DOMAIN Line
Parsable(lines) == \A i \in DOMAIN lines : Line[lines[i]].kind # "bad"

LEMMA FilterOutFacts ==
    ASSUME NEW lines \in Seq(Lines)
    PROVE  /\ FilterOut(lines) \in Seq(Lines)
           /\ Parsable(FilterOut(lines)) <=> Parsable(lines)
           /\ \A i \in DOMAIN lines : ~IsCommentOrEmpty(lines[i]) =>
                 \E j \in DOMAIN FilterOut(lines) : FilterOut(lines)[j] = lines[i]
<1> DEFINE I == {i \in DOMAIN lines : ~IsCommentOrEmpty(lines[i])}
           used == Only(lines, I)
<1>1. FilterOut(lines) = used
  BY DEF FilterOut
<1>2. used \in Seq(Lines) /\ Range(used) = {lines[i] : i \in DOMAIN lines \cap I}
  <2> HIDE DEF I
  <2> QED
    BY OnlyFacts
<1> HIDE DEF used
<1>3. ASSUME NEW j \in DOMAIN used
      PROVE  \E i \in DOMAIN lines : used[j] = lines[i]
  <2>1. used[j] \in Range(used)
    BY DEF Range
  <2> QED
    BY <1>2, <2>1
<1>4. ASSUME NEW i \in I
      PROVE  \E j \in DOMAIN used : used[j] = lines[i]
  <2>1. lines[i] \in Range(used)
    BY <1>2
  <2> QED
    BY <2>1 DEF Range
<1>5. Parsable(used) => Parsable(lines)
  <2> SUFFICES ASSUME Parsable(used), NEW i \in DOMAIN lines
               PROVE  Line[lines[i]].kind # "bad"
    BY DEF Parsable
  <2>1. CASE i \in I
    BY <1>4, <2>1 DEF Parsable
  <2>2. CASE i \notin I
    BY <2>2 DEF IsCommentOrEmpty
  <2> QED
    BY <2>1, <2>2
<1>6. Parsable(lines) => Parsable(used)
  BY <1>3 DEF Parsable
<1> QED
  BY <1>1, <1>2, <1>4, <1>5, <1>6

LEMMA ParseError ==
    ASSUME NEW lines \in Seq(Lines)
    PROVE  ParseUpstreamsConfig(lines).err <=> ~Parsable(lines)
<1>1. ParseUpstreamsConfig(lines).err
      = \E i \in DOMAIN FilterOut(lines) : Line[FilterOut(lines)[i]].kind = "bad"
  BY DEF ParseUpstreamsConfig
<1> QED
  BY <1>1, FilterOutFacts DEF Parsable

-----------------------------------------------------------------------------
(* Safe browsing and parental control *)

LEMMA HashesSeq ==
    ASSUME NEW ctx \in Queries
    PROVE  LET hashes == hostnameToHashes(ToLower(ctx.q.name))
           IN  hashes \in Seq(Range(hashes))
<1> DEFINE host == ToLower(ctx.q.name)
           n == Len(host)
           most == IF n < SubDomainNum THEN n ELSE SubDomainNum
           tail(k) == SubSeq(host, n - k + 1, n)
           stop == {k \in 1..most : tail(k) \in PublicSuffixes}
           least == IF stop = {} THEN 0 ELSE CHOOSE k \in stop : \A j \in stop : j <= k
           hashes == [i \in 1..(most - least) |-> tail(most - i + 1)]
<1>1. n \in Nat
  <2>1. ctx.q.name \in Seq(Range(ctx.q.name))
    BY QueriesAssumption
  <2>2. DOMAIN ctx.q.name = 1..Len(ctx.q.name) /\ Len(ctx.q.name) \in Nat
    BY <2>1
  <2>3. host = [i \in 1..Len(ctx.q.name) |-> host[i]]
    BY <2>2 DEF ToLower
  <2> HIDE DEF host
  <2> QED
    BY <2>2, <2>3
<1>2. most \in Nat
  BY <1>1, HashesAssumption
<1>3. least \in 0..most
  <2>1. CASE stop = {}
    BY <1>2, <2>1
  <2>2. CASE stop # {}
    <3>1. stop \in SUBSET (0..most)
      BY <1>2
    <3> HIDE DEF stop, most
    <3>2. PICK m \in stop : \A y \in stop : y <= m
      BY <1>2, <2>2, <3>1, GreatestOf
    <3> QED
      BY <2>2, <3>1, <3>2
  <2> QED
    BY <2>1, <2>2
<1>4. most - least \in Nat
  BY <1>2, <1>3
<1>5. hashes = hostnameToHashes(host)
  BY DEF hostnameToHashes
<1>6. hashes \in Seq(Range(hashes))
  <2> HIDE DEF tail, most, least
  <2>1. DOMAIN hashes = 1..(most - least)
    OBVIOUS
  <2>2. \A i \in 1..(most - least) : hashes[i] \in Range(hashes)
    BY <2>1 DEF Range
  <2>3. hashes = [i \in 1..(most - least) |-> hashes[i]]
    OBVIOUS
  <2> HIDE DEF hashes
  <2> QED
    BY <1>4, <2>2, <2>3
<1> HIDE DEF hashes, host
<1> QED
  BY <1>5, <1>6 DEF host

(* A cache that knows what the service knows about its prefixes.           *)
Knows(cache, bad) ==
    \A p \in DOMAIN cache : cache[p].hashes = {h \in bad : Prefix[h] = p}

LEMMA FindFacts ==
    ASSUME NEW cache, NEW bad, Knows(cache, bad), NEW H, NEW hashes \in Seq(H), NEW t
    PROVE  LET hit == findInCache(cache, hashes, t)
           IN  /\ hit.found => (hit.blocked <=> \E h \in Range(hashes) : h \in bad)
               /\ Range(hit.request) \subseteq Range(hashes)
               /\ ~hit.found => \A h \in Range(hashes) \cap bad : h \in Range(hit.request)
<1> DEFINE I == {i \in DOMAIN hashes : ~Live(cache, hashes[i], t)}
           missing == Only(hashes, I)
           live(h) == Live(cache, h, t)
           hit == \E i, j \in DOMAIN hashes :
                    live(hashes[i]) /\ hashes[j] \in cache[Prefix[hashes[i]]].hashes
<1>1. findInCache(cache, hashes, t)
      = [found |-> hit \/ missing = <<>>, blocked |-> hit, request |-> missing]
  BY DEF findInCache, Missing
<1>2. Range(missing) = {hashes[i] : i \in DOMAIN hashes \cap I} /\ missing \in Seq(H)
  <2> HIDE DEF I
  <2> QED
    BY OnlyFacts
<1>3. \A i \in DOMAIN hashes : live(hashes[i]) =>
         cache[Prefix[hashes[i]]].hashes = {h \in bad : Prefix[h] = Prefix[hashes[i]]}
  BY DEF Live, Knows
<1>4. hit => \E h \in Range(hashes) : h \in bad
  BY <1>3 DEF Range
<1>5. \A i \in DOMAIN hashes : live(hashes[i]) /\ hashes[i] \in bad => hit
  BY <1>3
<1>6. \A i \in DOMAIN hashes : ~live(hashes[i]) => hashes[i] \in Range(missing)
  BY <1>2
<1>7. missing = <<>> => Range(missing) = {}
  BY DEF Range
<1>8. \A h \in Range(hashes) : \E i \in DOMAIN hashes : h = hashes[i]
  BY DEF Range
<1>9. Range(missing) \subseteq Range(hashes)
  BY <1>2 DEF Range
<1> HIDE DEF hit, live, missing
<1>10. (hit \/ missing = <<>>) => (hit <=> \E h \in Range(hashes) : h \in bad)
  BY <1>4, <1>5, <1>6, <1>7, <1>8
<1>11. ~(hit \/ missing = <<>>) => \A h \in Range(hashes) \cap bad : h \in Range(missing)
  BY <1>5, <1>6, <1>8
<1> DEFINE found == findInCache(cache, hashes, t)
<1>12. /\ found.found = (hit \/ missing = <<>>)
       /\ found.blocked = hit /\ found.request = missing
  BY <1>1
<1> HIDE DEF found
<1> QED
  BY <1>9, <1>10, <1>11, <1>12 DEF found

LEMMA AnswerFacts ==
    ASSUME NEW bad, NEW request
    PROVE  processAnswer(request, Exchange(bad, request)) <=> \E h \in Range(request) : h \in bad
BY DEF processAnswer, Exchange, Range

LEMMA StoreFacts ==
    ASSUME NEW cache, NEW bad, Knows(cache, bad), NEW request, NEW t
    PROVE  Knows(storeInCache(cache, request, Exchange(bad, request), t), bad)
<1> DEFINE received == Exchange(bad, request)
           prefixes == {Prefix[h] : h \in received}
           asked == {Prefix[request[i]] : i \in DOMAIN request}
           out == storeInCache(cache, request, received, t)
<1>1. received = {h \in bad : Prefix[h] \in asked}
  BY DEF Exchange
<1>2. \A p \in prefixes : p \in asked /\ {h \in received : Prefix[h] = p} = {h \in bad : Prefix[h] = p}
  BY <1>1
<1>3. \A p \in asked \ prefixes : {h \in bad : Prefix[h] = p} = {}
  BY <1>1
<1>4. out = [p \in DOMAIN cache \cup prefixes \cup asked |->
               IF p \in prefixes THEN [hashes |-> {h \in received : Prefix[h] = p}, expiry |-> t]
               ELSE IF p \in DOMAIN cache THEN cache[p]
               ELSE [hashes |-> {}, expiry |-> t]]
  BY DEF storeInCache
<1> HIDE DEF received, prefixes, asked, out
<1>5. ASSUME NEW p \in DOMAIN out
      PROVE  out[p].hashes = {h \in bad : Prefix[h] = p}
  <2>1. p \in DOMAIN cache \cup prefixes \cup asked
    BY <1>4
  <2>2. CASE p \in prefixes
    BY <1>2, <1>4, <2>1, <2>2
  <2>3. CASE p \notin prefixes /\ p \in DOMAIN cache
    BY <1>4, <2>1, <2>3 DEF Knows
  <2>4. CASE p \notin prefixes /\ p \notin DOMAIN cache
    BY <1>3, <1>4, <2>1, <2>4
  <2> QED
    BY <2>2, <2>3, <2>4
<1> QED
  BY <1>5 DEF Knows, out, received

-----------------------------------------------------------------------------
(* Messages *)

(* A message that has the question q.                                      *)
Answers(m, q) == {"q", "rcode", "ans", "ad"} \subseteq DOMAIN m /\ m.q = q

LEMMA Replies ==
    ASSUME NEW q, NEW code, NEW x
    PROVE  /\ Answers(reply(q, code), q)
           /\ Answers([replyCompressed(q) EXCEPT !.ans = x], q)
           /\ Answers(replyCompressed(q), q) /\ Answers(makeResponseREFUSED(q), q)
           /\ Answers(NewMsgNXDOMAIN(q), q) /\ Answers(NewMsgNODATA(q), q)
           /\ Answers(NewMsgSERVFAIL(q), q) /\ NewMsgSERVFAIL(q).rcode = "SERVFAIL"
BY DEF Answers, reply, replyCompressed, makeResponseREFUSED, NewMsgNXDOMAIN, NewMsgNODATA,
       NewMsgSERVFAIL, genSOA

LEMMA Keeps ==
    ASSUME NEW q, NEW m, Answers(m, q), NEW x
    PROVE  Answers([m EXCEPT !.ans = x], q) /\ Answers([m EXCEPT !.ad = x], q)
BY DEF Answers

LEMMA WithIPs ==
    ASSUME NEW q, NEW ips
    PROVE  Answers(genResponseWithIPs(q, ips), q)
BY Replies DEF genResponseWithIPs

LEMMA Rewritings ==
    ASSUME NEW q, NEW ips, NEW cname, NEW rw, NEW ip, NEW dns64, NEW tls
    PROVE  /\ Answers(getCNAMEWithIPs(q, ips, cname), q)
           /\ Answers(filterDNSRewrite(q, rw), q)
           /\ Answers(DHCPAnswer(q, ip, dns64), q)
           /\ Answers(makeDDRResponse(q, tls), q)
<1>1. Answers(getCNAMEWithIPs(q, ips, cname), q)
  BY Replies DEF getCNAMEWithIPs
<1>2. Answers(filterDNSRewrite(q, rw), q)
  BY Replies DEF filterDNSRewrite
<1>3. Answers(DHCPAnswer(q, ip, dns64), q)
  BY Replies DEF DHCPAnswer
<1>4. Answers(makeDDRResponse(q, tls), q)
  BY Replies DEF makeDDRResponse
<1> QED
  BY <1>1, <1>2, <1>3, <1>4

LEMMA Blockings ==
    ASSUME NEW q, NEW res, NEW blocking, NEW page, NEW lookup
    PROVE  Answers(genDNSFilterMessage(q, res, blocking, page, lookup), q)
<1>1. Answers(makeResponseNullIP(q), q)
  BY WithIPs DEF makeResponseNullIP
<1>2. Answers(makeResponseCustomIP(q, blocking), q)
  BY Replies DEF makeResponseCustomIP
<1>3. \A ips : Answers(genForBlockingMode(q, ips, blocking), q)
  <2> TAKE ips
  <2> QED
    BY <1>1, <1>2, Replies, WithIPs DEF genForBlockingMode
<1>4. Answers(genBlockedHost(q, page, lookup), q)
  BY Replies, WithIPs DEF genBlockedHost
<1>5. \A ips, cname : Answers(getCNAMEWithIPs(q, ips, cname), q)
  BY Rewritings
<1> QED
  BY <1>3, <1>4, <1>5, Replies DEF genDNSFilterMessage

-----------------------------------------------------------------------------
(* The requests *)

Fields == {"pc", "ctx", "id", "q", "origQ", "prot", "setts", "isDHCPHost", "res", "msg",
           "fromUpstream", "wantsAD", "pending", "found", "asked", "logged"}
Kinds == {"sb", "pc"}
Asking == {"ask_sb", "ask_pc"}

(* Before the filter has a result the question is the client's.            *)
Early == {"client", "host", "initial", "status", "local", "filter", "sb", "pc", "ss", "ss_store",
          "respond"} \cup Asking
Late == {"upstream", "resolve", "after", "log"}
Renamed == {"Rewritten", "RewrittenRule", "FilteredSafeSearch"}

(* The answer of a request that is done.                                   *)
Answered(r) ==
    r.msg = None \/ r.msg.q = r.ctx.q \/ r.isDHCPHost \/ r.msg.rcode = "SERVFAIL"

(* The question of a request, the one it replaced, and its answer.         *)
Questions(r) ==
    /\ r.pc \in Early \cup Late \cup {"done"}
    /\ r.pc \in Early => r.origQ = None
    /\ r.origQ = None => r.q = r.ctx.q
    /\ r.origQ # None => r.origQ = r.ctx.q /\ r.res.reason \in Renamed
    /\ r.pc = "after" => Answers(r.msg, r.q)
    /\ r.pc = "log" => r.q = r.ctx.q /\ Answers(r.msg, r.ctx.q)
    /\ r.pc = "done" => Answered(r)
    /\ r.logged # None => r.pc = "done" /\ r.logged.q = r.ctx.q

(* The hashes of a request, and what the checkers have said of them.       *)
HashesOf(r) == hostnameToHashes(ToLower(r.ctx.q.name))
Dangerous(r, kind) == \E h \in Range(HashesOf(r)) : h \in Bad[kind]
Undecided(r, kind) ==
    /\ Range(r.pending) \subseteq Range(HashesOf(r))
    /\ \A h \in Range(HashesOf(r)) \cap Bad[kind] : h \in Range(r.pending)
Checked(r) ==
    /\ r.found \subseteq r.asked
    /\ \A kind \in r.asked : kind \in r.found <=> Dangerous(r, kind)
    /\ \A kind \in Kinds : r.pc = Ask(kind) => Undecided(r, kind)

ReqInv(r) == DOMAIN r = Fields /\ r.ctx \in Queries /\ Questions(r) /\ Checked(r)

WorkInv ==
    /\ DOMAIN work = Workers
    /\ \A w \in Workers : work[w] = NoQuery \/ ReqInv(work[w])
CheckersInv == DOMAIN checkers = Kinds /\ \A kind \in Kinds : Knows(checkers[kind], Bad[kind])

(* A worker makes a step with its request.                                 *)
Turn(w, r) == DOMAIN work' = Workers /\ work'[w] = r /\ \A v \in Workers \ {w} : work'[v] = work[v]

LEMMA Serving ==
    ASSUME WorkInv, NEW w \in Workers, work[w].pc # "idle"
    PROVE  ReqInv(work[w]) /\ DOMAIN work = Workers
BY DEF WorkInv, NoQuery

LEMMA Turned ==
    ASSUME WorkInv, NEW w \in Workers, NEW r, ReqInv(r), Turn(w, r)
    PROVE  WorkInv'
<1>1. DOMAIN work' = Workers
  BY DEF Turn
<1>2. \A v \in Workers : work'[v] = NoQuery \/ ReqInv(work'[v])
  BY DEF WorkInv, Turn
<1> QED
  BY <1>1, <1>2 DEF WorkInv, ReqInv, NoQuery, Checked, Questions

(* A step of a request before there is a result.                           *)
LEMMA GoesOn ==
    ASSUME NEW r, ReqInv(r), r.pc \in Early, NEW t, DOMAIN t = Fields, t.pc \in Early \ Asking,
           t.ctx = r.ctx, t.q = r.q, t.origQ = r.origQ, t.logged = r.logged,
           t.found = r.found, t.asked = r.asked
    PROVE  ReqInv(t)
<1>1. Questions(t)
  BY DEF ReqInv, Questions, Early, Late, Asking
<1>2. Checked(t)
  BY DEF ReqInv, Checked, Ask, Kinds, Asking, Dangerous, HashesOf
<1> QED
  BY <1>1, <1>2 DEF ReqInv

(* A step that gives the answer.                                           *)
LEMMA Ends ==
    ASSUME NEW r, ReqInv(r), r.pc \in Early \cup Late, NEW t, DOMAIN t = Fields, t.pc = "done",
           t.ctx = r.ctx, t.q = r.q, t.origQ = r.origQ, t.res = r.res, t.found = r.found,
           t.asked = r.asked, Answered(t), t.logged # None => t.logged.q = t.ctx.q
    PROVE  ReqInv(t)
<1>1. Questions(t)
  BY DEF ReqInv, Questions, Early, Late, Asking
<1>2. Checked(t)
  BY DEF ReqInv, Checked, Ask, Dangerous, HashesOf
<1> QED
  BY <1>1, <1>2 DEF ReqInv

LEMMA AnswerEnds ==
    ASSUME WorkInv, NEW w \in Workers, work[w].pc \in Early \cup Late, NEW m, Answer(w, m),
           m = None \/ Answers(m, work[w].q) \/ m.rcode = "SERVFAIL",
           work[w].pc \in Early \/ work[w].isDHCPHost \/ m = None \/ m.rcode = "SERVFAIL"
    PROVE  WorkInv'
<1> DEFINE r == work[w]
           t == [r EXCEPT !.msg = m, !.pc = "done"]
<1>1. ReqInv(r) /\ DOMAIN work = Workers
  <2>1. r.pc # "idle"
    BY DEF Early, Late, Asking
  <2> QED
    BY <2>1, Serving
<1>2. Turn(w, t)
  BY <1>1 DEF Turn, Answer
<1>3. /\ DOMAIN t = Fields /\ t.pc = "done" /\ t.msg = m
      /\ \A f \in Fields \ {"pc", "msg"} : t[f] = r[f]
  BY <1>1 DEF ReqInv, Fields
<1> HIDE DEF t
<1>4. /\ t.ctx = r.ctx /\ t.q = r.q /\ t.origQ = r.origQ /\ t.res = r.res /\ t.found = r.found
      /\ t.asked = r.asked /\ t.logged = r.logged /\ t.isDHCPHost = r.isDHCPHost
  BY <1>3 DEF Fields
<1>5. r.logged = None /\ (r.pc \in Early => r.q = r.ctx.q)
  BY <1>1 DEF ReqInv, Questions, Early, Late, Asking
<1>6. Answered(t)
  BY <1>3, <1>4, <1>5 DEF Answered, Answers
<1>7. ReqInv(t)
  BY <1>1, <1>3, <1>4, <1>5, <1>6, Ends
<1> QED
  BY <1>2, <1>7, Turned

LEMMA Advances ==
    ASSUME WorkInv, NEW w \in Workers, work[w].pc \in Early, NEW pc \in Early \ Asking, To(w, pc)
    PROVE  WorkInv'
<1> DEFINE r == work[w]
           t == [r EXCEPT !.pc = pc]
<1>1. ReqInv(r) /\ DOMAIN work = Workers
  <2>1. r.pc # "idle"
    BY DEF Early, Asking
  <2> QED
    BY <2>1, Serving
<1>2. Turn(w, t)
  BY <1>1 DEF Turn, To
<1>3. DOMAIN t = Fields /\ t.pc = pc /\ \A f \in Fields \ {"pc"} : t[f] = r[f]
  BY <1>1 DEF ReqInv, Fields
<1> HIDE DEF t
<1>4. /\ t.ctx = r.ctx /\ t.q = r.q /\ t.origQ = r.origQ /\ t.found = r.found
      /\ t.asked = r.asked /\ t.logged = r.logged
  BY <1>3 DEF Fields
<1>5. ReqInv(t)
  BY <1>1, <1>3, <1>4, GoesOn
<1> QED
  BY <1>2, <1>5, Turned

(* A request comes in.                                                     *)
LEMMA HandleBeforeWork ==
    ASSUME WorkInv, NEW w \in Workers, HandleBefore(w)
    PROVE  WorkInv'
<1>1. PICK ctx \in Queries :
         LET cid == clientIDFromDNSContext(conf, ctx)
             start == Start(w, ctx, cid.id)
         IN  work' = [work EXCEPT ![w] =
                 IF cid.err THEN [start EXCEPT !.msg = NewMsgSERVFAIL(ctx.q), !.pc = "done"]
                 ELSE start]
  BY DEF HandleBefore
<1> DEFINE cid == clientIDFromDNSContext(conf, ctx)
           r == Start(w, ctx, cid.id)
           t == [r EXCEPT !.msg = NewMsgSERVFAIL(ctx.q), !.pc = "done"]
<1>2. /\ DOMAIN r = Fields /\ r.pc = "client" /\ r.ctx = ctx /\ r.q = ctx.q /\ r.origQ = None
      /\ r.logged = None /\ r.found = {} /\ r.asked = {}
  BY DEF Start, Fields
<1> HIDE DEF r
<1>3. /\ DOMAIN t = Fields /\ t.pc = "done" /\ t.ctx = ctx /\ t.q = ctx.q /\ t.origQ = None
      /\ t.logged = None /\ t.found = {} /\ t.asked = {} /\ t.msg = NewMsgSERVFAIL(ctx.q)
  BY <1>2 DEF Fields
<1> HIDE DEF t
<1>4. ReqInv(r)
  BY <1>2 DEF ReqInv, Questions, Checked, Early, Asking, Ask
<1>5. ReqInv(t)
  BY <1>3, Replies DEF ReqInv, Questions, Checked, Early, Asking, Ask, Answered
<1>6. Turn(w, r) \/ Turn(w, t)
  BY <1>1 DEF Turn, WorkInv, r, t
<1> QED
  BY <1>4, <1>5, <1>6, Turned

LEMMA AccessWork ==
    ASSUME WorkInv, NEW w \in Workers, CheckClient(w) \/ CheckAccessHost(w)
    PROVE  WorkInv'
<1>1. work[w].pc \in {"client", "host"} /\ work[w].pc \in Early
  BY DEF CheckClient, CheckAccessHost, At, Early
<1>2. ASSUME preBlockedResponse(w)
      PROVE  WorkInv'
  <2>1. PICK m : Answer(w, m) /\ (m = None \/ m = makeResponseREFUSED(work[w].q))
    BY <1>2 DEF preBlockedResponse
  <2>2. m = None \/ Answers(m, work[w].q)
    BY <2>1, Replies
  <2> QED
    BY <1>1, <2>1, <2>2, AnswerEnds
<1>3. \A pc \in {"host", "initial"} : To(w, pc) => WorkInv'
  BY <1>1, Advances DEF Early, Asking
<1> QED
  BY <1>2, <1>3 DEF CheckClient, CheckAccessHost

LEMMA InitialWork ==
    ASSUME WorkInv, NEW w \in Workers, processInitial(w)
    PROVE  WorkInv'
<1>1. work[w].pc \in Early
  BY DEF processInitial, At, Early
<1>2. \A m : Answer(w, m) /\ Answers(m, work[w].q) => WorkInv'
  BY <1>1, AnswerEnds
<1>3. To(w, "status") => WorkInv'
  BY <1>1, Advances DEF Early, Asking
<1> DEFINE q == work[w].q
<1>4. \/ Answer(w, NewMsgNODATA(q)) \/ Answer(w, NewMsgNXDOMAIN(q))
      \/ Answer(w, replyCompressed(q)) \/ To(w, "status")
  BY DEF processInitial
<1> QED
  BY <1>2, <1>3, <1>4, Replies

LEMMA StatusWork ==
    ASSUME WorkInv, NEW w \in Workers, UpdatedProtectionStatus(w)
    PROVE  WorkInv'
<1> DEFINE r == work[w]
           t == [r EXCEPT !.pc = "local", !.prot = ProtectionNow,
                          !.setts = clientRequestFilteringSettings(ProtectionNow)]
<1>1. r.pc = "status"
  BY DEF UpdatedProtectionStatus, At
<1>2. ReqInv(r) /\ DOMAIN work = Workers
  BY <1>1, Serving
<1>3. Turn(w, t)
  BY <1>2 DEF Turn, UpdatedProtectionStatus
<1>4. DOMAIN t = Fields /\ t.pc = "local" /\ \A f \in Fields \ {"pc", "prot", "setts"} : t[f] = r[f]
  BY <1>2 DEF ReqInv, Fields
<1> HIDE DEF t
<1>5. /\ t.ctx = r.ctx /\ t.q = r.q /\ t.origQ = r.origQ /\ t.found = r.found
      /\ t.asked = r.asked /\ t.logged = r.logged
  BY <1>4 DEF Fields
<1>6. ReqInv(t)
  BY <1>1, <1>2, <1>4, <1>5, GoesOn DEF Early, Asking
<1> QED
  BY <1>3, <1>6, Turned

(* What the handlers of local names make of a request.                     *)
Localised(r, t) ==
    /\ DOMAIN t = Fields
    /\ t.ctx = r.ctx /\ t.q = r.q /\ t.origQ = r.origQ /\ t.res = r.res
    /\ t.found = r.found /\ t.asked = r.asked /\ t.logged = r.logged
    /\ t.pc = "filter" \/ (t.pc \in {"log", "done"} /\ Answers(t.msg, r.q))

LEMMA LocalisedReq ==
    ASSUME NEW r, ReqInv(r), r.pc \in Early, NEW t, Localised(r, t)
    PROVE  ReqInv(t)
<1>1. r.origQ = None /\ r.q = r.ctx.q /\ r.logged = None
  BY DEF ReqInv, Questions, Early, Asking
<1>2. Questions(t)
  BY <1>1 DEF ReqInv, Questions, Localised, Early, Late, Asking, Answered, Answers
<1>3. Checked(t)
  BY DEF ReqInv, Checked, Localised, Ask, Dangerous, HashesOf
<1> QED
  BY <1>2, <1>3 DEF ReqInv, Localised

LEMMA LocalAnswer ==
    ASSUME NEW r, NEW t, Localised(r, t), NEW m, Answers(m, r.q)
    PROVE  /\ Localised(r, [t EXCEPT !.msg = m, !.pc = "done"])
           /\ Localised(r, [t EXCEPT !.msg = m, !.pc = "log"])
BY DEF Localised, Fields

LEMMA LocalHandlers ==
    ASSUME NEW r, NEW t, Localised(r, t)
    PROVE  /\ Localised(r, processDHCPHosts(t)) /\ Localised(r, processDHCPAddrs(t))
           /\ Localised(r, PrivateSettings(t))
           /\ Localised(r, processDDRQuery(t))
<1>1. \A x : Localised(r, [t EXCEPT !.setts = x]) /\ Localised(r, [t EXCEPT !.isDHCPHost = x])
  BY DEF Localised, Fields
<1>3. t.q = r.q
  BY DEF Localised
<1>4. Localised(r, processDHCPHosts(t))
  <2> DEFINE host == dhcpHostFromRequest(t.q)
             s == [t EXCEPT !.isDHCPHost = host # <<>>]
  <2>1. Localised(r, s) /\ s.q = r.q
    <3>1. Localised(r, s)
      BY <1>1
    <3> QED
      BY <3>1 DEF Localised
  <2>2. processDHCPHosts(t) =
          IF host = <<>> THEN s
          ELSE IF ~t.ctx.private THEN [s EXCEPT !.msg = NewMsgNXDOMAIN(t.q), !.pc = "done"]
          ELSE IF host \in DOMAIN Leases
               THEN [s EXCEPT !.msg = DHCPAnswer(t.q, Leases[host], conf.dns64), !.pc = "log"]
          ELSE s
    BY DEF processDHCPHosts
  <2> DEFINE none == NewMsgNXDOMAIN(t.q)
             lease == DHCPAnswer(t.q, Leases[host], conf.dns64)
  <2>3. Answers(none, r.q) /\ Answers(lease, r.q)
    BY <1>3, Replies, Rewritings
  <2> HIDE DEF s, host, none, lease
  <2>4. /\ Localised(r, [s EXCEPT !.msg = none, !.pc = "done"])
        /\ Localised(r, [s EXCEPT !.msg = lease, !.pc = "log"])
    BY <2>1, <2>3, LocalAnswer
  <2> QED
    BY <2>1, <2>2, <2>4 DEF none, lease
<1>5. Localised(r, processDHCPAddrs(t))
  <2> DEFINE m == [replyCompressed(t.q) EXCEPT
                     !.ans = <<hdr(t.q, "PTR", Hosts[t.ctx.arpa] \o LocalDomain)>>]
  <2>1. Answers(m, r.q)
    BY <1>3, Replies
  <2>2. processDHCPAddrs(t) \in {t, [t EXCEPT !.msg = m, !.pc = "log"]}
    BY DEF processDHCPAddrs
  <2> HIDE DEF m
  <2>3. Localised(r, [t EXCEPT !.msg = m, !.pc = "log"])
    BY <2>1, LocalAnswer
  <2> QED
    BY <2>2, <2>3
<1>6. Localised(r, PrivateSettings(t))
  BY <1>1 DEF PrivateSettings
<1>7. Localised(r, processDDRQuery(t))
  <2> DEFINE m == makeDDRResponse(t.q, TLS)
  <2>1. Answers(m, r.q)
    BY <1>3, Rewritings
  <2>2. processDDRQuery(t) \in {t, [t EXCEPT !.msg = m, !.pc = "done"]}
    BY DEF processDDRQuery
  <2> HIDE DEF m
  <2>3. Localised(r, [t EXCEPT !.msg = m, !.pc = "done"])
    BY <2>1, LocalAnswer
  <2> QED
    BY <2>2, <2>3
<1> QED
  BY <1>4, <1>5, <1>6, <1>7

LEMMA LocalWork ==
    ASSUME WorkInv, NEW w \in Workers, ProcessLocal(w)
    PROVE  WorkInv'
<1> DEFINE r == work[w]
           start == [r EXCEPT !.pc = "filter"]
           ddr == processDDRQuery(start)
           t == IF ddr.pc = "done" THEN ddr
                ELSE PrivateSettings(processDHCPAddrs(processDHCPHosts(ddr)))
<1>1. r.pc = "local"
  BY DEF ProcessLocal, At
<1>2. ReqInv(r) /\ DOMAIN work = Workers
  BY <1>1, Serving
<1>3. Turn(w, t)
  BY <1>2 DEF Turn, ProcessLocal
<1>4. Localised(r, start)
  BY <1>2 DEF Localised, Fields, ReqInv
<1> HIDE DEF start
<1>5. Localised(r, ddr)
  BY <1>4, LocalHandlers
<1> HIDE DEF ddr
<1>6. Localised(r, t)
  BY <1>5, LocalHandlers
<1> HIDE DEF t
<1> QED
  BY <1>1, <1>2, <1>3, <1>6, LocalisedReq, Turned DEF Early, Asking

LEMMA FilterWork ==
    ASSUME WorkInv, NEW w \in Workers, processFilteringBeforeRequest(w)
    PROVE  WorkInv'
<1> DEFINE r == work[w]
           res == CheckHostLocal(filter.rewrites, EtcHosts, Engines, r.q.name, r.q.type, r.setts)
           t == [r EXCEPT !.res = res, !.pc = IF Matched(res) THEN "respond" ELSE "sb"]
<1>1. r.pc = "filter"
  BY DEF processFilteringBeforeRequest, At
<1>2. ReqInv(r) /\ DOMAIN work = Workers
  BY <1>1, Serving
<1>3. Turn(w, t)
  BY <1>2 DEF Turn, processFilteringBeforeRequest
<1> HIDE DEF res
<1>4. /\ DOMAIN t = Fields /\ t.pc \in {"respond", "sb"}
      /\ \A f \in Fields \ {"pc", "res"} : t[f] = r[f]
  BY <1>2 DEF ReqInv, Fields
<1> HIDE DEF t
<1>5. /\ t.ctx = r.ctx /\ t.q = r.q /\ t.origQ = r.origQ /\ t.found = r.found
      /\ t.asked = r.asked /\ t.logged = r.logged
  BY <1>4 DEF Fields
<1>6. ReqInv(t)
  BY <1>1, <1>2, <1>4, <1>5, GoesOn DEF Early, Asking
<1> QED
  BY <1>3, <1>6, Turned

(* A checker has come to a verdict, and it is right.                       *)
LEMMA VerdictReq ==
    ASSUME NEW r, ReqInv(r), r.pc \in Early, NEW kind \in Kinds, NEW blocked \in BOOLEAN,
           blocked <=> Dangerous(r, kind)
    PROVE  ReqInv(Verdict(r, kind, blocked))
<1> DEFINE t == Verdict(r, kind, blocked)
<1>1. /\ DOMAIN t = Fields
      /\ t.ctx = r.ctx /\ t.q = r.q /\ t.origQ = r.origQ /\ t.logged = r.logged
      /\ t.asked = r.asked \cup {kind}
      /\ t.found = IF blocked THEN r.found \cup {kind} ELSE r.found
      /\ t.pc \in {"respond", "pc", "ss"}
  BY DEF Verdict, ReqInv, Fields, Next1
<1> HIDE DEF t
<1>2. Questions(t)
  BY <1>1 DEF ReqInv, Questions, Early, Late, Asking
<1>3. \A k \in Kinds : Dangerous(t, k) <=> Dangerous(r, k)
  BY <1>1 DEF Dangerous, HashesOf
<1>4. \A k \in r.asked : Dangerous(t, k) <=> Dangerous(r, k)
  BY <1>1 DEF Dangerous, HashesOf
<1>5. r.found \subseteq r.asked /\ \A k \in r.asked : k \in r.found <=> Dangerous(r, k)
  BY DEF ReqInv, Checked
<1>6. \A k \in t.asked : k \in t.found <=> Dangerous(t, k)
  BY <1>1, <1>3, <1>4, <1>5
<1>7. t.found \subseteq t.asked
  BY <1>1, <1>5
<1>8. Checked(t)
  BY <1>1, <1>6, <1>7 DEF Checked, Ask
<1> QED
  BY <1>1, <1>2, <1>8 DEF ReqInv, t

LEMMA CheckWork ==
    ASSUME WorkInv, CheckersInv, NEW w \in Workers, NEW kind \in Kinds, Check(w, kind)
    PROVE  WorkInv'
<1> DEFINE r == work[w]
           hashes == hostnameToHashes(ToLower(r.q.name))
           hit == findInCache(checkers[kind], hashes, now)
           skip == [r EXCEPT !.pc = Next1(kind)]
           ask == [r EXCEPT !.pending = hit.request, !.pc = Ask(kind)]
<1>1. r.pc = kind /\ r.pc \in Early
  BY DEF Check, At, Early, Kinds
<1>2. ReqInv(r) /\ DOMAIN work = Workers
  BY <1>1, Serving DEF Kinds
<1>3. Turn(w, skip) \/ (hit.found /\ Turn(w, Verdict(r, kind, hit.blocked)))
      \/ (~hit.found /\ Turn(w, ask))
  BY <1>2 DEF Turn, Check
<1>4. hashes = HashesOf(r) /\ hashes \in Seq(Range(hashes))
  <2>1. r.q = r.ctx.q /\ r.ctx \in Queries
    BY <1>1, <1>2 DEF ReqInv, Questions
  <2> QED
    BY <2>1, HashesSeq DEF HashesOf
<1>5. Knows(checkers[kind], Bad[kind])
  BY DEF CheckersInv
<1> HIDE DEF hashes
<1>6. /\ hit.found => (hit.blocked <=> Dangerous(r, kind))
      /\ Range(hit.request) \subseteq Range(hashes)
      /\ ~hit.found => \A h \in Range(hashes) \cap Bad[kind] : h \in Range(hit.request)
  BY <1>4, <1>5, FindFacts DEF Dangerous
<1>7. hit.blocked \in BOOLEAN
  BY DEF findInCache
<1> HIDE DEF hit
<1>8. ReqInv(skip)
  <2>1. DOMAIN skip = Fields /\ skip.pc = Next1(kind) /\ \A f \in Fields \ {"pc"} : skip[f] = r[f]
    BY <1>2 DEF ReqInv, Fields
  <2> HIDE DEF skip
  <2>2. /\ skip.ctx = r.ctx /\ skip.q = r.q /\ skip.origQ = r.origQ /\ skip.found = r.found
        /\ skip.asked = r.asked /\ skip.logged = r.logged
    BY <2>1 DEF Fields
  <2>3. skip.pc \in Early \ Asking
    BY <2>1 DEF Next1, Early, Asking
  <2> QED
    BY <1>1, <1>2, <2>1, <2>2, <2>3, GoesOn
<1>9. hit.found => ReqInv(Verdict(r, kind, hit.blocked))
  BY <1>1, <1>2, <1>6, <1>7, VerdictReq
<1>10. ~hit.found => ReqInv(ask)
  <2>1. /\ DOMAIN ask = Fields /\ ask.pc = Ask(kind) /\ ask.pending = hit.request
        /\ \A f \in Fields \ {"pc", "pending"} : ask[f] = r[f]
    BY <1>2 DEF ReqInv, Fields
  <2> HIDE DEF ask
  <2>2. /\ ask.ctx = r.ctx /\ ask.q = r.q /\ ask.origQ = r.origQ /\ ask.found = r.found
        /\ ask.asked = r.asked /\ ask.logged = r.logged
    BY <2>1 DEF Fields
  <2>3. Questions(ask)
    BY <1>1, <1>2, <2>1, <2>2 DEF ReqInv, Questions, Ask, Early, Late, Asking
  <2>4. \A k \in Kinds : ask.pc = Ask(k) => k = kind
    BY <2>1 DEF Ask, Kinds
  <2>5. ~hit.found => Undecided(ask, kind)
    BY <1>4, <1>6, <2>1, <2>2 DEF Undecided, HashesOf
  <2>6. /\ ask.found \subseteq ask.asked
        /\ \A k \in ask.asked : k \in ask.found <=> Dangerous(ask, k)
    BY <1>2, <2>2 DEF ReqInv, Checked, Dangerous, HashesOf
  <2> QED
    BY <1>2, <2>1, <2>2, <2>3, <2>4, <2>5, <2>6 DEF ReqInv, Checked
<1> HIDE DEF skip, ask
<1> QED
  BY <1>3, <1>8, <1>9, <1>10, Turned

LEMMA CheckAnsweredWork ==
    ASSUME WorkInv, CheckersInv, NEW w \in Workers, NEW kind \in Kinds, CheckAnswered(w, kind)
    PROVE  WorkInv' /\ CheckersInv'
<1> DEFINE r == work[w]
           received == Exchange(Bad[kind], r.pending)
           blocked == processAnswer(r.pending, received)
           t == Verdict(r, kind, blocked)
           stored == storeInCache(checkers[kind], r.pending, received, now + CacheTime)
<1>1. r.pc = Ask(kind) /\ r.pc \in Early
  BY DEF CheckAnswered, At, Ask, Early, Asking
<1>2. ReqInv(r) /\ DOMAIN work = Workers
  BY <1>1, Serving DEF Ask
<1>3. Turn(w, t)
  BY <1>2 DEF Turn, CheckAnswered
<1>4. blocked <=> Dangerous(r, kind)
  <2>1. blocked <=> \E h \in Range(r.pending) : h \in Bad[kind]
    BY AnswerFacts
  <2>2. Undecided(r, kind)
    BY <1>1, <1>2 DEF ReqInv, Checked
  <2> HIDE DEF blocked
  <2> QED
    BY <2>1, <2>2 DEF Undecided, Dangerous
<1>5. blocked \in BOOLEAN
  BY DEF processAnswer
<1>6. ReqInv(t)
  <2> HIDE DEF blocked
  <2> QED
    BY <1>1, <1>2, <1>4, <1>5, VerdictReq
<1>7. checkers' = [checkers EXCEPT ![kind] = stored]
  BY DEF CheckAnswered
<1>8. Knows(stored, Bad[kind])
  BY StoreFacts DEF CheckersInv
<1>9. CheckersInv'
  <2> HIDE DEF stored
  <2> QED
    BY <1>7, <1>8 DEF CheckersInv
<1> HIDE DEF t
<1> QED
  BY <1>3, <1>6, <1>9, Turned

LEMMA CheckFailedWork ==
    ASSUME WorkInv, NEW w \in Workers, NEW kind \in Kinds, CheckFailed(w, kind)
    PROVE  WorkInv'
<1>1. work[w].pc \in Early
  BY DEF CheckFailed, At, Ask, Early, Asking
<1>2. Answer(w, NewMsgSERVFAIL(work[w].q))
  BY DEF CheckFailed
<1> DEFINE m == NewMsgSERVFAIL(work[w].q)
<1>3. Answers(m, work[w].q)
  BY Replies
<1> HIDE DEF m
<1> QED
  BY <1>1, <1>2, <1>3, AnswerEnds DEF m

LEMMA SafeSearchWork ==
    ASSUME WorkInv, NEW w \in Workers, checkSafeSearch(w) \/ setCacheResult(w)
    PROVE  WorkInv'
<1> DEFINE r == work[w]
<1>1. r.pc \in Early
  BY DEF checkSafeSearch, setCacheResult, At, Early
<1>2. ReqInv(r) /\ DOMAIN work = Workers
  <2>1. r.pc # "idle"
    BY <1>1 DEF Early, Asking
  <2> QED
    BY <2>1, Serving
<1>3. setCacheResult(w) => WorkInv'
  BY <1>1, Advances DEF setCacheResult, Early, Asking
<1>4. ASSUME NEW t, Turn(w, t), NEW res, NEW pc \in {"respond", "ss_store"},
             t = [r EXCEPT !.pc = pc] \/ t = [r EXCEPT !.res = res, !.pc = pc]
      PROVE  WorkInv'
  <2>1. DOMAIN t = Fields /\ t.pc = pc /\ \A f \in Fields \ {"pc", "res"} : t[f] = r[f]
    BY <1>2, <1>4 DEF ReqInv, Fields
  <2>2. /\ t.ctx = r.ctx /\ t.q = r.q /\ t.origQ = r.origQ /\ t.found = r.found
        /\ t.asked = r.asked /\ t.logged = r.logged
    BY <2>1 DEF Fields
  <2>3. ReqInv(t)
    BY <1>1, <1>2, <2>1, <2>2, GoesOn DEF Early, Asking
  <2> QED
    BY <1>4, <2>3, Turned
<1>5. checkSafeSearch(w) =>
        \E t, res : /\ Turn(w, t)
                    /\ \/ t = [r EXCEPT !.pc = "respond"]
                       \/ t = [r EXCEPT !.res = res, !.pc = "respond"]
                       \/ t = [r EXCEPT !.res = res, !.pc = "ss_store"]
  <2> SUFFICES ASSUME checkSafeSearch(w)
               PROVE  \E t, res : /\ Turn(w, t)
                    /\ \/ t = [r EXCEPT !.pc = "respond"]
                       \/ t = [r EXCEPT !.res = res, !.pc = "respond"]
                       \/ t = [r EXCEPT !.res = res, !.pc = "ss_store"]
    OBVIOUS
  <2> DEFINE key == <<r.q.type, ToLower(r.q.name)>>
             rewrite == searchHost(ss.engine, key[2])
             cached == getCachedResult(key)
             fresh == newResult(rewrite, r.q.type)
             on == ~(~(r.setts.protection /\ r.setts.ss) \/ r.q.type \notin {"A", "AAAA", "HTTPS"})
             t == IF ~on THEN [r EXCEPT !.pc = "respond"]
                  ELSE IF cached # None THEN [r EXCEPT !.res = cached, !.pc = "respond"]
                  ELSE IF rewrite = None THEN [r EXCEPT !.pc = "respond"]
                  ELSE [r EXCEPT !.res = fresh, !.pc = "ss_store"]
  <2>1. Turn(w, t)
    BY <1>2 DEF Turn, checkSafeSearch
  <2>2. \E res : \/ t = [r EXCEPT !.pc = "respond"]
                 \/ t = [r EXCEPT !.res = res, !.pc = "respond"]
                 \/ t = [r EXCEPT !.res = res, !.pc = "ss_store"]
    <3> HIDE DEF cached, fresh, rewrite, on
    <3>1. \/ t = [r EXCEPT !.pc = "respond"]
          \/ t = [r EXCEPT !.res = cached, !.pc = "respond"]
          \/ t = [r EXCEPT !.res = fresh, !.pc = "ss_store"]
      OBVIOUS
    <3> HIDE DEF t
    <3> QED
      BY <3>1
  <2> HIDE DEF t
  <2> QED
    BY <2>1, <2>2
<1> QED
  BY <1>3, <1>4, <1>5

(* A step of a request that has a result.                                  *)
LEMMA GoesLate ==
    ASSUME NEW r, ReqInv(r), r.pc \in {"respond", "upstream", "resolve"}, NEW t,
           DOMAIN t = Fields, t.pc \in {"upstream", "resolve", "after"},
           t.pc = "after" => Answers(t.msg, t.q),
           t.ctx = r.ctx, t.res = r.res, t.logged = r.logged, t.found = r.found,
           t.asked = r.asked,
           \/ t.q = r.q /\ t.origQ = r.origQ
           \/ r.pc = "respond" /\ t.origQ = r.q /\ r.res.reason \in Renamed
    PROVE  ReqInv(t)
<1>1. r.logged = None /\ (r.pc = "respond" => r.origQ = None /\ r.q = r.ctx.q)
  BY DEF ReqInv, Questions, Early
<1>2. r.ctx.q # None /\ r.ctx \in Queries
  BY QueriesAssumption DEF ReqInv
<1>3. Questions(t)
  BY <1>1, <1>2 DEF ReqInv, Questions, Early, Late, Asking
<1>4. Checked(t)
  BY DEF ReqInv, Checked, Ask, Dangerous, HashesOf
<1> QED
  BY <1>2, <1>3, <1>4 DEF ReqInv

LEMMA Replied ==
    ASSUME NEW r, ReqInv(r), r.pc \in {"respond", "resolve"}, NEW m, Answers(m, r.q), NEW x,
           NEW t, \/ t = [r EXCEPT !.msg = m, !.pc = "after"]
                  \/ t = [r EXCEPT !.msg = m, !.fromUpstream = x, !.pc = "after"]
    PROVE  ReqInv(t)
<1>1. /\ DOMAIN t = Fields /\ t.pc = "after" /\ t.msg = m
      /\ \A f \in Fields \ {"pc", "msg", "fromUpstream"} : t[f] = r[f]
  BY DEF ReqInv, Fields
<1>2. /\ t.ctx = r.ctx /\ t.q = r.q /\ t.origQ = r.origQ /\ t.res = r.res
      /\ t.found = r.found /\ t.asked = r.asked /\ t.logged = r.logged
  BY <1>1 DEF Fields
<1> QED
  BY <1>1, <1>2, GoesLate

LEMMA RequestWork ==
    ASSUME WorkInv, NEW w \in Workers, filterDNSRequest(w)
    PROVE  WorkInv'
<1> DEFINE r == work[w]
           res == r.res
           with(msg) == [r EXCEPT !.msg = msg, !.pc = "after"]
           m1 == FilterMessage(r, res, None)
           m2 == getCNAMEWithIPs(r.q, res.ips, res.canon)
           m3 == filterDNSRewrite(r.q, res.rw)
           named == [r EXCEPT !.origQ = r.q, !.q.name = res.canon, !.pc = "upstream"]
           plain == [r EXCEPT !.pc = "upstream"]
           t == CASE isRewrittenCNAME(res) -> named
                  [] res.filtered -> with(m1)
                  [] res.reason = "Rewritten" -> with(m2)
                  [] res.reason \in {"RewrittenRule", "RewrittenAutoHosts"} -> with(m3)
                  [] OTHER -> plain
<1>1. r.pc = "respond"
  BY DEF filterDNSRequest, At
<1>2. ReqInv(r) /\ DOMAIN work = Workers
  BY <1>1, Serving
<1>3. Turn(w, t)
  BY <1>2 DEF Turn, filterDNSRequest
<1>4. Answers(m1, r.q) /\ Answers(m2, r.q) /\ Answers(m3, r.q)
  BY Blockings, Rewritings DEF FilterMessage
<1> HIDE DEF m1, m2, m3
<1>5. ReqInv(with(m1)) /\ ReqInv(with(m2)) /\ ReqInv(with(m3))
  <2>1. \A m : Answers(m, r.q) => ReqInv(with(m))
    BY <1>1, <1>2, Replied
  <2> HIDE DEF with
  <2> QED
    BY <1>4, <2>1
<1>6. isRewrittenCNAME(res) => ReqInv(named)
  <2>1. /\ DOMAIN named = Fields /\ named.pc = "upstream" /\ named.origQ = r.q
        /\ \A f \in Fields \ {"pc", "q", "origQ"} : named[f] = r[f]
    BY <1>2 DEF ReqInv, Fields
  <2> HIDE DEF named
  <2>2. /\ named.ctx = r.ctx /\ named.res = r.res
        /\ named.found = r.found /\ named.asked = r.asked /\ named.logged = r.logged
    BY <2>1 DEF Fields
  <2>3. isRewrittenCNAME(res) => res.reason \in Renamed
    BY DEF isRewrittenCNAME, Renamed
  <2> QED
    BY <1>1, <1>2, <2>1, <2>2, <2>3, GoesLate
<1>7. ReqInv(plain)
  <2>1. /\ DOMAIN plain = Fields /\ plain.pc = "upstream"
        /\ \A f \in Fields \ {"pc"} : plain[f] = r[f]
    BY <1>2 DEF ReqInv, Fields
  <2> HIDE DEF plain
  <2>2. /\ plain.ctx = r.ctx /\ plain.q = r.q /\ plain.origQ = r.origQ /\ plain.res = r.res
        /\ plain.found = r.found /\ plain.asked = r.asked /\ plain.logged = r.logged
    BY <2>1 DEF Fields
  <2> QED
    BY <1>1, <1>2, <2>1, <2>2, GoesLate
<1>8. ReqInv(t)
  <2> HIDE DEF with, named, plain
  <2> QED
    BY <1>5, <1>6, <1>7
<1> HIDE DEF t
<1> QED
  BY <1>3, <1>8, Turned

LEMMA PageWork ==
    ASSUME WorkInv, NEW w \in Workers, LookupPage(w)
    PROVE  WorkInv'
<1> DEFINE r == work[w]
<1>1. r.pc = "respond"
  BY DEF LookupPage, At
<1>2. ReqInv(r) /\ DOMAIN work = Workers
  BY <1>1, Serving
<1>3. PICK lookup : work' = [work EXCEPT ![w].msg = FilterMessage(r, r.res, lookup),
                                         ![w].pc = "after"]
  BY DEF LookupPage
<1> DEFINE m == FilterMessage(r, r.res, lookup)
           t == [r EXCEPT !.msg = m, !.pc = "after"]
<1>4. Turn(w, t)
  BY <1>2, <1>3 DEF Turn
<1>5. Answers(m, r.q)
  BY Blockings DEF FilterMessage
<1> HIDE DEF m
<1>6. ReqInv(t)
  BY <1>1, <1>2, <1>5, Replied
<1> HIDE DEF t
<1> QED
  BY <1>4, <1>6, Turned

LEMMA UpstreamWork ==
    ASSUME WorkInv, NEW w \in Workers, processUpstream(w)
    PROVE  WorkInv'
<1> DEFINE r == work[w]
           t == [r EXCEPT !.wantsAD = setReqAD(r), !.pc = "resolve"]
<1>1. r.pc = "upstream"
  BY DEF processUpstream, At
<1>2. ReqInv(r) /\ DOMAIN work = Workers
  BY <1>1, Serving
<1>3. ASSUME r.isDHCPHost, Answer(w, NewMsgNXDOMAIN(r.q))
      PROVE  WorkInv'
  <2> DEFINE m == NewMsgNXDOMAIN(r.q)
  <2>1. Answers(m, r.q)
    BY Replies
  <2> HIDE DEF m
  <2> QED
    BY <1>1, <1>3, <2>1, AnswerEnds DEF Late, m
<1>4. ASSUME Answer(w, NewMsgSERVFAIL(r.q))
      PROVE  WorkInv'
  <2> DEFINE m == NewMsgSERVFAIL(r.q)
  <2>1. m.rcode = "SERVFAIL"
    BY Replies
  <2> HIDE DEF m
  <2> QED
    BY <1>1, <1>4, <2>1, AnswerEnds DEF Late, m
<1>5. ReqInv(t)
  <2>1. /\ DOMAIN t = Fields /\ t.pc = "resolve"
        /\ \A f \in Fields \ {"pc", "wantsAD"} : t[f] = r[f]
    BY <1>2 DEF ReqInv, Fields
  <2> HIDE DEF t
  <2>2. /\ t.ctx = r.ctx /\ t.q = r.q /\ t.origQ = r.origQ /\ t.res = r.res
        /\ t.found = r.found /\ t.asked = r.asked /\ t.logged = r.logged
    BY <2>1 DEF Fields
  <2> QED
    BY <1>1, <1>2, <2>1, <2>2, GoesLate
<1>6. \/ r.isDHCPHost /\ Answer(w, NewMsgNXDOMAIN(r.q))
      \/ Answer(w, NewMsgSERVFAIL(r.q))
      \/ Turn(w, t)
  BY <1>2 DEF processUpstream, Turn
<1> HIDE DEF t
<1> QED
  BY <1>3, <1>4, <1>5, <1>6, Turned

LEMMA ResolvedWork ==
    ASSUME WorkInv, NEW w \in Workers, Resolved(w)
    PROVE  WorkInv'
<1> DEFINE r == work[w]
<1>1. r.pc = "resolve"
  BY DEF Resolved, At
<1>2. ReqInv(r) /\ DOMAIN work = Workers
  BY <1>1, Serving
<1>3. PICK m \in Resolve(r.q) :
        work' = [work EXCEPT
            ![w].msg = IF m = None THEN NewMsgSERVFAIL(r.q) ELSE setRespAD(r, m),
            ![w].fromUpstream = m # None, ![w].pc = IF m = None THEN "done" ELSE "after"]
  BY DEF Resolved
<1> DEFINE fail == [r EXCEPT !.msg = NewMsgSERVFAIL(r.q), !.fromUpstream = FALSE, !.pc = "done"]
           a == setRespAD(r, m)
           t == [r EXCEPT !.msg = a, !.fromUpstream = TRUE, !.pc = "after"]
<1>4. IF m = None THEN Turn(w, fail) ELSE Turn(w, t)
  BY <1>2, <1>3 DEF Turn
<1>5. m # None => Answers(a, r.q)
  <2>1. m # None => Answers(m, r.q)
    BY DEF Resolve, Answers, reply
  <2> QED
    BY <2>1, Keeps DEF setRespAD
<1> HIDE DEF a
<1>6. m # None => ReqInv(t)
  BY <1>1, <1>2, <1>5, Replied
<1>7. ReqInv(fail)
  <2>1. /\ DOMAIN fail = Fields /\ fail.pc = "done" /\ fail.msg = NewMsgSERVFAIL(r.q)
        /\ \A f \in Fields \ {"pc", "msg", "fromUpstream"} : fail[f] = r[f]
    BY <1>2 DEF ReqInv, Fields
  <2> HIDE DEF fail
  <2>2. /\ fail.ctx = r.ctx /\ fail.q = r.q /\ fail.origQ = r.origQ /\ fail.res = r.res
        /\ fail.found = r.found /\ fail.asked = r.asked /\ fail.logged = r.logged
    BY <2>1 DEF Fields
  <2>3. Answered(fail)
    BY <2>1, Replies DEF Answered
  <2>4. r.logged = None
    BY <1>1, <1>2 DEF ReqInv, Questions
  <2> QED
    BY <1>1, <1>2, <2>1, <2>2, <2>3, <2>4, Ends DEF Late
<1> HIDE DEF fail, t
<1> QED
  BY <1>4, <1>6, <1>7, Turned

(* The request is ready for the log.                                       *)
LEMMA ToLog ==
    ASSUME NEW r, ReqInv(r), r.pc = "after", NEW t, DOMAIN t = Fields, t.pc = "log",
           t.ctx = r.ctx, t.origQ = r.origQ, t.logged = r.logged, t.found = r.found,
           t.asked = r.asked, t.res = r.res \/ r.origQ = None,
           t.q = r.ctx.q, Answers(t.msg, r.ctx.q)
    PROVE  ReqInv(t)
<1>1. r.logged = None
  BY DEF ReqInv, Questions
<1>2. Questions(t)
  BY <1>1 DEF ReqInv, Questions, Early, Late, Asking
<1>3. Checked(t)
  BY DEF ReqInv, Checked, Ask, Dangerous, HashesOf
<1> QED
  BY <1>2, <1>3 DEF ReqInv

LEMMA AfterWork ==
    ASSUME WorkInv, NEW w \in Workers, processFilteringAfterResponse(w)
    PROVE  WorkInv'
<1> DEFINE s == work[w]
           r == [s EXCEPT !.pc = "log"]
           restored == RestoreQuestion(r)
           filtered == filterAfterResponse(r)
           renamed == r.res.reason \in Renamed
<1>1. s.pc = "after"
  BY DEF processFilteringAfterResponse, At
<1>2. ReqInv(s) /\ DOMAIN work = Workers
  BY <1>1, Serving
<1>3. (renamed /\ Turn(w, restored)) \/ (~renamed /\ (Turn(w, r) \/ Turn(w, filtered)))
  BY <1>2 DEF Turn, processFilteringAfterResponse, Renamed
<1>4. DOMAIN r = Fields /\ r.pc = "log" /\ \A f \in Fields \ {"pc"} : r[f] = s[f]
  BY <1>2 DEF ReqInv, Fields
<1> HIDE DEF r
<1>5. /\ r.ctx = s.ctx /\ r.q = s.q /\ r.origQ = s.origQ /\ r.res = s.res /\ r.msg = s.msg
      /\ r.found = s.found /\ r.asked = s.asked /\ r.logged = s.logged
  BY <1>4 DEF Fields
<1>6. /\ Answers(s.msg, s.q)
      /\ s.origQ = None => s.q = s.ctx.q
      /\ s.origQ # None => s.origQ = s.ctx.q /\ s.res.reason \in Renamed
  BY <1>1, <1>2 DEF ReqInv, Questions
<1>7. ASSUME s.origQ = None
      PROVE  ReqInv(r)
  BY <1>1, <1>2, <1>4, <1>5, <1>6, <1>7, ToLog
<1>8. ReqInv(restored)
  <2>1. CASE s.origQ = None
    BY <1>5, <1>7, <2>1 DEF RestoreQuestion
  <2>2. CASE s.origQ # None
    <3> DEFINE x == <<hdr(r.origQ, "CNAME", r.res.canon)>> \o r.msg.ans
    <3>1. restored = [r EXCEPT !.q = r.origQ, !.msg.q = r.origQ, !.msg.ans = x]
      BY <1>5, <2>2 DEF RestoreQuestion
    <3> HIDE DEF x, restored
    <3>2. /\ DOMAIN restored = Fields /\ restored.pc = "log" /\ restored.q = r.origQ
          /\ \A f \in Fields \ {"q", "msg"} : restored[f] = r[f]
          /\ restored.msg = [r.msg EXCEPT !.q = r.origQ, !.ans = x]
      BY <1>4, <3>1 DEF Fields
    <3>3. Answers(restored.msg, r.origQ)
      BY <1>5, <1>6, <3>2 DEF Answers
    <3>4. /\ restored.ctx = r.ctx /\ restored.origQ = r.origQ /\ restored.res = r.res
          /\ restored.found = r.found /\ restored.asked = r.asked /\ restored.logged = r.logged
      BY <3>2 DEF Fields
    <3> QED
      BY <1>1, <1>2, <1>5, <1>6, <2>2, <3>2, <3>3, <3>4, ToLog
  <2> QED
    BY <2>1, <2>2
<1>9. ASSUME s.origQ = None
      PROVE  ReqInv(filtered)
  <2>1. PICK ans, res, page :
          LET m == genDNSFilterMessage(r.q, res, filter.blocking, page, None)
          IN  filtered \in {r, [r EXCEPT !.msg.ans = ans], [r EXCEPT !.res = res, !.msg = m]}
    BY DEF filterAfterResponse, filterDNSResponse, FilterMessage
  <2> DEFINE m == genDNSFilterMessage(r.q, res, filter.blocking, page, None)
             t1 == [r EXCEPT !.msg.ans = ans]
             t2 == [r EXCEPT !.res = res, !.msg = m]
  <2>2. Answers(m, r.q)
    BY Blockings
  <2> HIDE DEF m
  <2>3. ReqInv(t1)
    <3>1. /\ DOMAIN t1 = Fields /\ \A f \in Fields \ {"msg"} : t1[f] = r[f]
          /\ t1.msg = [r.msg EXCEPT !.ans = ans]
      BY <1>4 DEF Fields
    <3> HIDE DEF t1
    <3>2. /\ t1.ctx = r.ctx /\ t1.origQ = r.origQ /\ t1.res = r.res /\ t1.q = r.q
          /\ t1.found = r.found /\ t1.asked = r.asked /\ t1.logged = r.logged /\ t1.pc = r.pc
      BY <3>1 DEF Fields
    <3>3. Answers(t1.msg, r.q)
      <4>1. Answers(r.msg, r.q)
        BY <1>5, <1>6
      <4>2. Answers([r.msg EXCEPT !.ans = ans], r.q)
        BY <4>1, Keeps
      <4> QED
        BY <3>1, <4>2
    <3> QED
      BY <1>1, <1>2, <1>4, <1>5, <1>6, <1>9, <3>1, <3>2, <3>3, ToLog
  <2>4. ReqInv(t2)
    <3>1. /\ DOMAIN t2 = Fields /\ \A f \in Fields \ {"msg", "res"} : t2[f] = r[f]
          /\ t2.msg = m
      BY <1>4 DEF Fields
    <3> HIDE DEF t2
    <3>2. /\ t2.ctx = r.ctx /\ t2.origQ = r.origQ /\ t2.q = r.q
          /\ t2.found = r.found /\ t2.asked = r.asked /\ t2.logged = r.logged /\ t2.pc = r.pc
      BY <3>1 DEF Fields
    <3> QED
      BY <1>1, <1>2, <1>4, <1>5, <1>6, <1>9, <2>2, <3>1, <3>2, ToLog
  <2> HIDE DEF t1, t2, filtered
  <2> QED
    BY <1>7, <1>9, <2>1, <2>3, <2>4 DEF m, t1, t2
<1>10. ~renamed => s.origQ = None
  BY <1>5, <1>6
<1> HIDE DEF restored, filtered
<1> QED
  BY <1>3, <1>7, <1>8, <1>9, <1>10, Turned

LEMMA LogWork ==
    ASSUME WorkInv, NEW w \in Workers, processQueryLogsAndStats(w)
    PROVE  WorkInv'
<1> DEFINE r == work[w]
           entry == IF shouldLog(r) THEN logQuery(r) ELSE None
           t == [r EXCEPT !.logged = entry, !.pc = "done"]
<1>1. r.pc = "log"
  BY DEF processQueryLogsAndStats, At
<1>2. ReqInv(r) /\ DOMAIN work = Workers
  BY <1>1, Serving
<1>3. Turn(w, t)
  BY <1>2 DEF Turn, processQueryLogsAndStats
<1>4. entry # None => entry.q = r.q
  BY DEF logQuery
<1> HIDE DEF entry
<1>5. /\ DOMAIN t = Fields /\ t.pc = "done" /\ t.logged = entry
      /\ \A f \in Fields \ {"pc", "logged"} : t[f] = r[f]
  BY <1>2 DEF ReqInv, Fields
<1> HIDE DEF t
<1>6. /\ t.ctx = r.ctx /\ t.q = r.q /\ t.origQ = r.origQ /\ t.res = r.res /\ t.msg = r.msg
      /\ t.found = r.found /\ t.asked = r.asked
  BY <1>5 DEF Fields
<1>7. r.q = r.ctx.q /\ Answers(r.msg, r.ctx.q)
  BY <1>1, <1>2 DEF ReqInv, Questions
<1>8. Answered(t)
  BY <1>6, <1>7 DEF Answered, Answers
<1>9. ReqInv(t)
  BY <1>1, <1>2, <1>4, <1>5, <1>6, <1>7, <1>8, Ends DEF Late
<1> QED
  BY <1>3, <1>9, Turned
-----------------------------------------------------------------------------
(* Answers and verdicts *)

LEMMA ServeWork ==
    ASSUME WorkInv, CheckersInv, NEW w \in Workers, HandleBefore(w) \/ Serve(w)
    PROVE  WorkInv' /\ CheckersInv'
<1> DEFINE Others == \/ CheckClient(w) \/ CheckAccessHost(w) \/ processInitial(w)
                     \/ UpdatedProtectionStatus(w) \/ ProcessLocal(w)
                     \/ processFilteringBeforeRequest(w)
                     \/ (\E kind \in Kinds : Check(w, kind) \/ CheckFailed(w, kind))
                     \/ checkSafeSearch(w) \/ setCacheResult(w) \/ filterDNSRequest(w)
                     \/ LookupPage(w) \/ processUpstream(w) \/ Resolved(w)
                     \/ processFilteringAfterResponse(w) \/ processQueryLogsAndStats(w)
<1>1. HandleBefore(w) \/ Others \/ \E kind \in Kinds : CheckAnswered(w, kind)
  BY DEF Serve, handleDNSRequest, Kinds
<1>2. HandleBefore(w) \/ Others => WorkInv'
  BY HandleBeforeWork, AccessWork, InitialWork, StatusWork, LocalWork, FilterWork, CheckWork,
     CheckFailedWork, SafeSearchWork, RequestWork, PageWork, UpstreamWork, ResolvedWork,
     AfterWork, LogWork
<1>3. HandleBefore(w) \/ Others => checkers' = checkers
  BY DEF HandleBefore, CheckClient, CheckAccessHost, processInitial, UpdatedProtectionStatus,
         ProcessLocal, processFilteringBeforeRequest, Check, CheckFailed, checkSafeSearch,
         setCacheResult, filterDNSRequest, LookupPage, processUpstream, Resolved,
         processFilteringAfterResponse, processQueryLogsAndStats, OnlyWork, state
<1>4. checkers' = checkers => CheckersInv'
  BY DEF CheckersInv
<1> HIDE DEF Others
<1> QED
  BY <1>1, <1>2, <1>3, <1>4, CheckAnsweredWork

(* No other step touches a request or a cache of verdicts.                 *)
LEMMA OthersWork ==
    ASSUME Call \/ Admin \/ Job \/ Tick
    PROVE  work' = work /\ checkers' = checkers
<1>1. ASSUME Call \/ AdmWait \/ AdmAcquire \/ handleSetConfig \/ handleSetProtection
             \/ handleAccessSet \/ Close \/ WriteDiskConfig \/ Reconfigure
      PROVE  work' = work /\ checkers' = checkers
  BY <1>1 DEF Call, AdmWait, AdmAcquire, handleSetConfig, handleSetProtection, handleAccessSet,
              Close, WriteDiskConfig, Reconfigure, OnlyAdm, state
<1>2. ASSUME handleTestUpstreamDNS \/ Reported \/ ChangeRewrites \/ setProtectedBool
             \/ handleSafeSearchEnable \/ UpdateSafeSearch \/ handleSafeSearchSettings
             \/ Job \/ Tick
      PROVE  work' = work /\ checkers' = checkers
  BY <1>2 DEF handleTestUpstreamDNS, Reported, ChangeRewrites, setProtectedBool,
              handleSafeSearchEnable, UpdateSafeSearch, handleSafeSearchSettings, Job, JobWait,
              JobAcquire, enableProtectionAfterPause, JobSave, Tick, OnlyAdm, state
<1> QED
  BY <1>1, <1>2 DEF Admin

RequestsInv == WorkInv /\ CheckersInv

LEMMA RequestsInit ==
    Init => RequestsInv
BY DEF Init, RequestsInv, WorkInv, CheckersInv, Knows, Kinds

LEMMA RequestsStep ==
    ASSUME RequestsInv, [Next]_vars
    PROVE  RequestsInv'
<1>1. ASSUME work' = work, checkers' = checkers
      PROVE  RequestsInv'
  BY <1>1 DEF RequestsInv, WorkInv, CheckersInv, ReqInv, Questions, Checked, Answered, Dangerous,
              HashesOf, Undecided
<1>2. ASSUME NEW w \in Workers, HandleBefore(w) \/ Serve(w)
      PROVE  RequestsInv'
  BY <1>2, ServeWork DEF RequestsInv
<1>3. ASSUME UNCHANGED vars
      PROVE  RequestsInv'
  BY <1>1, <1>3 DEF vars
<1> QED
  BY <1>1, <1>2, <1>3, OthersWork DEF Next

LEMMA RequestsInvariance ==
    Spec => []RequestsInv
BY RequestsInit, RequestsStep, PTL DEF Spec

(* Every client gets an answer to the question it asked, and the query log *)
(* has its question too, whatever rewrites, rules and checkers do to the   *)
(* request on the way (process.go:612), except for the unknown names of    *)
(* the local domain.                                                       *)
THEOREM QuestionsAnswered ==
    Spec => []AnswersTheQuestion
<1>1. ASSUME RequestsInv
      PROVE  AnswersTheQuestion
  <2> SUFFICES ASSUME NEW w \in Workers, work[w].pc = "done", work[w].msg # None
               PROVE  /\ \/ work[w].msg.q = work[w].ctx.q
                         \/ work[w].isDHCPHost \/ work[w].msg.rcode = "SERVFAIL"
                      /\ work[w].logged # None => work[w].logged.q = work[w].ctx.q
    BY DEF AnswersTheQuestion
  <2>1. ReqInv(work[w])
    BY <1>1, Serving DEF RequestsInv
  <2> QED
    BY <2>1 DEF ReqInv, Questions, Answered
<1> QED
  BY <1>1, RequestsInvariance, PTL

(* A checker calls a name dangerous exactly when the service would, however*)
(* many requests fill the cache in whatever order, whichever prefixes they *)
(* share, and whenever its items expire (cache.go:58, hashprefix.go:104).  *)
THEOREM VerdictsRight ==
    Spec => []VerdictsAgree
<1>1. ASSUME RequestsInv
      PROVE  VerdictsAgree
  <2> SUFFICES ASSUME NEW w \in Workers, work[w].pc = "done", NEW kind \in work[w].asked
               PROVE  (kind \in work[w].found) <=>
                         \E h \in Range(hostnameToHashes(ToLower(work[w].ctx.q.name))) :
                            h \in Bad[kind]
    BY DEF VerdictsAgree
  <2>1. ReqInv(work[w])
    BY <1>1, Serving DEF RequestsInv
  <2> QED
    BY <2>1 DEF ReqInv, Checked, Dangerous, HashesOf
<1> QED
  BY <1>1, RequestsInvariance, PTL
-----------------------------------------------------------------------------
(* The calls *)

(* A private list as newPrivateConfig wants it.                            *)
Private(lines) ==
    lines = <<>> \/ (/\ ~ParseUpstreamsConfig(lines).err
                     /\ DOMAIN ParseUpstreamsConfig(lines).reserved = {})
Reachable(lines) == \A i \in DOMAIN lines : Line[lines[i]].kind = "ups"
Modes == {"load_balance", "parallel", "fastest_addr"}

LEMMA PrivateError ==
    ASSUME NEW c, NEW lines
    PROVE  newPrivateConfig(c, lines).err <=> ~Private(lines)
<1> DEFINE parsed == ParseUpstreamsConfig(lines)
           foreign(addr) == ~ourAddrsSet(c, addr)
           kept == filterOutAddrs(c, parsed)
           uc == IF lines = <<>>
                 THEN [err |-> FALSE, ups |-> defaultLocalPTRUpstreams(c), reserved |-> <<>>]
                 ELSE kept
<1>1. newPrivateConfig(c, lines) = [uc EXCEPT !.err = @ \/ DOMAIN uc.reserved # {}]
  BY DEF newPrivateConfig
<1>2. DOMAIN parsed = {"err", "ups", "reserved"}
  BY DEF ParseUpstreamsConfig
<1> HIDE DEF parsed
<1>3. kept.err = parsed.err /\ DOMAIN kept.reserved = DOMAIN parsed.reserved
      /\ DOMAIN kept = {"err", "ups", "reserved"}
  BY <1>2 DEF filterOutAddrs
<1>4. parsed.err \in BOOLEAN
  BY DEF ParseUpstreamsConfig, parsed
<1> HIDE DEF kept
<1>5. CASE lines = <<>>
  <2>1. uc.err = FALSE /\ DOMAIN uc.reserved = {} /\ "err" \in DOMAIN uc
    BY <1>5
  <2> HIDE DEF uc
  <2> QED
    BY <1>1, <1>5, <2>1 DEF Private
<1>6. CASE lines # <<>>
  <2>1. uc = kept
    BY <1>6
  <2> HIDE DEF uc
  <2>2. newPrivateConfig(c, lines).err = (kept.err \/ DOMAIN kept.reserved # {})
    BY <1>1, <1>3, <2>1
  <2> QED
    BY <1>3, <1>4, <1>6, <2>2 DEF Private, parsed
<1> QED
  BY <1>5, <1>6

(* What validate has made sure of.                                         *)
Valid(req) ==
    /\ "upstream_dns" \in DOMAIN req => Parsable(req.upstream_dns)
    /\ "fallback_dns" \in DOMAIN req => Parsable(req.fallback_dns)
    /\ "bootstrap_dns" \in DOMAIN req => Reachable(req.bootstrap_dns)
    /\ "local_ptr_upstreams" \in DOMAIN req => Private(req.local_ptr_upstreams)
    /\ "upstream_mode" \in DOMAIN req => req.upstream_mode \in Modes \cup {""}
    /\ "blocking" \in DOMAIN req => validateBlockingMode(req.blocking)

LEMMA ValidateFacts ==
    ASSUME NEW c, NEW req, validate(c, req),
           \A f \in Lists \cap DOMAIN req : req[f] \in Seq(Lines)
    PROVE  Valid(req)
<1>1. /\ ~ParseUpstreamsConfig(Asked(req, "upstream_dns", <<>>)).err
      /\ ~ParseUpstreamsConfig(Asked(req, "fallback_dns", <<>>)).err
      /\ checkPrivateRDNS(c, req) /\ checkBootstrap(req) /\ checkUpstreamMode(req)
      /\ checkBlockingMode(req)
  BY DEF validate, validateUpstreamDNSServers
<1>2. \A f \in {"upstream_dns", "fallback_dns"} : f \in DOMAIN req =>
         Asked(req, f, <<>>) = req[f] /\ req[f] \in Seq(Lines)
  BY DEF Asked, Lists
<1>3. \A f \in {"upstream_dns", "fallback_dns"} : f \in DOMAIN req => Parsable(req[f])
  BY <1>1, <1>2, ParseError
<1>4. "local_ptr_upstreams" \in DOMAIN req => Private(req.local_ptr_upstreams)
  <2>1. CASE req.local_ptr_upstreams = <<>>
    BY <2>1 DEF Private
  <2>2. ASSUME "local_ptr_upstreams" \in DOMAIN req, req.local_ptr_upstreams # <<>>
        PROVE  Private(req.local_ptr_upstreams)
    <3>1. ~newPrivateConfig(c, req.local_ptr_upstreams).err
      BY <1>1, <2>2 DEF checkPrivateRDNS, containsPrivateRDNS, Asked
    <3> QED
      BY <3>1, PrivateError
  <2> QED
    BY <2>1, <2>2
<1> QED
  BY <1>1, <1>3, <1>4 DEF Valid, checkBootstrap, checkUpstreamMode, checkBlockingMode, Reachable,
                          Modes

(* A call that is under way has been decoded, and accepted.                *)
Passed(op) ==
    /\ op.name = "dns_config" => Valid(op.arg)
    /\ op.name = "access" => ~newAccessCtx(op.arg).err
CallInv(a) ==
    /\ {"op", "pc", "restart"} \subseteq DOMAIN a
    /\ a.pc # "idle" /\ Decoded(a.op)
    /\ a.pc \in {"lock", "change"} => Passed(a.op)
    /\ a.pc = "ss_conf" => a.op.name = "ss_settings"
    /\ a.pc = "tested" => /\ a.op.name = "test_upstream"
                          /\ \E x \in SUBSET {Line[l].addr : l \in Range(a.op.arg.upstream_dns)} :
                                a.report = status(a.op.arg, x, x)
AdmInv ==
    /\ {"ops", "requests"} \subseteq DOMAIN left /\ left.ops \in Seq(Calls)
    /\ adm = Idle \/ CallInv(adm)

LEMMA Calling ==
    ASSUME AdmInv, adm.pc # "idle"
    PROVE  CallInv(adm)
BY DEF AdmInv, Idle

LEMMA CallStep ==
    ASSUME AdmInv, Call
    PROVE  AdmInv'
<1> DEFINE o == Head(left.ops)
           op == IF o.name = "dns_config" THEN [o EXCEPT !.arg = checkServiceType(conf, @)] ELSE o
           a == [op |-> op, pc |-> IF op.name \in Locked THEN "lock" ELSE "apply",
                 restart |-> FALSE]
<1>1. left.ops \in Seq(Calls) /\ left.ops # <<>> /\ {"ops", "requests"} \subseteq DOMAIN left
  BY DEF AdmInv, Call
<1>2. o \in Calls /\ Tail(left.ops) \in Seq(Calls)
  BY <1>1
<1>3. {"ops", "requests"} \subseteq DOMAIN left' /\ left'.ops \in Seq(Calls)
  <2>1. left' = [left EXCEPT !.ops = Tail(@)]
    BY DEF Call
  <2> QED
    BY <1>1, <1>2, <2>1
<1>4. DOMAIN o = {"name", "arg"} /\ Decoded(o)
  BY <1>2, CallsAssumption
<1> HIDE DEF o
<1>5. Decoded(op) /\ op.name = o.name
  <2>1. CASE o.name # "dns_config"
    BY <1>4, <2>1
  <2>2. CASE o.name = "dns_config"
    <3> DEFINE x == checkServiceType(conf, o.arg)
    <3>1. op.name = o.name /\ op.arg = x
      BY <1>4, <2>2
    <3>2. DOMAIN x \subseteq DOMAIN o.arg /\ \A f \in DOMAIN x : x[f] = o.arg[f]
      BY DEF checkServiceType
    <3> HIDE DEF x, op
    <3>3. "blocking" \in DOMAIN x => x.blocking = o.arg.blocking
      BY <3>2
    <3>4. "blocking" \in DOMAIN x => DOMAIN x.blocking = {"mode", "v4", "v6"}
      BY <1>4, <2>2, <3>2, <3>3 DEF Decoded
    <3>5. DOMAIN x \subseteq jsonDNSConfig /\ \A f \in Lists \cap DOMAIN x : x[f] \in Seq(DOMAIN Line)
      BY <1>4, <2>2, <3>2 DEF Decoded
    <3> QED
      BY <2>2, <3>1, <3>4, <3>5 DEF Decoded
  <2> QED
    BY <2>1, <2>2
<1>6. adm' = IF ~Accepted(op) THEN Idle ELSE a
  BY DEF Call, o
<1> HIDE DEF op
<1>7. Accepted(op) => Passed(op)
  <2>1. op.name = "dns_config" /\ Accepted(op) => Valid(op.arg)
    <3> SUFFICES ASSUME op.name = "dns_config", Accepted(op)
                 PROVE  Valid(op.arg)
      OBVIOUS
    <3>1. validate(conf, op.arg)
      BY DEF Accepted
    <3>2. \A f \in Lists \cap DOMAIN op.arg : op.arg[f] \in Seq(Lines)
      BY <1>5 DEF Decoded, Lines
    <3> QED
      BY <3>1, <3>2, ValidateFacts
  <2>2. op.name = "access" /\ Accepted(op) => ~newAccessCtx(op.arg).err
    BY DEF Accepted
  <2> QED
    BY <2>1, <2>2 DEF Passed
<1>8. Accepted(op) => CallInv(a)
  BY <1>5, <1>7 DEF CallInv
<1> HIDE DEF a
<1> QED
  BY <1>3, <1>6, <1>8 DEF AdmInv

LEMMA AdmStep ==
    ASSUME AdmInv, [Next]_vars
    PROVE  AdmInv'
<1>1. ASSUME adm' = adm, left'.ops = left.ops, {"ops", "requests"} \subseteq DOMAIN left'
      PROVE  AdmInv'
  BY <1>1 DEF AdmInv, CallInv, Idle
<1>2. ASSUME NEW w \in Workers, HandleBefore(w)
      PROVE  AdmInv'
  <2>1. adm' = adm /\ left' = [left EXCEPT !.requests = @ - 1]
    BY <1>2 DEF HandleBefore
  <2>2. left'.ops = left.ops /\ {"ops", "requests"} \subseteq DOMAIN left'
    BY <2>1 DEF AdmInv
  <2> QED
    BY <1>1, <2>1, <2>2
<1>3. ASSUME adm' = adm, left' = left
      PROVE  AdmInv'
  BY <1>1, <1>3 DEF AdmInv
<1>4. ASSUME NEW w \in Workers, Serve(w)
      PROVE  adm' = adm /\ left' = left
  BY <1>4 DEF Serve, handleDNSRequest, CheckClient, CheckAccessHost, processInitial,
         UpdatedProtectionStatus, ProcessLocal, processFilteringBeforeRequest, Check, CheckAnswered,
         CheckFailed, checkSafeSearch, setCacheResult, filterDNSRequest, LookupPage,
         processUpstream, Resolved, processFilteringAfterResponse, processQueryLogsAndStats,
         OnlyWork
<1>5. ASSUME Job \/ Tick
      PROVE  adm' = adm /\ left' = left
  BY <1>5 DEF Job, JobWait, JobAcquire, enableProtectionAfterPause, JobSave, Tick
<1>6. ASSUME Admin
      PROVE  AdmInv'
  <2> DEFINE after == {"save", "relock", "reconfigure", "ss_conf", "change"}
  <2>1. ASSUME NEW pc \in {"save", "relock", "reconfigure", "ss_conf", "change"}, NEW x,
               \/ adm' = [adm EXCEPT !.pc = pc]
               \/ adm' = [adm EXCEPT !.pc = pc, !.restart = x],
               adm.pc # "idle", pc = "ss_conf" => adm.op.name = "ss_settings",
               pc = "change" => adm.pc = "lock", left' = left
        PROVE  AdmInv'
    <3>1. CallInv(adm)
      BY <2>1, Calling
    <3>2. {"op", "pc", "restart"} \subseteq DOMAIN adm' /\ adm'.pc = pc /\ adm'.op = adm.op
      BY <2>1, <3>1 DEF CallInv
    <3>3. CallInv(adm')
      BY <2>1, <3>1, <3>2 DEF CallInv
    <3> QED
      BY <2>1, <3>3 DEF AdmInv
  <2>2. ASSUME adm' = Idle, left' = left
        PROVE  AdmInv'
    BY <2>2 DEF AdmInv
  <2>3. AdmWait => adm' = adm /\ left' = left
    BY DEF AdmWait
  <2>4. AdmAcquire => AdmInv'
    BY <2>1 DEF AdmAcquire, AdmTo
  <2>5. handleSetConfig => AdmInv'
    BY <2>1 DEF handleSetConfig
  <2>6. handleSetProtection \/ handleAccessSet => AdmInv'
    BY <2>1 DEF handleSetProtection, handleAccessSet, AdmTo
  <2>7. Close => AdmInv'
    <3> SUFFICES ASSUME Close
                 PROVE  AdmInv'
      OBVIOUS
    <3>1. adm' = Idle /\ left' = [left EXCEPT !.ops = <<>>]
      BY DEF Close
    <3>2. left'.ops = <<>> /\ DOMAIN left' = DOMAIN left
      BY <3>1 DEF AdmInv
    <3> QED
      BY <3>1, <3>2 DEF AdmInv
  <2>8. WriteDiskConfig => AdmInv'
    BY <2>1, <2>2 DEF WriteDiskConfig, OnlyAdm
  <2>9. Reconfigure \/ Reported => AdmInv'
    BY <2>2 DEF Reconfigure, Reported, OnlyAdm
  <2>10. handleTestUpstreamDNS => AdmInv'
    <3> SUFFICES ASSUME handleTestUpstreamDNS
                 PROVE  AdmInv'
      OBVIOUS
    <3>1. PICK x \in SUBSET {Line[l].addr : l \in Range(adm.op.arg.upstream_dns)} :
            adm' = [op |-> adm.op, pc |-> "tested", restart |-> FALSE,
                    report |-> status(adm.op.arg, x, x)]
      BY DEF handleTestUpstreamDNS, Op
    <3>2. adm.op.name = "test_upstream" /\ adm.pc # "idle" /\ left' = left
      BY DEF handleTestUpstreamDNS, Op, OnlyAdm
    <3>3. CallInv(adm)
      BY <3>2, Calling
    <3>4. CallInv(adm')
      BY <3>1, <3>2, <3>3 DEF CallInv
    <3> QED
      BY <3>2, <3>4 DEF AdmInv
  <2>11. ChangeRewrites \/ setProtectedBool \/ handleSafeSearchEnable
         \/ handleSafeSearchSettings => AdmInv'
    BY <2>1 DEF ChangeRewrites, setProtectedBool, handleSafeSearchEnable,
                handleSafeSearchSettings, AdmTo
  <2>12. UpdateSafeSearch => AdmInv'
    BY <2>1 DEF UpdateSafeSearch, AdmTo, Op
  <2> QED
    BY <1>3, <1>6, <2>3, <2>4, <2>5, <2>6, <2>7, <2>8, <2>9, <2>10, <2>11, <2>12 DEF Admin
<1>7. ASSUME UNCHANGED vars
      PROVE  AdmInv'
  BY <1>3, <1>7 DEF vars
<1> QED
  BY <1>2, <1>3, <1>4, <1>5, <1>6, <1>7, CallStep DEF Next

LEMMA AdmInvariance ==
    Spec => []AdmInv
<1>1. Init => AdmInv
  BY CallsAssumption DEF Init, AdmInv
<1> QED
  BY <1>1, AdmStep, PTL DEF Spec
-----------------------------------------------------------------------------
(* What the requests leave alone, and the shape of the rest *)

LEMMA ServeLeaves ==
    ASSUME NEW w \in Workers, HandleBefore(w) \/ Serve(w)
    PROVE  /\ UNCHANGED <<conf, filter, srv, adm, now, want>>
           /\ setCacheResult(w) \/ ss' = ss
           /\ UpdatedProtectionStatus(w) \/ job' = job
           /\ UpdatedProtectionStatus(w) \/ setCacheResult(w) \/ excused' = excused
<1>1. ASSUME OnlyWork
      PROVE  UNCHANGED <<conf, filter, srv, ss, adm, job, now, want, excused>>
  BY <1>1 DEF OnlyWork, state, ghosts
<1>2. ASSUME UNCHANGED <<state, adm, job, now, ghosts>>
      PROVE  UNCHANGED <<conf, filter, srv, ss, adm, job, now, want, excused>>
  BY <1>2 DEF state, ghosts
<1>3. CASE UpdatedProtectionStatus(w)
  BY <1>3 DEF UpdatedProtectionStatus, state
<1>4. CASE setCacheResult(w)
  BY <1>4 DEF setCacheResult
<1>5. CASE \E kind \in {"sb", "pc"} : CheckAnswered(w, kind)
  BY <1>5 DEF CheckAnswered, ghosts
<1>6. CASE HandleBefore(w) \/ processFilteringBeforeRequest(w) \/ filterDNSRequest(w)
           \/ LookupPage(w) \/ \E kind \in {"sb", "pc"} : CheckFailed(w, kind)
  BY <1>2, <1>6 DEF HandleBefore, processFilteringBeforeRequest, filterDNSRequest, LookupPage,
                    CheckFailed
<1>7. CASE CheckClient(w) \/ CheckAccessHost(w) \/ processInitial(w) \/ ProcessLocal(w)
           \/ checkSafeSearch(w) \/ processUpstream(w) \/ Resolved(w)
           \/ processFilteringAfterResponse(w) \/ processQueryLogsAndStats(w)
           \/ \E kind \in {"sb", "pc"} : Check(w, kind)
  BY <1>1, <1>7 DEF CheckClient, CheckAccessHost, processInitial, ProcessLocal, checkSafeSearch,
                    processUpstream, Resolved, processFilteringAfterResponse,
                    processQueryLogsAndStats, Check
<1> QED
  BY <1>3, <1>4, <1>5, <1>6, <1>7 DEF Serve, handleDNSRequest

(* The calls that leave the filter and safe search as they are.            *)
QuietCall ==
    \/ Call \/ AdmWait \/ AdmAcquire \/ handleAccessSet \/ Close \/ WriteDiskConfig
    \/ Reconfigure \/ handleTestUpstreamDNS \/ Reported

LEMMA QuietLeaves ==
    ASSUME QuietCall \/ JobWait \/ JobAcquire \/ JobSave
    PROVE  UNCHANGED <<filter, ss, now, want, excused>>
<1>1. ASSUME OnlyAdm \/ UNCHANGED <<state, now, ghosts>>
      PROVE  UNCHANGED <<filter, ss, now, want, excused>>
  BY <1>1 DEF OnlyAdm, state, ghosts
<1>2. CASE Call \/ AdmWait \/ AdmAcquire \/ WriteDiskConfig \/ handleTestUpstreamDNS \/ Reported
  BY <1>1, <1>2 DEF Call, AdmWait, AdmAcquire, WriteDiskConfig, handleTestUpstreamDNS, Reported
<1>3. CASE handleAccessSet \/ Close \/ Reconfigure
  BY <1>3 DEF handleAccessSet, Close, Reconfigure, ghosts
<1>4. CASE JobWait \/ JobAcquire \/ JobSave
  BY <1>1, <1>4 DEF JobWait, JobAcquire, JobSave
<1> QED
  BY <1>2, <1>3, <1>4 DEF QuietCall

(* The filter has the fields it starts with, and a blocking mode that can  *)
(* be set.                                                                 *)
FilterFields == {"protection", "until", "filtering", "blocking", "sb", "pc", "ss", "rewrites"}
BlockingInv(f) ==
    DOMAIN f.blocking = {"mode", "v4", "v6"} /\ validateBlockingMode(f.blocking)
FilterInv ==
    /\ DOMAIN filter = FilterFields /\ DOMAIN filter.ss = {"enabled", "services"}
    /\ filter.until \in Int \cup {None} /\ now \in Nat
    /\ BlockingInv(filter)

LEMMA BlockingSet ==
    ASSUME NEW f, DOMAIN f = FilterFields, BlockingInv(f), NEW req,
           "blocking" \in DOMAIN req =>
              DOMAIN req.blocking = {"mode", "v4", "v6"} /\ validateBlockingMode(req.blocking)
    PROVE  /\ DOMAIN SetBlockingMode(f, req) = FilterFields
           /\ BlockingInv(SetBlockingMode(f, req))
           /\ \A x \in FilterFields \ {"blocking"} : SetBlockingMode(f, req)[x] = f[x]
<1> DEFINE b == IF req.blocking.mode = "custom_ip" THEN req.blocking
                ELSE [f.blocking EXCEPT !.mode = req.blocking.mode]
           g == [f EXCEPT !.blocking = b]
<1>1. CASE "blocking" \notin DOMAIN req
  BY <1>1 DEF SetBlockingMode
<1>2. CASE "blocking" \in DOMAIN req
  <2>1. DOMAIN b = {"mode", "v4", "v6"} /\ validateBlockingMode(b)
    <3>1. CASE req.blocking.mode = "custom_ip"
      BY <1>2, <3>1
    <3>2. CASE req.blocking.mode # "custom_ip"
      <4>1. req.blocking.mode \in {"default", "nxdomain", "refused", "null_ip"}
        BY <1>2, <3>2 DEF validateBlockingMode
      <4>2. DOMAIN b = {"mode", "v4", "v6"} /\ b.mode = req.blocking.mode
        BY <3>2 DEF BlockingInv
      <4> HIDE DEF b
      <4> QED
        BY <4>1, <4>2 DEF validateBlockingMode
    <3> QED
      BY <3>1, <3>2
  <2>2. SetBlockingMode(f, req) = g
    BY <1>2 DEF SetBlockingMode
  <2> HIDE DEF b
  <2>3. DOMAIN g = FilterFields /\ g.blocking = b /\ \A x \in FilterFields \ {"blocking"} : g[x] = f[x]
    BY DEF FilterFields
  <2> HIDE DEF g
  <2> QED
    BY <2>1, <2>2, <2>3 DEF BlockingInv
<1> QED
  BY <1>1, <1>2

LEMMA FilterSet ==
    ASSUME FilterInv, AdmInv, handleSetConfig
    PROVE  /\ DOMAIN filter' = FilterFields /\ BlockingInv(filter')
           /\ \A x \in FilterFields \ {"blocking", "protection"} : filter'[x] = filter[x]
           /\ filter'.protection = Asked(Op.arg, "protection_enabled", filter.protection)
<1> DEFINE f == SetBlockingMode(filter, Op.arg)
           p == Asked(Op.arg, "protection_enabled", f.protection)
<1>1. /\ "blocking" \in DOMAIN Op.arg =>
            DOMAIN Op.arg.blocking = {"mode", "v4", "v6"} /\ validateBlockingMode(Op.arg.blocking)
  <2>1. CallInv(adm) /\ adm.pc = "change" /\ adm.op.name = "dns_config"
    BY Calling DEF handleSetConfig, Op
  <2> QED
    BY <2>1 DEF CallInv, Passed, Valid, Decoded, Op
<1>2. /\ DOMAIN f = FilterFields /\ BlockingInv(f)
      /\ \A x \in FilterFields \ {"blocking"} : f[x] = filter[x]
  <2> DEFINE req == Op.arg
  <2> HIDE DEF req
  <2> QED
    BY <1>1, BlockingSet DEF FilterInv, req
<1> HIDE DEF f
<1>3. filter' = [f EXCEPT !.protection = p]
  BY DEF handleSetConfig, SetProtectionEnabled, f
<1>4. p = Asked(Op.arg, "protection_enabled", filter.protection)
  BY <1>2 DEF FilterFields
<1> HIDE DEF p
<1>5. /\ DOMAIN filter' = FilterFields /\ filter'.protection = p
      /\ \A x \in FilterFields \ {"protection"} : filter'[x] = f[x]
  BY <1>2, <1>3 DEF FilterFields
<1>6. filter'.blocking = f.blocking
  BY <1>5 DEF FilterFields
<1> QED
  BY <1>2, <1>4, <1>5, <1>6 DEF BlockingInv

LEMMA FilterStep ==
    ASSUME FilterInv, AdmInv, [Next]_vars
    PROVE  FilterInv'
<1>1. ASSUME filter' = filter, now' \in Nat
      PROVE  FilterInv'
  BY <1>1 DEF FilterInv, BlockingInv
<1>2. ASSUME NEW w \in Workers, HandleBefore(w) \/ Serve(w)
      PROVE  FilterInv'
  BY <1>1, <1>2, ServeLeaves DEF FilterInv
<1>3. ASSUME QuietCall \/ JobWait \/ JobAcquire \/ JobSave \/ UNCHANGED vars
      PROVE  FilterInv'
  BY <1>1, <1>3, QuietLeaves DEF FilterInv, vars
<1>4. ASSUME handleSetConfig
      PROVE  FilterInv'
  <2>1. filter'.until = filter.until /\ filter'.ss = filter.ss
    BY <1>4, FilterSet DEF FilterFields
  <2>2. now' = now
    BY <1>4 DEF handleSetConfig
  <2> QED
    BY <1>4, <2>1, <2>2, FilterSet DEF FilterInv
<1>5. ASSUME handleSetProtection
      PROVE  FilterInv'
  <2>1. adm.op.arg.duration \in Nat
    <3>1. CallInv(adm) /\ adm.op.name = "protection"
      BY <1>5, Calling DEF handleSetProtection, Op
    <3> QED
      BY <3>1 DEF CallInv, Decoded
  <2> DEFINE until == IF Op.arg.duration = 0 THEN None ELSE now + Op.arg.duration
  <2>2. filter' = [filter EXCEPT !.protection = Op.arg.enabled, !.until = until] /\ now' = now
    BY <1>5 DEF handleSetProtection
  <2>3. until \in Int \cup {None}
    BY <2>1 DEF Op, FilterInv
  <2> HIDE DEF until
  <2> QED
    BY <2>2, <2>3 DEF FilterInv, BlockingInv, FilterFields
<1>6. ASSUME ChangeRewrites
      PROVE  FilterInv'
  <2> DEFINE rws == handleRewrite(filter.rewrites, Op.arg)
  <2>1. filter' = [filter EXCEPT !.rewrites = rws] /\ now' = now
    BY <1>6 DEF ChangeRewrites
  <2> HIDE DEF rws
  <2> QED
    BY <2>1 DEF FilterInv, BlockingInv, FilterFields
<1>7. ASSUME setProtectedBool
      PROVE  FilterInv'
  BY <1>7 DEF setProtectedBool, FilterInv, BlockingInv, FilterFields
<1>8. ASSUME handleSafeSearchEnable
      PROVE  FilterInv'
  <2>1. filter' = [filter EXCEPT !.ss.enabled = Op.arg] /\ now' = now
    BY <1>8 DEF handleSafeSearchEnable
  <2>2. filter'.ss = [filter.ss EXCEPT !.enabled = Op.arg]
    BY <2>1 DEF FilterInv, FilterFields
  <2> QED
    BY <2>1, <2>2 DEF FilterInv, BlockingInv, FilterFields
<1>9. ASSUME UpdateSafeSearch \/ Tick
      PROVE  FilterInv'
  BY <1>1, <1>9 DEF UpdateSafeSearch, Tick, state, FilterInv
<1>10. ASSUME handleSafeSearchSettings
       PROVE  FilterInv'
  <2>1. DOMAIN adm.op.arg = {"enabled", "services"}
    <3>1. CallInv(adm) /\ adm.pc = "ss_conf"
      BY <1>10, Calling DEF handleSafeSearchSettings
    <3> QED
      BY <3>1 DEF CallInv, Decoded
  <2>2. filter' = [filter EXCEPT !.ss = adm.op.arg] /\ now' = now
    BY <1>10 DEF handleSafeSearchSettings, Op
  <2> QED
    BY <2>1, <2>2 DEF FilterInv, BlockingInv, FilterFields
<1>11. ASSUME enableProtectionAfterPause
       PROVE  FilterInv'
  <2>1. filter' = [filter EXCEPT !.protection = TRUE, !.until = None] /\ now' = now
    BY <1>11 DEF enableProtectionAfterPause
  <2> QED
    BY <2>1 DEF FilterInv, BlockingInv, FilterFields
<1> QED
  BY <1>2, <1>3, <1>4, <1>5, <1>6, <1>7, <1>8, <1>9, <1>10, <1>11
     DEF Next, Admin, Job, QuietCall

LEMMA FilterInit ==
    Init => FilterInv
<1> SUFFICES ASSUME Init
             PROVE  FilterInv
  OBVIOUS
<1> DEFINE p == Prepare(InitConf, InitFilter.blocking, Defaults)
<1>1. filter = InitFilter /\ now = 0
  BY DEF Init
<1>2. validateBlockingMode(InitFilter.blocking)
  BY InitialAssumption DEF Prepare
<1> QED
  BY <1>1, <1>2, FilterAssumption DEF FilterInv, BlockingInv, FilterFields
-----------------------------------------------------------------------------
(* Safe search *)

(* A result of an engine for a key.                                        *)
Fits(engine, key, res) ==
    LET rewrite == searchHost(engine, key[2])
    IN  rewrite # None /\ res = newResult(rewrite, key[1])

(* The engine is that of the configuration, which is changed a step after  *)
(* it; the results are those of the engine.                                *)
EngineInv ==
    /\ (filter.ss.enabled /\ adm.pc # "ss_conf" /\ "enabled" \notin excused)
          => ss.engine = Built(filter.ss)
    /\ (adm.pc = "ss_conf" /\ adm.op.arg.enabled) => ss.engine = Built(adm.op.arg)
ResultsInv ==
    /\ DOMAIN ss = {"engine", "cache"}
    /\ "overtaken" \in excused
       \/ \A key \in DOMAIN ss.cache : Fits(ss.engine, key, ss.cache[key].res)
SafeInv == EngineInv /\ ResultsInv

(* A step that leaves safe search and its configuration alone.             *)
LEMMA SafeStays ==
    ASSUME SafeInv, ss' = ss, filter'.ss = filter.ss,
           excused \cap {"enabled", "overtaken"} \subseteq excused',
           adm' = adm \/ (adm.pc # "ss_conf" /\ adm'.pc # "ss_conf")
    PROVE  SafeInv'
BY DEF SafeInv, EngineInv, ResultsInv, Fits, Built

LEMMA StoresResult ==
    ASSUME SafeInv, NEW w \in Workers, setCacheResult(w)
    PROVE  SafeInv'
<1> DEFINE r == work[w]
           at == <<r.q.type, ToLower(r.q.name)>>
           rewrite == searchHost(ss.engine, at[2])
           item == [res |-> r.res, expiry |-> now + CacheTime]
           cache == [k \in DOMAIN ss.cache \cup {at} |-> IF k = at THEN item ELSE ss.cache[k]]
<1>1. ss' = [ss EXCEPT !.cache = cache]
  BY DEF setCacheResult
<1>2. excused' = IF rewrite = None \/ newResult(rewrite, r.q.type) # r.res
                 THEN excused \cup {"overtaken"} ELSE excused
  BY DEF setCacheResult
<1>3. adm' = adm /\ filter' = filter
  BY DEF setCacheResult
<1>4. at[1] = r.q.type
  OBVIOUS
<1>5. "overtaken" \notin excused' => Fits(ss.engine, at, item.res)
  BY <1>2, <1>4 DEF Fits
<1>6. item.res = r.res
  OBVIOUS
<1> HIDE DEF at, item, rewrite
<1>7. /\ DOMAIN cache = DOMAIN ss.cache \cup {at} /\ cache[at] = item
      /\ \A k \in DOMAIN ss.cache : k # at => cache[k] = ss.cache[k]
  OBVIOUS
<1> HIDE DEF cache
<1>8. ss'.engine = ss.engine /\ ss'.cache = cache /\ DOMAIN ss' = {"engine", "cache"}
  BY <1>1 DEF SafeInv, ResultsInv
<1>9. excused \subseteq excused' /\ ("enabled" \in excused' => "enabled" \in excused)
  BY <1>2
<1>10. EngineInv'
  BY <1>3, <1>8, <1>9 DEF SafeInv, EngineInv, Built
<1>11. "overtaken" \notin excused' => \A k \in DOMAIN cache : Fits(ss.engine, k, cache[k].res)
  <2> SUFFICES ASSUME "overtaken" \notin excused', NEW k \in DOMAIN cache
               PROVE  Fits(ss.engine, k, cache[k].res)
    OBVIOUS
  <2>1. CASE k = at
    BY <1>5, <1>7, <2>1
  <2>2. CASE k # at
    <3>1. k \in DOMAIN ss.cache /\ cache[k] = ss.cache[k]
      BY <1>7, <2>2
    <3> QED
      BY <1>9, <3>1 DEF SafeInv, ResultsInv
  <2> QED
    BY <2>1, <2>2
<1>12. ResultsInv'
  BY <1>8, <1>11 DEF ResultsInv
<1> QED
  BY <1>10, <1>12 DEF SafeInv

LEMMA Updates ==
    ASSUME SafeInv, FilterInv, AdmInv, UpdateSafeSearch
    PROVE  SafeInv'
<1>1. CallInv(adm) /\ adm.pc = "apply" /\ adm.op.name = "ss_settings"
  BY Calling DEF UpdateSafeSearch, Op
<1>2. adm' = [adm EXCEPT !.pc = "ss_conf"] /\ filter' = filter
  BY DEF UpdateSafeSearch, AdmTo
<1>3. adm'.pc = "ss_conf" /\ adm'.op = adm.op
  BY <1>1, <1>2 DEF CallInv
<1>4. ss' = [engine |-> resetEngine(ss.engine, Op.arg, SafeServices), cache |-> <<>>]
  BY DEF UpdateSafeSearch
<1>5. adm.op.arg.enabled => ss'.engine = Built(adm.op.arg)
  BY <1>4 DEF resetEngine, Built, Op
<1>6. ss'.cache = <<>> /\ DOMAIN ss' = {"engine", "cache"}
  BY <1>4
<1> QED
  BY <1>3, <1>5, <1>6 DEF SafeInv, EngineInv, ResultsInv, Built

LEMMA Configures ==
    ASSUME SafeInv, FilterInv, AdmInv, handleSafeSearchSettings
    PROVE  SafeInv'
<1>1. CallInv(adm) /\ adm.pc = "ss_conf"
  BY Calling DEF handleSafeSearchSettings
<1>2. adm'.pc = "save" /\ ss' = ss /\ excused' = excused
  BY <1>1 DEF handleSafeSearchSettings, AdmTo, CallInv, ghosts
<1>3. filter'.ss = adm.op.arg
  BY DEF handleSafeSearchSettings, Op, FilterInv, FilterFields
<1> QED
  BY <1>1, <1>2, <1>3 DEF SafeInv, EngineInv, ResultsInv, Fits, Built

LEMMA Enables ==
    ASSUME SafeInv, FilterInv, AdmInv, handleSafeSearchEnable
    PROVE  SafeInv'
<1>1. CallInv(adm) /\ adm.pc = "apply"
  BY Calling DEF handleSafeSearchEnable
<1>2. adm'.pc = "save" /\ ss' = ss
  BY <1>1 DEF handleSafeSearchEnable, AdmTo, CallInv
<1>3. filter' = [filter EXCEPT !.ss.enabled = Op.arg]
  BY DEF handleSafeSearchEnable
<1>4. filter'.ss = [filter.ss EXCEPT !.enabled = Op.arg]
  BY <1>3 DEF FilterInv, FilterFields
<1>5. filter'.ss.enabled = Op.arg
  BY <1>4 DEF FilterInv
<1>6. /\ excused \subseteq excused' /\ ("overtaken" \in excused' => "overtaken" \in excused)
      /\ (Op.arg /\ ss.engine # Built(filter'.ss)) => "enabled" \in excused'
  BY DEF handleSafeSearchEnable
<1>7. EngineInv'
  BY <1>2, <1>5, <1>6 DEF EngineInv, Built
<1>8. ResultsInv'
  BY <1>2, <1>6 DEF SafeInv, ResultsInv, Fits
<1> QED
  BY <1>7, <1>8 DEF SafeInv
(* A call that is not about safe search does not come from ss_conf, and    *)
(* does not get there.                                                     *)
LEMMA CallsApart ==
    ASSUME AdmInv,
           QuietCall \/ handleSetConfig \/ handleSetProtection \/ ChangeRewrites \/ setProtectedBool
    PROVE  adm' = adm \/ (adm.pc # "ss_conf" /\ adm'.pc # "ss_conf")
<1>1. ASSUME NEW pc \in {"change", "reconfigure", "save", "relock"}, NEW x, adm.pc # "idle",
             adm' = [adm EXCEPT !.pc = pc] \/ adm' = [adm EXCEPT !.pc = pc, !.restart = x]
      PROVE  adm'.pc # "ss_conf"
  BY <1>1, Calling DEF CallInv
<1>2. adm' = Idle => adm'.pc # "ss_conf"
  BY DEF Idle
<1>3. CASE Call
  BY <1>3, <1>2 DEF Call
<1>4. CASE AdmWait \/ AdmAcquire
  BY <1>1, <1>4 DEF AdmWait, AdmAcquire, AdmTo
<1>5. CASE handleSetConfig \/ handleSetProtection \/ handleAccessSet \/ Close \/ WriteDiskConfig
  BY <1>1, <1>2, <1>5 DEF handleSetConfig, handleSetProtection, handleAccessSet, Close,
                          WriteDiskConfig, AdmTo
<1>6. CASE Reconfigure \/ handleTestUpstreamDNS \/ Reported
  BY <1>2, <1>6 DEF Reconfigure, handleTestUpstreamDNS, Reported
<1>7. CASE ChangeRewrites \/ setProtectedBool
  BY <1>1, <1>7 DEF ChangeRewrites, setProtectedBool, AdmTo
<1> QED
  BY <1>3, <1>4, <1>5, <1>6, <1>7 DEF QuietCall

LEMMA SafeStep ==
    ASSUME SafeInv, FilterInv, AdmInv, [Next]_vars
    PROVE  SafeInv'
<1>1. ASSUME NEW w \in Workers, HandleBefore(w) \/ Serve(w)
      PROVE  SafeInv'
  <2>1. UpdatedProtectionStatus(w) => excused' \in {excused, excused \ {"changed"}} /\ ss' = ss
    BY DEF UpdatedProtectionStatus, state
  <2>2. ~setCacheResult(w) => ss' = ss /\ excused \cap {"enabled", "overtaken"} \subseteq excused'
    BY <1>1, <2>1, ServeLeaves
  <2> QED
    BY <1>1, <2>2, ServeLeaves, StoresResult, SafeStays
<1>2. ASSUME QuietCall
      PROVE  SafeInv'
  BY <1>2, CallsApart, QuietLeaves, SafeStays
<1>3. ASSUME handleSetConfig
      PROVE  SafeInv'
  <2>1. ss' = ss /\ excused \subseteq excused'
    BY <1>3 DEF handleSetConfig
  <2>2. filter'.ss = filter.ss
    BY <1>3, FilterSet DEF FilterFields
  <2> QED
    BY <1>3, <2>1, <2>2, CallsApart, SafeStays
<1>4. ASSUME handleSetProtection
      PROVE  SafeInv'
  <2>1. ss' = ss /\ excused \cap {"enabled", "overtaken"} \subseteq excused'
    BY <1>4 DEF handleSetProtection
  <2> DEFINE until == IF Op.arg.duration = 0 THEN None ELSE now + Op.arg.duration
  <2>2. filter' = [filter EXCEPT !.protection = Op.arg.enabled, !.until = until]
    BY <1>4 DEF handleSetProtection
  <2> HIDE DEF until
  <2>3. filter'.ss = filter.ss
    BY <2>2 DEF FilterInv, FilterFields
  <2> QED
    BY <1>4, <2>1, <2>3, CallsApart, SafeStays
<1>5. ASSUME ChangeRewrites \/ setProtectedBool
      PROVE  SafeInv'
  <2>1. ss' = ss /\ excused' = excused
    BY <1>5 DEF ChangeRewrites, setProtectedBool, ghosts
  <2> DEFINE rws == handleRewrite(filter.rewrites, Op.arg)
  <2>2. ChangeRewrites => filter' = [filter EXCEPT !.rewrites = rws]
    BY DEF ChangeRewrites
  <2> HIDE DEF rws
  <2>3. filter'.ss = filter.ss
    BY <1>5, <2>2 DEF setProtectedBool, FilterInv, FilterFields
  <2> QED
    BY <1>5, <2>1, <2>3, CallsApart, SafeStays
<1>6. ASSUME enableProtectionAfterPause
      PROVE  SafeInv'
  <2>1. ss' = ss /\ excused \subseteq excused' /\ adm' = adm
    BY <1>6 DEF enableProtectionAfterPause
  <2>2. filter'.ss = filter.ss
    BY <1>6 DEF enableProtectionAfterPause, FilterInv, FilterFields
  <2> QED
    BY <2>1, <2>2, SafeStays
<1>7. ASSUME JobWait \/ JobAcquire \/ JobSave \/ Tick \/ UNCHANGED vars
      PROVE  SafeInv'
  <2>1. adm' = adm
    BY <1>7 DEF JobWait, JobAcquire, JobSave, Tick, vars
  <2>2. Tick \/ UNCHANGED vars => UNCHANGED <<filter, ss, excused>>
    BY DEF Tick, state, ghosts, vars
  <2> QED
    BY <1>7, <2>1, <2>2, QuietLeaves, SafeStays
<1> QED
  BY <1>1, <1>2, <1>3, <1>4, <1>5, <1>6, <1>7, Updates, Configures, Enables
     DEF Next, Admin, Job, QuietCall

(* While safe search is on, its engine and every result in its cache are   *)
(* those of the configuration, whichever updates and requests interleave   *)
(* (safesearch.go:339), but for the two known cases of the property.       *)
THEOREM SafeSearchFollows ==
    Spec => []SafeSearchCurrent
<1>1. Init => SafeInv
  BY DEF Init, SafeInv, EngineInv, ResultsInv, Built, Idle
<1>2. ASSUME SafeInv, FilterInv, AdmInv
      PROVE  SafeSearchCurrent
  BY <1>2 DEF SafeInv, EngineInv, ResultsInv, Fits, SafeSearchCurrent
<1> QED
  BY <1>1, <1>2, FilterInit, FilterStep, SafeStep, AdmInvariance, PTL DEF Spec
-----------------------------------------------------------------------------
(* The protection *)

(* The pause that was asked for is over and has been ended.                *)
Ended == filter.until = None /\ filter.protection = TRUE /\ want.until # None /\ now >= want.until

(* The filter does what was asked of it, and the goroutine that ends a     *)
(* pause has an end to find, unless something has been changed since.      *)
ProtInv ==
    /\ want.until \in Int \cup {None}
    /\ \/ "protection" \in excused \/ Ended
       \/ filter.protection = want.enabled /\ filter.until = want.until
    /\ job \in {"spawned", "waiting", "locked"} =>
          excused \cap {"changed", "protection"} # {} \/ Expired

(* A step that leaves the protection alone.                                *)
LEMMA ProtStays ==
    ASSUME FilterInv, ProtInv, UNCHANGED want, now' \in {now, now + 1},
           filter'.protection = filter.protection, filter'.until = filter.until,
           excused \cap {"changed", "protection"} \subseteq excused',
           job' \in {"spawned", "waiting", "locked"} => job \in {"spawned", "waiting", "locked"}
    PROVE  ProtInv'
<1>1. Ended => Ended'
  BY DEF Ended, FilterInv, ProtInv
<1>2. Expired => Expired'
  BY DEF Expired, FilterInv
<1> QED
  BY <1>1, <1>2 DEF ProtInv

LEMMA StatusRead ==
    ASSUME FilterInv, ProtInv, NEW w \in Workers, UpdatedProtectionStatus(w)
    PROVE  ProtInv'
<1>1. UNCHANGED <<filter, now, want>>
  BY DEF UpdatedProtectionStatus, state
<1>2. /\ job' = IF Expired /\ job = "none" THEN "spawned" ELSE job
      /\ excused' = IF Expired /\ job = "none" THEN excused \ {"changed"} ELSE excused
  BY DEF UpdatedProtectionStatus
<1>3. Expired' = Expired /\ Ended' = Ended
  BY <1>1 DEF Expired, Ended
<1> QED
  BY <1>1, <1>2, <1>3 DEF ProtInv

LEMMA ProtectionSet ==
    ASSUME FilterInv, AdmInv, ProtInv, handleSetConfig \/ handleSetProtection
    PROVE  ProtInv'
<1>1. ASSUME handleSetConfig
      PROVE  ProtInv'
  <2> DEFINE prot == "protection_enabled" \in DOMAIN Op.arg
  <2>1. /\ filter'.until = filter.until
        /\ filter'.protection = IF prot THEN Op.arg.protection_enabled ELSE filter.protection
    BY <1>1, FilterSet DEF FilterFields, Asked
  <2>2. /\ want' = IF prot THEN [enabled |-> Op.arg.protection_enabled, until |-> None] ELSE want
        /\ excused' = excused \cup (IF prot THEN {"changed"} ELSE {})
                              \cup (IF prot /\ filter.until # None THEN {"protection"} ELSE {})
        /\ now' = now /\ job' = job
    BY <1>1 DEF handleSetConfig
  <2>3. CASE prot
    <3>1. want'.until = None /\ want'.enabled = filter'.protection /\ "changed" \in excused'
      BY <2>1, <2>2, <2>3
    <3>2. "protection" \in excused' \/ filter'.until = None
      BY <2>1, <2>2, <2>3
    <3> QED
      BY <3>1, <3>2 DEF ProtInv
  <2>4. CASE ~prot
    BY <2>1, <2>2, <2>4, ProtStays
  <2> QED
    BY <2>3, <2>4
<1>2. ASSUME handleSetProtection
      PROVE  ProtInv'
  <2> DEFINE until == IF Op.arg.duration = 0 THEN None ELSE now + Op.arg.duration
  <2>1. filter' = [filter EXCEPT !.protection = Op.arg.enabled, !.until = until]
    BY <1>2 DEF handleSetProtection
  <2>2. want' = [enabled |-> Op.arg.enabled, until |-> until]
    BY <1>2 DEF handleSetProtection
  <2>3. "changed" \in excused'
    BY <1>2 DEF handleSetProtection
  <2>4. CallInv(adm) /\ adm.op.name = "protection"
    BY <1>2, Calling DEF handleSetProtection, Op
  <2>5. until \in Int \cup {None}
    BY <2>4 DEF CallInv, Decoded, Op, FilterInv
  <2> HIDE DEF until
  <2>6. filter'.protection = want'.enabled /\ filter'.until = want'.until /\ want'.until = until
    BY <2>1, <2>2 DEF FilterInv, FilterFields
  <2> QED
    BY <2>3, <2>5, <2>6 DEF ProtInv
<1> QED
  BY <1>1, <1>2

LEMMA PauseEnds ==
    ASSUME FilterInv, ProtInv, enableProtectionAfterPause
    PROVE  ProtInv'
<1>1. /\ filter' = [filter EXCEPT !.protection = TRUE, !.until = None] /\ job = "locked"
      /\ job' = "save" /\ UNCHANGED <<now, want>>
      /\ excused' = IF "changed" \in excused THEN excused \cup {"protection"} ELSE excused
  BY DEF enableProtectionAfterPause
<1>2. filter'.protection = TRUE /\ filter'.until = None
  BY <1>1 DEF FilterInv, FilterFields
<1>3. "protection" \in excused' \/ Expired
  BY <1>1 DEF ProtInv
<1>4. "protection" \notin excused' => Ended'
  <2> SUFFICES ASSUME "protection" \notin excused'
               PROVE  Ended'
    OBVIOUS
  <2>1. Expired /\ "protection" \notin excused
    BY <1>1, <1>3
  <2>2. filter.until = want.until
    BY <2>1 DEF ProtInv, Ended, Expired
  <2> QED
    BY <1>1, <1>2, <2>1, <2>2 DEF Ended, Expired
<1> QED
  BY <1>1, <1>2, <1>4 DEF ProtInv

LEMMA ProtStep ==
    ASSUME FilterInv, AdmInv, ProtInv, [Next]_vars
    PROVE  ProtInv'
<1>1. ASSUME NEW w \in Workers, HandleBefore(w) \/ Serve(w)
      PROVE  ProtInv'
  <2>1. setCacheResult(w) => excused \subseteq excused'
    BY DEF setCacheResult
  <2> QED
    BY <1>1, <2>1, ServeLeaves, StatusRead, ProtStays
<1>2. ASSUME QuietCall
      PROVE  ProtInv'
  <2>1. job' = job
    BY <1>2 DEF QuietCall, Call, AdmWait, AdmAcquire, handleAccessSet, Close, WriteDiskConfig,
                Reconfigure, handleTestUpstreamDNS, Reported, OnlyAdm
  <2> QED
    BY <1>2, <2>1, QuietLeaves, ProtStays
<1>3. ASSUME ChangeRewrites \/ setProtectedBool
      PROVE  ProtInv'
  <2>1. UNCHANGED <<now, job, want, excused>>
    BY <1>3 DEF ChangeRewrites, setProtectedBool, ghosts
  <2> DEFINE rws == handleRewrite(filter.rewrites, Op.arg)
  <2>2. ChangeRewrites => filter' = [filter EXCEPT !.rewrites = rws]
    BY DEF ChangeRewrites
  <2> HIDE DEF rws
  <2>3. filter'.protection = filter.protection /\ filter'.until = filter.until
    BY <1>3, <2>2 DEF setProtectedBool, FilterInv, FilterFields
  <2> QED
    BY <2>1, <2>3, ProtStays
<1>4. ASSUME handleSafeSearchEnable \/ UpdateSafeSearch \/ handleSafeSearchSettings
      PROVE  ProtInv'
  <2>1. UNCHANGED <<now, job, want>> /\ excused \cap {"changed", "protection"} \subseteq excused'
    BY <1>4 DEF handleSafeSearchEnable, UpdateSafeSearch, handleSafeSearchSettings, ghosts
  <2>2. filter'.protection = filter.protection /\ filter'.until = filter.until
    BY <1>4 DEF handleSafeSearchEnable, UpdateSafeSearch, handleSafeSearchSettings, FilterInv,
                FilterFields
  <2> QED
    BY <2>1, <2>2, ProtStays
<1>5. ASSUME JobWait \/ JobAcquire \/ JobSave
      PROVE  ProtInv'
  <2>1. job' \in {"spawned", "waiting", "locked"} => job \in {"spawned", "waiting", "locked"}
    BY <1>5 DEF JobWait, JobAcquire, JobSave
  <2> QED
    BY <1>5, <2>1, QuietLeaves, ProtStays
<1>6. ASSUME Tick \/ UNCHANGED vars
      PROVE  ProtInv'
  BY <1>6, ProtStays DEF Tick, vars, state, ghosts
<1> QED
  BY <1>1, <1>2, <1>3, <1>4, <1>5, <1>6, ProtectionSet, PauseEnds
     DEF Next, Admin, Job, QuietCall

(* Only the worker that serves a request touches it.                       *)
LEMMA OneRequest ==
    ASSUME WorkInv, NEW v \in Workers, HandleBefore(v) \/ Serve(v), NEW w \in Workers \ {v}
    PROVE  work'[w] = work[w]
<1>1. DOMAIN work = Workers
  BY DEF WorkInv
<1>2. ASSUME NEW pc, To(v, pc)
      PROVE  work'[w] = work[w]
  BY <1>1, <1>2 DEF To
<1>3. ASSUME NEW m, Answer(v, m)
      PROVE  work'[w] = work[w]
  BY <1>1, <1>3 DEF Answer
<1>4. CASE HandleBefore(v)
  BY <1>1, <1>4 DEF HandleBefore
<1>5. CASE CheckClient(v) \/ CheckAccessHost(v) \/ processInitial(v)
  BY <1>2, <1>3, <1>5 DEF CheckClient, CheckAccessHost, processInitial, preBlockedResponse
<1>6. CASE UpdatedProtectionStatus(v)
  BY <1>1, <1>6 DEF UpdatedProtectionStatus
<1>7. CASE ProcessLocal(v)
  BY <1>1, <1>7 DEF ProcessLocal
<1>8. CASE processFilteringBeforeRequest(v)
  BY <1>1, <1>8 DEF processFilteringBeforeRequest
<1>9. CASE \E kind \in {"sb", "pc"} : Check(v, kind) \/ CheckAnswered(v, kind) \/ CheckFailed(v, kind)
  BY <1>1, <1>3, <1>9 DEF Check, CheckAnswered, CheckFailed
<1>10. CASE checkSafeSearch(v) \/ setCacheResult(v)
  BY <1>1, <1>2, <1>10 DEF checkSafeSearch, setCacheResult
<1>11. CASE filterDNSRequest(v) \/ LookupPage(v)
  BY <1>1, <1>11 DEF filterDNSRequest, LookupPage
<1>12. CASE processUpstream(v) \/ Resolved(v)
  BY <1>1, <1>3, <1>12 DEF processUpstream, Resolved
<1>13. CASE processFilteringAfterResponse(v) \/ processQueryLogsAndStats(v)
  BY <1>1, <1>13 DEF processFilteringAfterResponse, processQueryLogsAndStats
<1> QED
  BY <1>4, <1>5, <1>6, <1>7, <1>8, <1>9, <1>10, <1>11, <1>12, <1>13 DEF Serve, handleDNSRequest

(* A request that leaves "status" has read the protection.                 *)
LEMMA StatusLeft ==
    ASSUME NEW w \in Workers, At(w, "status"), HandleBefore(w) \/ Serve(w)
    PROVE  UpdatedProtectionStatus(w)
BY DEF At, HandleBefore, Serve, handleDNSRequest, CheckClient, CheckAccessHost, processInitial,
       ProcessLocal, processFilteringBeforeRequest, Check, CheckAnswered, CheckFailed, Ask,
       checkSafeSearch, setCacheResult, filterDNSRequest, LookupPage, processUpstream, Resolved,
       processFilteringAfterResponse, processQueryLogsAndStats

LEMMA AskedFor ==
    ASSUME ProtInv, FilterInv, "protection" \notin excused
    PROVE  ProtectionNow = Wanted
<1>1. CASE Ended
  <2>1. ProtectionNow = TRUE
    BY <1>1 DEF Ended, ProtectionNow
  <2>2. Wanted = TRUE
    BY <1>1 DEF Ended, Wanted, ProtInv, FilterInv
  <2> QED
    BY <2>1, <2>2
<1>2. CASE filter.protection = want.enabled /\ filter.until = want.until
  <2>1. CASE filter.until = None
    BY <1>2, <2>1 DEF ProtectionNow, Wanted
  <2>2. CASE filter.until # None
    <3>1. ProtectionNow = (now >= filter.until)
      BY <2>2 DEF ProtectionNow, Expired
    <3>2. Wanted = (now >= filter.until)
      BY <1>2, <2>2 DEF Wanted
    <3> QED
      BY <3>1, <3>2
  <2> QED
    BY <2>1, <2>2
<1> QED
  BY <1>1, <1>2 DEF ProtInv

(* A request is filtered exactly when the protection is on by the last     *)
(* change of the administrator, before and after the goroutine has ended a *)
(* pause (config.go:730), but for the known cases of the property.         *)
THEOREM ProtectionKept ==
    Spec => ProtectionAsAsked
<1> DEFINE Read(w) == (At(w, "status") /\ work'[w].pc = "local") =>
                          work'[w].prot = Wanted \/ "protection" \in excused
<1>1. Init => ProtInv
  BY FilterAssumption DEF Init, ProtInv
<1>2. ASSUME RequestsInv, FilterInv, ProtInv, [Next]_vars
      PROVE  [\A w \in Workers : Read(w)]_vars
  <2> SUFFICES ASSUME Next, NEW w \in Workers, At(w, "status"), work'[w].pc = "local"
               PROVE  work'[w].prot = Wanted \/ "protection" \in excused
    BY <1>2
  <2>1. work'[w] # work[w]
    BY DEF At
  <2>2. PICK v \in Workers : HandleBefore(v) \/ Serve(v)
    BY <2>1, OthersWork DEF Next
  <2>3. v = w
    BY <1>2, <2>1, <2>2, OneRequest DEF RequestsInv
  <2>4. UpdatedProtectionStatus(w)
    BY <2>2, <2>3, StatusLeft
  <2>5. ReqInv(work[w]) /\ DOMAIN work = Workers
    BY <1>2, Serving DEF RequestsInv, At
  <2>6. work'[w].prot = ProtectionNow
    <3> DEFINE r == work[w]
               t == [r EXCEPT !.pc = "local", !.prot = ProtectionNow,
                              !.setts = clientRequestFilteringSettings(ProtectionNow)]
    <3>1. work'[w] = t
      BY <2>4, <2>5 DEF UpdatedProtectionStatus
    <3>2. t.prot = ProtectionNow
      BY <2>5 DEF ReqInv, Fields
    <3> QED
      BY <3>1, <3>2
  <2> QED
    BY <1>2, <2>6, AskedFor
<1>3. Spec => []RequestsInv /\ []AdmInv
  BY RequestsInvariance, AdmInvariance
<1>4. Spec => [](RequestsInv /\ FilterInv /\ ProtInv)
  BY <1>1, <1>3, FilterInit, FilterStep, ProtStep, PTL DEF Spec
<1> QED
  BY <1>2, <1>4, PTL DEF Spec, ProtectionAsAsked
-----------------------------------------------------------------------------
(* The configuration *)

(* A configuration that can be prepared, but for what the validation of a  *)
(* request cannot see.                                                     *)
Working(c) ==
    /\ DOMAIN c = ServerConfig /\ \A f \in Lists : c[f] \in Seq(Lines)
    /\ Parsable(c.upstream_dns) /\ Parsable(c.fallback_dns)
    /\ Reachable(c.bootstrap_dns) /\ Private(c.local_ptr_upstreams)
    /\ c.upstream_mode \in Modes /\ ~preparePlain(c).err
    /\ DOMAIN c.access = {"allowed", "disallowed", "hosts"} /\ ~newAccessCtx(c.access).err
Unseen == {"file", "ttl"}

ServerFields == {"running", "cause", "closed", "proxy", "access"}
ServerInv == DOMAIN srv = ServerFields /\ (srv.running \/ srv.closed \/ srv.cause \in Unseen)
ConfInv == Working(conf) /\ ServerInv

(* The defaults that are filled in.                                        *)
LEMMA DefaultFields ==
    ASSUME NEW c, DOMAIN c = ServerConfig, DOMAIN c.access = {"allowed", "disallowed", "hosts"}
    PROVE  LET d == initDefaultSettings(c, Defaults)
           IN  /\ DOMAIN d = ServerConfig
               /\ d.upstream_dns = IF c.upstream_dns = <<>> THEN Defaults.upstreams
                                   ELSE c.upstream_dns
               /\ d.bootstrap_dns = IF c.bootstrap_dns = <<>> THEN Defaults.bootstrap
                                    ELSE c.bootstrap_dns
               /\ \A f \in ServerConfig \ {"upstream_dns", "bootstrap_dns", "access",
                                           "service_type"} : d[f] = c[f]
               /\ DOMAIN d.access = {"allowed", "disallowed", "hosts"}
               /\ d.access.allowed = c.access.allowed
               /\ d.access.disallowed = c.access.disallowed
<1> DEFINE ups == IF c.upstream_dns = <<>> THEN Defaults.upstreams ELSE c.upstream_dns
           boot == IF c.bootstrap_dns = <<>> THEN Defaults.bootstrap ELSE c.bootstrap_dns
           hosts == IF c.access.hosts = <<>> THEN Defaults.hosts ELSE c.access.hosts
           type == IF c.service_type = "" THEN "enterprise" ELSE c.service_type
           access == [c.access EXCEPT !.hosts = hosts]
           d == initDefaultSettings(c, Defaults)
<1>1. /\ DOMAIN c = ServerConfig
      /\ {"upstream_dns", "bootstrap_dns", "access", "service_type"} \subseteq ServerConfig
  BY DEF ServerConfig, Config, TLSConfig
<1>2. d = [c EXCEPT !.upstream_dns = ups, !.bootstrap_dns = boot, !.access = access,
                    !.service_type = type]
  BY <1>1 DEF initDefaultSettings
<1>3. /\ DOMAIN access = {"allowed", "disallowed", "hosts"}
      /\ access.allowed = c.access.allowed /\ access.disallowed = c.access.disallowed
  OBVIOUS
<1> HIDE DEF ups, boot, type, access, d
<1>4. /\ DOMAIN d = ServerConfig /\ d.upstream_dns = ups /\ d.bootstrap_dns = boot
      /\ d.access = access
      /\ \A f \in ServerConfig \ {"upstream_dns", "bootstrap_dns", "access", "service_type"} :
            d[f] = c[f]
  BY <1>1, <1>2
<1> QED
  BY <1>3, <1>4 DEF d, ups, boot

LEMMA SameAccess ==
    ASSUME NEW a, NEW b, a.allowed = b.allowed, a.disallowed = b.disallowed
    PROVE  newAccessCtx(a).err <=> newAccessCtx(b).err
BY DEF newAccessCtx

LEMMA SamePlain ==
    ASSUME NEW c, NEW d, c.serve_plain = d.serve_plain, c.cert = d.cert,
           c.encrypted = d.encrypted
    PROVE  preparePlain(c).err <=> preparePlain(d).err
BY DEF preparePlain, prepareTLS

LEMMA DefaultsWork ==
    ASSUME NEW c, Working(c)
    PROVE  Working(initDefaultSettings(c, Defaults))
<1> DEFINE d == initDefaultSettings(c, Defaults)
<1>1. /\ DOMAIN d = ServerConfig
      /\ d.upstream_dns = IF c.upstream_dns = <<>> THEN Defaults.upstreams ELSE c.upstream_dns
      /\ d.bootstrap_dns = IF c.bootstrap_dns = <<>> THEN Defaults.bootstrap ELSE c.bootstrap_dns
      /\ \A f \in ServerConfig \ {"upstream_dns", "bootstrap_dns", "access", "service_type"} :
            d[f] = c[f]
      /\ DOMAIN d.access = {"allowed", "disallowed", "hosts"}
      /\ d.access.allowed = c.access.allowed /\ d.access.disallowed = c.access.disallowed
  BY DefaultFields DEF Working
<1> HIDE DEF d
<1>2. /\ d.fallback_dns = c.fallback_dns /\ d.local_ptr_upstreams = c.local_ptr_upstreams
      /\ d.upstream_mode = c.upstream_mode /\ d.serve_plain = c.serve_plain
      /\ d.cert = c.cert /\ d.encrypted = c.encrypted
  BY <1>1 DEF ServerConfig, Config, TLSConfig
<1>3. Defaults.upstreams \in Seq(Lines) /\ Defaults.bootstrap \in Seq(Lines)
  BY SettingsAssumption DEF Lines
<1>4. Parsable(Defaults.upstreams)
  <2>1. ~ParseUpstreamsConfig(Defaults.upstreams).err
    BY InitialAssumption
  <2> QED
    BY <1>3, <2>1, ParseError
<1>5. Reachable(Defaults.bootstrap)
  BY InitialAssumption DEF Reachable
<1>6. \A f \in Lists : d[f] \in Seq(Lines)
  BY <1>1, <1>2, <1>3 DEF Working, Lists
<1>7. ~preparePlain(d).err /\ ~newAccessCtx(d.access).err
  BY <1>1, <1>2, SamePlain, SameAccess DEF Working
<1> QED
  BY <1>1, <1>2, <1>4, <1>5, <1>6, <1>7 DEF Working, d

LEMMA UpstreamError ==
    ASSUME NEW lines, NEW default
    PROVE  newUpstreamConfig(lines, default).err = ParseUpstreamsConfig(lines).err
<1> DEFINE uc == ParseUpstreamsConfig(lines)
           ups == IF uc.ups = <<>> THEN ParseUpstreamsConfig(default).ups ELSE uc.ups
<1>1. newUpstreamConfig(lines, default) = [uc EXCEPT !.ups = ups]
  BY DEF newUpstreamConfig
<1>2. DOMAIN uc = {"err", "ups", "reserved"}
  BY DEF ParseUpstreamsConfig
<1> HIDE DEF uc, ups
<1>3. newUpstreamConfig(lines, default).err = uc.err
  BY <1>1, <1>2
<1> QED
  BY <1>3 DEF uc

LEMMA BootstrapError ==
    ASSUME NEW addrs
    PROVE  newBootstrap(addrs, Defaults.bootstrap).err
              <=> ~Reachable(IF addrs = <<>> THEN Defaults.bootstrap ELSE addrs)
BY DEF newBootstrap, Reachable

(* What the server prepares from a configuration whose defaults are set.   *)
LEMMA InternalWorks ==
    ASSUME NEW c, Working(c)
    PROVE  prepareInternalDNS(c, Defaults) \in {"ok", "file"}
<1>1. ~newBootstrap(c.bootstrap_dns, Defaults.bootstrap).err
  <2>1. Reachable(Defaults.bootstrap)
    BY InitialAssumption DEF Reachable
  <2> QED
    BY <2>1, BootstrapError DEF Working
<1>2. ~prepareLocalResolvers(c).err
  BY PrivateError DEF prepareLocalResolvers, Working
<1>3. c.upstream_dns_file = None =>
        ~newUpstreamConfig(FilterOut(loadUpstreams(c)), Defaults.upstreams).err
  <2> SUFFICES ASSUME c.upstream_dns_file = None
               PROVE  ~newUpstreamConfig(FilterOut(loadUpstreams(c)), Defaults.upstreams).err
    OBVIOUS
  <2>1. loadUpstreams(c) = c.upstream_dns
    BY DEF loadUpstreams
  <2>2. c.upstream_dns \in Seq(Lines) /\ Parsable(c.upstream_dns)
    BY DEF Working, Lists
  <2>3. FilterOut(c.upstream_dns) \in Seq(Lines) /\ Parsable(FilterOut(c.upstream_dns))
    BY <2>2, FilterOutFacts
  <2> QED
    BY <2>1, <2>3, UpstreamError, ParseError
<1> DEFINE lines == loadUpstreams(c)
           bad == newUpstreamConfig(FilterOut(lines), Defaults.upstreams).err
<1> HIDE DEF lines, bad
<1>4. prepareInternalDNS(c, Defaults) =
        CASE newBootstrap(c.bootstrap_dns, Defaults.bootstrap).err -> "bootstrap"
          [] lines = None -> "file"
          [] bad -> IF c.upstream_dns_file = None THEN "upstream" ELSE "file"
          [] prepareLocalResolvers(c).err -> "private"
          [] OTHER -> "ok"
  BY DEF prepareInternalDNS, lines, bad
<1> QED
  BY <1>1, <1>2, <1>3, <1>4 DEF lines, bad

(* Every cause but those that the validation cannot see is ruled out.      *)
LEMMA Prepared ==
    ASSUME NEW c, Working(c), NEW blocking, validateBlockingMode(blocking)
    PROVE  /\ Prepare(c, blocking, Defaults).cause \in Unseen \cup {"ok"}
           /\ Prepare(c, blocking, Defaults).conf = initDefaultSettings(c, Defaults)
<1> DEFINE d == initDefaultSettings(c, Defaults)
           internal == prepareInternalDNS(d, Defaults)
           access == newAccessCtx(d.access)
           cause == CASE ~validateBlockingMode(blocking) -> "blocking"
                      [] internal # "ok" -> internal
                      [] setProxyUpstreamMode(d).err -> "mode"
                      [] preparePlain(d).err -> "plain"
                      [] prepareCacheConfig(d).err -> "ttl"
                      [] access.err -> "access"
                      [] setupFallbackDNS(d).err -> "fallback"
                      [] OTHER -> "ok"
           proxy == IF cause = "ok" THEN newProxyConfig(d, Defaults) ELSE None
<1>1. Prepare(c, blocking, Defaults) =
        [conf |-> IF cause = "blocking" THEN c ELSE d, cause |-> cause, access |-> access,
         proxy |-> proxy]
  BY DEF Prepare
<1>2. Working(d)
  BY DefaultsWork
<1> HIDE DEF d
<1>3. internal \in {"ok", "file"}
  BY <1>2, InternalWorks
<1>4. ~setProxyUpstreamMode(d).err
  BY <1>2 DEF setProxyUpstreamMode, Working, Modes
<1>5. ~preparePlain(d).err /\ ~access.err
  BY <1>2 DEF Working
<1>6. ~setupFallbackDNS(d).err
  <2>1. d.fallback_dns \in Seq(Lines) /\ Parsable(d.fallback_dns)
    BY <1>2 DEF Working, Lists
  <2> QED
    BY <2>1, ParseError DEF setupFallbackDNS
<1> HIDE DEF internal, access
<1>7. cause \in {"ok", "file", "ttl"}
  BY <1>3, <1>4, <1>5, <1>6
<1> HIDE DEF cause, proxy
<1> QED
  BY <1>1, <1>7 DEF Unseen, d
(* A request that validate accepts gives a configuration that works.       *)
LEMMA SetWorks ==
    ASSUME NEW c, Working(c), NEW req, Valid(req),
           \A f \in Lists \cap DOMAIN req : req[f] \in Seq(Lines)
    PROVE  Working(setConfig(c, req).conf)
<1> DEFINE direct == setIfNotNil(c, req, {"dnssec_enabled", "disable_ipv6"})
           mode == mustParseUpstreamMode(req.upstream_mode)
           moded == IF "upstream_mode" \in DOMAIN req THEN [direct EXCEPT !.upstream_mode = mode]
                    ELSE direct
           ip == Asked(req, "edns_cs_custom_ip", None)
           custom == IF Asked(req, "edns_cs_use_custom", FALSE)
                     THEN [moded EXCEPT !.edns_cs_custom_ip = ip] ELSE moded
           names == Restartable \cup {"ratelimit", "upstream_timeout"}
           e == setIfNotNil(custom, req, names)
           Core == {"serve_plain", "cert", "encrypted", "access"}
<1>1. setConfig(c, req).conf = e
  BY DEF setConfig, setConfigRestartable
<1>2. /\ DOMAIN c = ServerConfig
      /\ Lists \cup Core \cup {"upstream_mode", "edns_cs_custom_ip"} \subseteq ServerConfig
  BY DEF Working, ServerConfig, Config, TLSConfig, Lists
<1>3. /\ DOMAIN direct = ServerConfig
      /\ \A f \in Lists \cup Core \cup {"upstream_mode"} : direct[f] = c[f]
  BY <1>2 DEF setIfNotNil, Lists
<1> HIDE DEF direct
<1>4. c.upstream_mode \in Modes /\ ("upstream_mode" \in DOMAIN req => mode \in Modes)
  BY DEF Working, Valid, mustParseUpstreamMode, Modes
<1> HIDE DEF mode
<1>5. /\ DOMAIN moded = ServerConfig /\ moded.upstream_mode \in Modes
      /\ \A f \in Lists \cup Core : moded[f] = c[f]
  BY <1>2, <1>3, <1>4 DEF Lists
<1> HIDE DEF moded, ip
<1>6. /\ DOMAIN custom = ServerConfig /\ custom.upstream_mode \in Modes
      /\ \A f \in Lists \cup Core : custom[f] = c[f]
  BY <1>2, <1>5 DEF Lists
<1> HIDE DEF custom
<1>7. /\ DOMAIN e = ServerConfig
      /\ \A f \in ServerConfig : e[f] = IF f \in names \cap DOMAIN req THEN req[f] ELSE custom[f]
  BY <1>6 DEF setIfNotNil
<1>8. (Core \cup {"upstream_mode"}) \cap names = {}
  BY DEF Restartable
<1> HIDE DEF e, names
<1>9. /\ e.upstream_mode \in Modes /\ e.serve_plain = c.serve_plain /\ e.cert = c.cert
      /\ e.encrypted = c.encrypted /\ e.access = c.access
  BY <1>2, <1>6, <1>7, <1>8
<1>10. \A f \in Lists : e[f] = c[f] \/ (f \in DOMAIN req /\ e[f] = req[f])
  BY <1>2, <1>6, <1>7
<1>11. \A f \in Lists : e[f] \in Seq(Lines)
  BY <1>10 DEF Working
<1>12. /\ Parsable(e.upstream_dns) /\ Parsable(e.fallback_dns)
       /\ Reachable(e.bootstrap_dns) /\ Private(e.local_ptr_upstreams)
  BY <1>10 DEF Working, Valid, Lists
<1>13. ~preparePlain(e).err
  BY <1>9, SamePlain DEF Working
<1> QED
  BY <1>1, <1>7, <1>9, <1>11, <1>12, <1>13 DEF Working

LEMMA ConfInit ==
    Init => ConfInv
<1> SUFFICES ASSUME Init
             PROVE  ConfInv
  OBVIOUS
<1> DEFINE c == InitConf
           blocking == InitFilter.blocking
           d == initDefaultSettings(c, Defaults)
           internal == prepareInternalDNS(d, Defaults)
           access == newAccessCtx(d.access)
           cause == CASE ~validateBlockingMode(blocking) -> "blocking"
                      [] internal # "ok" -> internal
                      [] setProxyUpstreamMode(d).err -> "mode"
                      [] preparePlain(d).err -> "plain"
                      [] prepareCacheConfig(d).err -> "ttl"
                      [] access.err -> "access"
                      [] setupFallbackDNS(d).err -> "fallback"
                      [] OTHER -> "ok"
           proxy == IF cause = "ok" THEN newProxyConfig(d, Defaults) ELSE None
           p == Prepare(c, blocking, Defaults)
<1>1. p = [conf |-> IF cause = "blocking" THEN c ELSE d, cause |-> cause, access |-> access,
           proxy |-> proxy]
  BY DEF Prepare
<1>2. cause = "ok"
  <2> HIDE DEF cause, proxy
  <2> QED
    BY <1>1, InitialAssumption
<1>3. conf = d
  <2>1. conf = p.conf
    BY DEF Init
  <2> HIDE DEF cause, proxy, d
  <2> QED
    BY <1>1, <1>2, <2>1
<1>4. /\ internal = "ok" /\ ~setProxyUpstreamMode(d).err /\ ~preparePlain(d).err
      /\ ~access.err /\ ~setupFallbackDNS(d).err
  <2> HIDE DEF internal, access, d
  <2> QED
    BY <1>2
<1>5. /\ DOMAIN c = ServerConfig /\ DOMAIN c.access = {"allowed", "disallowed", "hosts"}
      /\ \A f \in Lists : c[f] \in Seq(Lines)
      /\ Defaults.upstreams \in Seq(Lines) /\ Defaults.bootstrap \in Seq(Lines)
  BY SettingsAssumption DEF Lines
<1>6. /\ DOMAIN d = ServerConfig
      /\ d.upstream_dns = IF c.upstream_dns = <<>> THEN Defaults.upstreams ELSE c.upstream_dns
      /\ d.bootstrap_dns = IF c.bootstrap_dns = <<>> THEN Defaults.bootstrap ELSE c.bootstrap_dns
      /\ \A f \in ServerConfig \ {"upstream_dns", "bootstrap_dns", "access", "service_type"} :
            d[f] = c[f]
      /\ DOMAIN d.access = {"allowed", "disallowed", "hosts"}
  BY <1>5, DefaultFields
<1>7. ~newBootstrap(d.bootstrap_dns, Defaults.bootstrap).err
  <2> HIDE DEF d
  <2> QED
    BY <1>4 DEF prepareInternalDNS
<1> HIDE DEF cause, proxy, internal, d
<1>8. d.fallback_dns = c.fallback_dns /\ d.local_ptr_upstreams = c.local_ptr_upstreams
  BY <1>6 DEF ServerConfig, Config, TLSConfig
<1>9. \A f \in Lists : d[f] \in Seq(Lines)
  BY <1>5, <1>6, <1>8 DEF Lists
<1>10. Parsable(d.upstream_dns)
  <2>1. ~ParseUpstreamsConfig(d.upstream_dns).err
    BY <1>6, InitialAssumption
  <2> QED
    BY <1>9, <2>1, ParseError DEF Lists
<1>11. Parsable(d.fallback_dns)
  BY <1>4, <1>9, ParseError DEF Lists, setupFallbackDNS
<1>12. Reachable(d.bootstrap_dns)
  <2>1. Reachable(IF d.bootstrap_dns = <<>> THEN Defaults.bootstrap ELSE d.bootstrap_dns)
    BY <1>7, BootstrapError
  <2>2. Reachable(Defaults.bootstrap)
    BY InitialAssumption DEF Reachable
  <2> QED
    BY <1>6, <2>1, <2>2
<1>13. Private(d.local_ptr_upstreams)
  BY <1>8, InitialAssumption, PrivateError
<1>14. d.upstream_mode \in Modes
  BY <1>4 DEF setProxyUpstreamMode, Modes
<1>15. Working(d)
  BY <1>4, <1>6, <1>9, <1>10, <1>11, <1>12, <1>13, <1>14 DEF Working
<1>16. ServerInv
  BY DEF Init, ServerInv, ServerFields
<1> QED
  BY <1>3, <1>15, <1>16 DEF ConfInv

LEMMA ConfStep ==
    ASSUME ConfInv, FilterInv, AdmInv, [Next]_vars
    PROVE  ConfInv'
<1>1. ASSUME conf' = conf, srv' = srv
      PROVE  ConfInv'
  BY <1>1 DEF ConfInv, ServerInv
<1>2. ASSUME NEW w \in Workers, HandleBefore(w) \/ Serve(w)
      PROVE  ConfInv'
  BY <1>1, <1>2, ServeLeaves
<1>3. ASSUME Call \/ AdmWait \/ AdmAcquire \/ WriteDiskConfig \/ handleTestUpstreamDNS \/ Reported
      PROVE  ConfInv'
  <2>1. conf' = conf /\ srv' = srv
    BY <1>3 DEF Call, AdmWait, AdmAcquire, WriteDiskConfig, handleTestUpstreamDNS, Reported,
                OnlyAdm, state
  <2> QED
    BY <1>1, <2>1
<1>4. ASSUME handleSetProtection \/ ChangeRewrites \/ setProtectedBool \/ handleSafeSearchEnable
             \/ UpdateSafeSearch \/ handleSafeSearchSettings
      PROVE  ConfInv'
  <2>1. conf' = conf /\ srv' = srv
    BY <1>4 DEF handleSetProtection, ChangeRewrites, setProtectedBool, handleSafeSearchEnable,
                UpdateSafeSearch, handleSafeSearchSettings
  <2> QED
    BY <1>1, <2>1
<1>5. ASSUME Job \/ Tick \/ UNCHANGED vars
      PROVE  ConfInv'
  <2>1. conf' = conf /\ srv' = srv
    BY <1>5 DEF Job, JobWait, JobAcquire, enableProtectionAfterPause, JobSave, Tick, vars, state
  <2> QED
    BY <1>1, <2>1
<1>6. ASSUME handleSetConfig
      PROVE  ConfInv'
  <2>1. conf' = setConfig(conf, adm.op.arg).conf /\ srv' = srv
    BY <1>6 DEF handleSetConfig, Op
  <2>2. CallInv(adm) /\ adm.op.name = "dns_config" /\ adm.pc = "change"
    BY <1>6, Calling DEF handleSetConfig, Op
  <2>3. Valid(adm.op.arg) /\ \A f \in Lists \cap DOMAIN adm.op.arg : adm.op.arg[f] \in Seq(Lines)
    BY <2>2 DEF CallInv, Passed, Decoded, Lines
  <2>4. Working(setConfig(conf, adm.op.arg).conf)
    BY <2>3, SetWorks DEF ConfInv
  <2>5. ServerInv'
    BY <2>1 DEF ConfInv, ServerInv
  <2> QED
    BY <2>1, <2>4, <2>5 DEF ConfInv
<1>7. ASSUME handleAccessSet
      PROVE  ConfInv'
  <2>1. conf' = [conf EXCEPT !.access = adm.op.arg]
        /\ srv' = [srv EXCEPT !.access = newAccessCtx(adm.op.arg)]
    BY <1>7 DEF handleAccessSet, Op
  <2>2. CallInv(adm) /\ adm.op.name = "access" /\ adm.pc = "change"
    BY <1>7, Calling DEF handleAccessSet, Op
  <2>3. DOMAIN adm.op.arg = {"allowed", "disallowed", "hosts"} /\ ~newAccessCtx(adm.op.arg).err
    BY <2>2 DEF CallInv, Passed, Decoded
  <2>4. /\ DOMAIN conf = ServerConfig
        /\ Lists \cup {"access", "upstream_mode", "serve_plain", "cert", "encrypted"}
              \subseteq ServerConfig
    BY DEF ConfInv, Working, ServerConfig, Config, TLSConfig, Lists
  <2>5. /\ DOMAIN conf' = ServerConfig /\ conf'.access = adm.op.arg
        /\ \A f \in Lists \cup {"upstream_mode", "serve_plain", "cert", "encrypted"} :
              conf'[f] = conf[f]
    BY <2>1, <2>4 DEF Lists
  <2>6. Working(conf')
    <3> DEFINE d == conf'
    <3>1. /\ d.upstream_mode = conf.upstream_mode /\ d.serve_plain = conf.serve_plain
          /\ d.cert = conf.cert /\ d.encrypted = conf.encrypted
          /\ d.upstream_dns = conf.upstream_dns /\ d.fallback_dns = conf.fallback_dns
          /\ d.bootstrap_dns = conf.bootstrap_dns
          /\ d.local_ptr_upstreams = conf.local_ptr_upstreams
          /\ \A f \in Lists : d[f] = conf[f]
          /\ DOMAIN d = ServerConfig /\ d.access = adm.op.arg
      BY <2>5 DEF Lists
    <3> HIDE DEF d
    <3>2. ~preparePlain(d).err
      BY <3>1, SamePlain DEF ConfInv, Working
    <3>3. Working(d)
      BY <2>3, <3>1, <3>2 DEF ConfInv, Working
    <3> QED
      BY <3>3 DEF d
  <2>7. ServerInv'
    <3> DEFINE access == newAccessCtx(adm.op.arg)
    <3> HIDE DEF access
    <3>1. srv' = [srv EXCEPT !.access = access]
      BY <2>1 DEF access
    <3> QED
      BY <3>1 DEF ConfInv, ServerInv, ServerFields
  <2> QED
    BY <2>6, <2>7 DEF ConfInv
<1>8. ASSUME Close
      PROVE  ConfInv'
  BY <1>8 DEF Close, ConfInv, ServerInv, ServerFields
<1>9. ASSUME Reconfigure
      PROVE  ConfInv'
  <2> DEFINE p == Prepare(conf, filter.blocking, Defaults)
             ok == p.cause = "ok"
             proxy == IF ok THEN p.proxy ELSE srv.proxy
             access == IF p.cause \in {"ok", "fallback"} THEN p.access ELSE srv.access
  <2>1. /\ conf' = p.conf
        /\ srv' = [srv EXCEPT !.running = ok, !.cause = p.cause, !.proxy = proxy,
                              !.access = access]
    BY <1>9 DEF Reconfigure
  <2>2. p.cause \in Unseen \cup {"ok"} /\ p.conf = initDefaultSettings(conf, Defaults)
    BY Prepared DEF ConfInv, FilterInv, BlockingInv
  <2>3. Working(conf')
    BY <2>1, <2>2, DefaultsWork DEF ConfInv
  <2> HIDE DEF p, proxy, access
  <2>4. srv'.running = ok /\ srv'.cause = p.cause /\ DOMAIN srv' = ServerFields
    BY <2>1 DEF ConfInv, ServerInv, ServerFields
  <2>5. ServerInv'
    BY <2>2, <2>4 DEF ServerInv
  <2> QED
    BY <2>3, <2>5 DEF ConfInv
<1> QED
  BY <1>2, <1>3, <1>4, <1>5, <1>6, <1>7, <1>8, <1>9 DEF Next, Admin

(* The test of upstreams lists every line that cannot be parsed.           *)
LEMMA TestFinds ==
    ASSUME NEW req, NEW healthy, NEW answering, status(req, healthy, answering).errors = {},
           NEW f \in {"upstream_dns", "fallback_dns"}, req[f] \in Seq(Lines)
    PROVE  Parsable(req[f])
<1>1. status(req, healthy, answering).errors =
        UNION {collectErrResults(req[s]) : s \in {"upstream_dns", "fallback_dns",
                                                  "private_upstream"}}
  BY DEF status
<1>2. collectErrResults(req[f]) = {}
  BY <1>1
<1> DEFINE lines == req[f]
           used == FilterOut(lines)
<1>3. Parsable(used)
  <2> SUFFICES ASSUME NEW i \in DOMAIN used
               PROVE  Line[used[i]].kind # "bad"
    BY DEF Parsable
  <2>1. used[i] \in Range(used)
    BY DEF Range
  <2> QED
    BY <1>2, <2>1 DEF collectErrResults
<1> HIDE DEF lines
<1> QED
  BY <1>3, FilterOutFacts DEF lines

(* A configuration that the handler or the test of upstreams accepts can   *)
(* be prepared, after any calls before it and with any defaults, lines and *)
(* access lists: no Reconfigure leaves the server down, but for the file   *)
(* of upstreams and a cache TTL below an old bound (http.go:288).          *)
THEOREM ConfigServes ==
    Spec => []AcceptedConfigServes
<1>1. ASSUME ConfInv, FilterInv, AdmInv
      PROVE  AcceptedConfigServes
  <2>1. srv.running \/ srv.closed \/ srv.cause \in {"file", "ttl"}
    BY <1>1 DEF ConfInv, ServerInv, Unseen
  <2>2. ASSUME adm.pc = "tested", adm.report.errors = {}
        PROVE  Prepare([conf EXCEPT !.upstream_dns = Op.arg.upstream_dns,
                                    !.fallback_dns = Op.arg.fallback_dns],
                       filter.blocking, Defaults).cause \in {"ok", "file", "ttl"}
    <3> DEFINE req == adm.op.arg
               c == [conf EXCEPT !.upstream_dns = req.upstream_dns,
                                 !.fallback_dns = req.fallback_dns]
    <3>1. CallInv(adm) /\ adm.op.name = "test_upstream"
      BY <1>1, <2>2, Calling DEF CallInv
    <3>2. /\ \E x : adm.report = status(req, x, x)
          /\ req.upstream_dns \in Seq(Lines) /\ req.fallback_dns \in Seq(Lines)
      BY <2>2, <3>1 DEF CallInv, Decoded, Lines
    <3>3. Parsable(req.upstream_dns) /\ Parsable(req.fallback_dns)
      <4>1. PICK x : status(req, x, x).errors = {}
        BY <2>2, <3>2
      <4> HIDE DEF req
      <4> QED
        BY <3>2, <4>1, TestFinds
    <3> HIDE DEF req
    <3>4. /\ DOMAIN conf = ServerConfig
          /\ Lists \cup {"access", "upstream_mode", "serve_plain", "cert", "encrypted"}
                \subseteq ServerConfig
      BY <1>1 DEF ConfInv, Working, ServerConfig, Config, TLSConfig, Lists
    <3>5. /\ DOMAIN c = ServerConfig /\ c.upstream_dns = req.upstream_dns
          /\ c.fallback_dns = req.fallback_dns /\ c.bootstrap_dns = conf.bootstrap_dns
          /\ c.local_ptr_upstreams = conf.local_ptr_upstreams /\ c.access = conf.access
          /\ c.upstream_mode = conf.upstream_mode /\ c.serve_plain = conf.serve_plain
          /\ c.cert = conf.cert /\ c.encrypted = conf.encrypted
      BY <3>4 DEF Lists
    <3> HIDE DEF c
    <3>6. \A f \in Lists : c[f] \in Seq(Lines)
      BY <1>1, <3>2, <3>5 DEF ConfInv, Working, Lists
    <3>7. ~preparePlain(c).err
      BY <1>1, <3>5, SamePlain DEF ConfInv, Working
    <3>8. Working(c)
      BY <1>1, <3>3, <3>5, <3>6, <3>7 DEF ConfInv, Working
    <3>9. Prepare(c, filter.blocking, Defaults).cause \in {"ok", "file", "ttl"}
      BY <1>1, <3>8, Prepared DEF FilterInv, BlockingInv, Unseen
    <3> QED
      BY <3>9 DEF c, req, Op
  <2> QED
    BY <2>1, <2>2 DEF AcceptedConfigServes
<1> QED
  BY <1>1, ConfInit, ConfStep, FilterInit, FilterStep, AdmInvariance, PTL DEF Spec
=============================================================================
