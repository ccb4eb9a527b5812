--------------------------------- MODULE DNS --------------------------------
(* The DNS server: the requests of clients from the access check to the      *)
(* statistics, next to the handlers that change the server while they run.   *)
(* serverLock is a read-write lock of Go: a writer that waits keeps new      *)
(* readers out.  A section under a read lock that takes no other step is one *)
(* action; the section of processFilteringBeforeRequest, which looks names   *)
(* up, is several.                                                           *)
EXTENDS DNSConf

CONSTANTS Workers,     \* goroutines of the proxy that serve requests
          Queries,     \* the requests clients send
          Scripts,     \* the calls an administrator or the program makes, in order
          InitConf, InitFilter, Defaults,
          Engines,     \* the rules, EtcHosts and Services that never change here
          EtcHosts, BlockedNames,
          Bad,         \* the dangerous names, for each checker
          SafeServices,\* the rewrites of each safe search service
          Zone,        \* what upstreams answer
          Leases, Hosts, LocalDomain, Page, TLS,
          Ignored,     \* the names that are not logged
          MaxRequests, MaxTime, CacheTime

(* The upstream lists of a configuration.                                   *)
Lists == {"upstream_dns", "fallback_dns", "bootstrap_dns", "local_ptr_upstreams"}
Calls == UNION {Range(script) : script \in Scripts}

(* What the decoder of each call makes of its body.                         *)
Decoded(op) ==
    /\ op.name = "dns_config" =>
          /\ DOMAIN op.arg \subseteq jsonDNSConfig
          /\ \A f \in Lists \cap DOMAIN op.arg : op.arg[f] \in Seq(DOMAIN Line)
          /\ "blocking" \in DOMAIN op.arg => DOMAIN op.arg.blocking = {"mode", "v4", "v6"}
    /\ op.name = "access" => DOMAIN op.arg = {"allowed", "disallowed", "hosts"}
    /\ op.name = "protection" => op.arg.duration \in Nat
    /\ op.name = "ss_settings" => DOMAIN op.arg = {"enabled", "services"}
    /\ op.name = "test_upstream" =>
          \A f \in {"upstream_dns", "fallback_dns", "private_upstream"} :
             op.arg[f] \in Seq(DOMAIN Line)

ASSUME CallsAssumption ==
    /\ Scripts \subseteq Seq(Calls)
    /\ \A op \in Calls : DOMAIN op = {"name", "arg"} /\ Decoded(op)

ASSUME QueriesAssumption ==
    \A ctx \in Queries : ctx.q # None /\ ctx.q.name \in Seq(Range(ctx.q.name))

ASSUME FilterAssumption ==
    /\ DOMAIN InitFilter = {"protection", "until", "filtering", "blocking", "sb", "pc", "ss",
                            "rewrites"}
    /\ InitFilter.until \in Int \cup {None}
    /\ DOMAIN InitFilter.blocking = {"mode", "v4", "v6"}
    /\ DOMAIN InitFilter.ss = {"enabled", "services"}

ASSUME SettingsAssumption ==
    /\ DOMAIN InitConf = ServerConfig
    /\ \A f \in Lists : InitConf[f] \in Seq(DOMAIN Line)
    /\ DOMAIN InitConf.access = {"allowed", "disallowed", "hosts"}
    /\ {Defaults.upstreams, Defaults.bootstrap} \subseteq Seq(DOMAIN Line)

(* The program starts with this configuration, and the lists of it that are *)
(* not in use at first are as good.                                         *)
ASSUME InitialAssumption ==
    /\ Prepare(InitConf, InitFilter.blocking, Defaults).cause = "ok"
    /\ \A lines \in {InitConf.upstream_dns, Defaults.upstreams} : ~ParseUpstreamsConfig(lines).err
    /\ ~newPrivateConfig(InitConf, InitConf.local_ptr_upstreams).err
    /\ \A i \in DOMAIN Defaults.bootstrap : Line[Defaults.bootstrap[i]].kind = "ups"

VARIABLES lock,   \* serverLock
          conf, filter, srv, checkers, ss,
          work,   \* the request each worker serves
          adm,    \* the call that is being made
          job,    \* the goroutine that ends a pause
          now, left,
          want,   \* what the administrator last asked of the protection
          excused \* known cases that the properties leave out

vars == <<lock, conf, filter, srv, checkers, ss, work, adm, job, now, left, want, excused>>
state == <<conf, filter, srv, checkers, ss>>
ghosts == <<want, excused>>

-----------------------------------------------------------------------------
(* serverLock *)

Procs == Workers \cup {"adm", "job"}
FreeForRead == lock.writer = None /\ lock.waiting = {}
RLock(p) == FreeForRead /\ lock' = [lock EXCEPT !.readers[p] = @ + 1]
RUnlock(p) == lock' = [lock EXCEPT !.readers[p] = @ - 1]
Wait(p) == lock' = [lock EXCEPT !.waiting = @ \cup {p}]
Acquire(p) ==
    /\ p \in lock.waiting /\ lock.writer = None
    /\ \A r \in Procs : lock.readers[r] = 0
    /\ lock' = [lock EXCEPT !.writer = p, !.waiting = @ \ {p}]
Unlock(p) == lock.writer = p /\ lock' = [lock EXCEPT !.writer = None]

-----------------------------------------------------------------------------
(* A request: the access check *)

NoQuery == [pc |-> "idle"]

Start(w, ctx, id) ==
    [pc |-> "client", ctx |-> ctx, id |-> id, q |-> ctx.q, origQ |-> None, prot |-> FALSE,
     setts |-> None, isDHCPHost |-> FALSE, res |-> Result, msg |-> None,
     fromUpstream |-> FALSE, wantsAD |-> FALSE, pending |-> <<>>, found |-> {}, asked |-> {}, logged |-> None]

To(w, pc) == work' = [work EXCEPT ![w].pc = pc]
Answer(w, msg) == work' = [work EXCEPT ![w].msg = msg, ![w].pc = "done"]
At(w, pc) == work[w].pc = pc
OnlyWork == UNCHANGED <<lock, state, adm, job, now, left, ghosts>>

(* Requests come in while the server listens.                               *)
HandleBefore(w) ==
    /\ work[w].pc \in {"idle", "done"} /\ srv.running /\ left.requests > 0
    /\ \E ctx \in Queries :
        LET cid == clientIDFromDNSContext(conf, ctx)
            start == Start(w, ctx, cid.id)
        IN  work' = [work EXCEPT ![w] =
                IF cid.err THEN [start EXCEPT !.msg = NewMsgSERVFAIL(ctx.q), !.pc = "done"]
                ELSE start]
    /\ left' = [left EXCEPT !.requests = @ - 1]
    /\ UNCHANGED <<lock, state, adm, job, now, ghosts>>

(* Datagrams are dropped without an answer.                                 *)
preBlockedResponse(w) ==
    Answer(w, IF work[w].ctx.proto \in {"udp", "dnscrypt"} THEN None
              ELSE makeResponseREFUSED(work[w].q))

CheckClient(w) ==
    /\ At(w, "client") /\ FreeForRead
    /\ IF IsBlockedClient(srv.access, work[w].ctx.ip, work[w].id)
       THEN preBlockedResponse(w) ELSE To(w, "host")
    /\ OnlyWork

CheckAccessHost(w) ==
    /\ At(w, "host")
    /\ IF isBlockedHost(srv.access, ToLower(work[w].q.name))
       THEN preBlockedResponse(w) ELSE To(w, "initial")
    /\ OnlyWork

-----------------------------------------------------------------------------
(* The first handlers *)

processInitial(w) ==
    /\ At(w, "initial") /\ FreeForRead
    /\ LET q == work[w].q
       IN  CASE conf.disable_ipv6 /\ q.type = "AAAA" -> Answer(w, NewMsgNODATA(q))
             [] q.type \in {"A", "AAAA"} /\ q.name = <<"use-application-dns", "net">> ->
                    Answer(w, NewMsgNXDOMAIN(q))
             [] q.name = <<"healthcheck", "adguardhome", "test">> ->
                    Answer(w, replyCompressed(q))
             [] OTHER -> To(w, "status")
    /\ OnlyWork

Expired == filter.until # None /\ now >= filter.until
(* Mutant: a pause lasts until the goroutine has ended it.                  *)
ProtectionStored == filter.protection

ProtectionNow == IF filter.until = None THEN filter.protection ELSE Expired

clientRequestFilteringSettings(protection) ==
    [filtering |-> filter.filtering, protection |-> protection, sb |-> filter.sb,
     pc |-> filter.pc, ss |-> filter.ss.enabled, services |-> BlockedNames]

(* A pause that is over is ended by a goroutine, one at a time.             *)
UpdatedProtectionStatus(w) ==
    /\ At(w, "status") /\ FreeForRead
    /\ work' = [work EXCEPT ![w].pc = "local", ![w].prot = ProtectionNow,
                            ![w].setts = clientRequestFilteringSettings(ProtectionNow)]
    /\ job' = IF Expired /\ job = "none" THEN "spawned" ELSE job
    /\ excused' = IF Expired /\ job = "none" THEN excused \ {"changed"} ELSE excused
    /\ UNCHANGED <<lock, state, adm, now, left, want>>

(* The first label of a name directly under the local domain.               *)
dhcpHostFromRequest(q) ==
    LET name == ToLower(q.name)
    IN  IF q.type \in {"A", "AAAA"} /\ Len(name) > Len(LocalDomain) /\ IsSuffix(LocalDomain, name)
        THEN SubSeq(name, 1, Len(name) - Len(LocalDomain)) ELSE <<>>

processDHCPHosts(r) ==
    LET host == dhcpHostFromRequest(r.q)
        s == [r EXCEPT !.isDHCPHost = host # <<>>]
    IN  IF host = <<>> THEN s
        ELSE IF ~r.ctx.private THEN [s EXCEPT !.msg = NewMsgNXDOMAIN(r.q), !.pc = "done"]
        ELSE IF host \in DOMAIN Leases
             THEN [s EXCEPT !.msg = DHCPAnswer(r.q, Leases[host], conf.dns64), !.pc = "log"]
        ELSE s

processDHCPAddrs(r) ==
    IF r.msg = None /\ r.ctx.arpa # None /\ r.q.type = "PTR" /\ r.ctx.arpa \in DOMAIN Hosts
    THEN [r EXCEPT !.msg = [replyCompressed(r.q) EXCEPT
                               !.ans = <<hdr(r.q, "PTR", Hosts[r.ctx.arpa] \o LocalDomain)>>],
                   !.pc = "log"]
    ELSE r

processDDRQuery(r) ==
    IF conf.handle_ddr /\ r.q.name = <<"_dns", "resolver", "arpa">>
    THEN [r EXCEPT !.msg = makeDDRResponse(r.q, TLS), !.pc = "done"] ELSE r

(* Requests for private addresses are only filtered by rules.               *)
PrivateSettings(r) ==
    [r EXCEPT !.setts = IF r.ctx.arpa = None THEN @
                        ELSE [@ EXCEPT !.pc = FALSE, !.sb = FALSE, !.ss = FALSE, !.services = {}]]

ProcessLocal(w) ==
    /\ At(w, "local")
    /\ LET start == [work[w] EXCEPT !.pc = "filter"]
           ddr == processDDRQuery(start)
       IN  work' = [work EXCEPT ![w] =
               IF ddr.pc = "done" THEN ddr
               ELSE PrivateSettings(processDHCPAddrs(processDHCPHosts(ddr)))]
    /\ OnlyWork

-----------------------------------------------------------------------------
(* Filtering the question, under the read lock *)

processFilteringBeforeRequest(w) ==
    /\ At(w, "filter") /\ RLock(w)
    /\ LET r == work[w]
           res == CheckHostLocal(filter.rewrites, EtcHosts, Engines, r.q.name, r.q.type, r.setts)
       IN  work' = [work EXCEPT ![w].res = res,
                                ![w].pc = IF Matched(res) THEN "respond" ELSE "sb"]
    /\ UNCHANGED <<state, adm, job, now, left, ghosts>>

Next1(kind) == IF kind = "sb" THEN "pc" ELSE "ss"
Reason(kind) == IF kind = "sb" THEN "FilteredSafeBrowsing" ELSE "FilteredParental"
Ask(kind) == IF kind = "sb" THEN "ask_sb" ELSE "ask_pc"

Verdict(r, kind, blocked) ==
    [r EXCEPT !.asked = @ \cup {kind},
              !.found = IF blocked THEN @ \cup {kind} ELSE @,
              !.res = IF blocked THEN Blocked(Reason(kind)) ELSE @,
              !.pending = <<>>,
              !.pc = IF blocked THEN "respond" ELSE Next1(kind)]

(* checkSafeBrowsing and checkParental up to the question to the service.   *)
Check(w, kind) ==
    /\ At(w, kind)
    /\ LET r == work[w]
           hit == findInCache(checkers[kind], hostnameToHashes(ToLower(r.q.name)), now)
       IN  work' = [work EXCEPT ![w] =
               IF ~(r.setts.protection /\ r.setts[kind]) THEN [r EXCEPT !.pc = Next1(kind)]
               ELSE IF hit.found THEN Verdict(r, kind, hit.blocked)
               ELSE [r EXCEPT !.pending = hit.request, !.pc = Ask(kind)]]
    /\ OnlyWork

CheckAnswered(w, kind) ==
    /\ At(w, Ask(kind))
    /\ LET r == work[w]
           received == Exchange(Bad[kind], r.pending)
       IN  /\ checkers' = [checkers EXCEPT ![kind] =
                              storeInCache(@, r.pending, received, now + CacheTime)]
           /\ work' = [work EXCEPT ![w] = Verdict(r, kind, processAnswer(r.pending, received))]
    /\ UNCHANGED <<lock, conf, filter, srv, ss, adm, job, now, left, ghosts>>

(* The service does not answer: the request fails.                          *)
CheckFailed(w, kind) ==
    /\ At(w, Ask(kind)) /\ RUnlock(w)
    /\ Answer(w, NewMsgSERVFAIL(work[w].q))
    /\ UNCHANGED <<state, adm, job, now, left, ghosts>>

getCachedResult(key) ==
    IF key \in DOMAIN ss.cache /\ ss.cache[key].expiry > now THEN ss.cache[key].res ELSE None

checkSafeSearch(w) ==
    /\ At(w, "ss")
    /\ LET r == work[w]
           key == <<r.q.type, ToLower(r.q.name)>>
           rewrite == searchHost(ss.engine, key[2])
       IN  work' = [work EXCEPT ![w] =
               IF ~(r.setts.protection /\ r.setts.ss) \/ r.q.type \notin {"A", "AAAA", "HTTPS"}
               THEN [r EXCEPT !.pc = "respond"]
               ELSE IF getCachedResult(key) # None
               THEN [r EXCEPT !.res = getCachedResult(key), !.pc = "respond"]
               ELSE IF rewrite = None THEN [r EXCEPT !.pc = "respond"]
               ELSE [r EXCEPT !.res = newResult(rewrite, r.q.type), !.pc = "ss_store"]]
    /\ OnlyWork

(* The result is stored outside the lock of the engine.                     *)
setCacheResult(w) ==
    /\ At(w, "ss_store")
    /\ LET r == work[w]
           key == <<r.q.type, ToLower(r.q.name)>>
           rewrite == searchHost(ss.engine, key[2])
       IN  /\ ss' = [ss EXCEPT !.cache =
                  [k \in DOMAIN @ \cup {key} |->
                      IF k = key THEN [res |-> r.res, expiry |-> now + CacheTime] ELSE @[k]]]
           /\ excused' = IF rewrite = None \/ newResult(rewrite, r.q.type) # r.res
                         THEN excused \cup {"overtaken"} ELSE excused
    /\ To(w, "respond")
    /\ UNCHANGED <<lock, conf, filter, srv, checkers, adm, job, now, left, want>>

isRewrittenCNAME(res) ==
    /\ res.reason \in {"Rewritten", "RewrittenRule", "FilteredSafeSearch"}
    /\ res.canon # None /\ res.ips = <<>>

PageOf(res) == Page[IF res.reason = Reason("sb") THEN "sb" ELSE "pc"]
NeedsPage(r) ==
    /\ r.res.reason \in {Reason("sb"), Reason("pc")} /\ r.q.type \in {"A", "AAAA", "HTTPS"}
    /\ PageOf(r.res) # <<>> /\ ~Is4(PageOf(r.res)) /\ ~Is6(PageOf(r.res))

FilterMessage(r, res, lookup) ==
    genDNSFilterMessage(r.q, res, filter.blocking, PageOf(res), lookup)

(* The rest of filterDNSRequest; the read lock is released.                 *)
filterDNSRequest(w) ==
    /\ At(w, "respond") /\ ~(work[w].res.filtered /\ NeedsPage(work[w])) /\ RUnlock(w)
    /\ LET r == work[w]
           res == r.res
           with(msg) == [r EXCEPT !.msg = msg, !.pc = "after"]
       IN  work' = [work EXCEPT ![w] =
               CASE isRewrittenCNAME(res) ->
                      [r EXCEPT !.origQ = r.q, !.q.name = res.canon, !.pc = "upstream"]
                 [] res.filtered -> with(FilterMessage(r, res, None))
                 [] res.reason = "Rewritten" -> with(getCNAMEWithIPs(r.q, res.ips, res.canon))
                 [] res.reason \in {"RewrittenRule", "RewrittenAutoHosts"} ->
                      with(filterDNSRewrite(r.q, res.rw))
                 [] OTHER -> [r EXCEPT !.pc = "upstream"]]
    /\ UNCHANGED <<state, adm, job, now, left, ghosts>>

(* What upstreams answer; a proxy that was shut down may fail.              *)
Resolve(q) ==
    {[reply(q, IF q.name \in DOMAIN Zone THEN "NOERROR" ELSE "NXDOMAIN") EXCEPT
        !.ad = TRUE,
        !.ans = IF q.name \in DOMAIN Zone
                THEN SelectSeq(Zone[q.name], LAMBDA rr : rr.type \in {q.type, "CNAME"}) ELSE <<>>]}
    \cup (IF srv.running THEN {} ELSE {None})

(* The page is looked up with the read lock held, and proxy takes it again. *)
LookupPage(w) ==
    /\ At(w, "respond") /\ work[w].res.filtered /\ NeedsPage(work[w]) /\ FreeForRead
    /\ \E m \in IF srv.proxy = None THEN {None} ELSE Resolve([work[w].q EXCEPT !.name = PageOf(work[w].res)]) :
        work' = [work EXCEPT
            ![w].msg = FilterMessage(work[w], work[w].res, IF m = None THEN None ELSE m.ans),
            ![w].pc = "after"]
    /\ RUnlock(w)
    /\ UNCHANGED <<state, adm, job, now, left, ghosts>>

-----------------------------------------------------------------------------
(* Upstreams and the rest *)

(* Whether the client may see that the answer was validated; the setting is *)
(* read again when the answer is there.                                     *)
setReqAD(r) == conf.dnssec_enabled /\ r.ctx.ad
setRespAD(r, m) ==
    IF conf.dnssec_enabled /\ ~r.wantsAD THEN [m EXCEPT !.ad = FALSE] ELSE m

(* An unknown name of the local domain is never sent to an upstream.        *)
processUpstream(w) ==
    /\ At(w, "upstream")
    /\ IF work[w].isDHCPHost THEN Answer(w, NewMsgNXDOMAIN(work[w].q))
       ELSE /\ FreeForRead
            /\ IF srv.proxy = None THEN Answer(w, NewMsgSERVFAIL(work[w].q))
               ELSE work' = [work EXCEPT ![w].wantsAD = setReqAD(work[w]), ![w].pc = "resolve"]
    /\ OnlyWork

Resolved(w) ==
    /\ At(w, "resolve")
    /\ \E m \in Resolve(work[w].q) :
        work' = [work EXCEPT
            ![w].msg = IF m = None THEN NewMsgSERVFAIL(work[w].q) ELSE setRespAD(work[w], m),
            ![w].fromUpstream = m # None, ![w].pc = IF m = None THEN "done" ELSE "after"]
    /\ OnlyWork

filterHTTPSRecords(rr) ==
    IF rr.type = "HTTPS" /\ conf.disable_ipv6 THEN removeIPv6Hints(rr) ELSE rr

(* The first record the rules block replaces the answer.                    *)
filterDNSResponse(r) ==
    LET ans == [i \in DOMAIN r.msg.ans |-> filterHTTPSRecords(r.msg.ans[i])]
        verdict(rr, host) == matchHost(Engines, host, rr.type, r.setts)
        hits(rr) == {h \in CheckedHosts(rr) : verdict(rr, h).filtered}
        bad == {i \in DOMAIN ans : hits(ans[i]) # {}}
        first == ans[CHOOSE i \in bad : \A j \in bad : i <= j]
        res == verdict(first, CHOOSE h \in hits(first) : TRUE)
    IN  IF ~r.setts.filtering THEN r
        ELSE IF bad = {} THEN [r EXCEPT !.msg.ans = ans]
        ELSE [r EXCEPT !.res = res, !.msg = FilterMessage(r, res, None)]

filterAfterResponse(r) == IF r.prot /\ r.fromUpstream THEN filterDNSResponse(r) ELSE r

(* Mutant: only the request gets the question back.                         *)
RestoreRequestOnly(r) == IF r.origQ = None THEN r ELSE [r EXCEPT !.q = r.origQ]

(* The client's question is put back when a rewrite had replaced it.        *)
RestoreQuestion(r) ==
    IF r.origQ = None THEN r
    ELSE [r EXCEPT !.q = r.origQ, !.msg.q = r.origQ,
                   !.msg.ans = <<hdr(r.origQ, "CNAME", r.res.canon)>> \o @]

processFilteringAfterResponse(w) ==
    /\ At(w, "after")
    /\ LET r == [work[w] EXCEPT !.pc = "log"]
       IN  CASE r.res.reason = "NotFilteredAllowList" -> work' = [work EXCEPT ![w] = r]
             [] r.res.reason \in {"Rewritten", "RewrittenRule", "FilteredSafeSearch"} ->
                    work' = [work EXCEPT ![w] = RestoreQuestion(r)]
             [] OTHER -> FreeForRead /\ work' = [work EXCEPT ![w] = filterAfterResponse(r)]
    /\ OnlyWork

(* The query log and the statistics are gone once the server is closed.     *)
shouldLog(r) == ~srv.closed /\ ToLower(r.q.name) \notin Ignored

updateStats(r) ==
    CASE r.res.reason = Reason("sb") -> "RSafeBrowsing"
      [] r.res.reason = Reason("pc") -> "RParental"
      [] r.res.reason = "FilteredSafeSearch" -> "RSafeSearch"
      [] r.res.reason \in {"FilteredBlockList", "FilteredBlockedService"} -> "RFiltered"
      [] OTHER -> "RNotFiltered"

logQuery(r) ==
    [q |-> r.q, client |-> IF r.id = None THEN r.ctx.ip ELSE r.id, result |-> updateStats(r)]

processQueryLogsAndStats(w) ==
    /\ At(w, "log") /\ FreeForRead
    /\ work' = [work EXCEPT ![w].logged = IF shouldLog(work[w]) THEN logQuery(work[w]) ELSE None,
                            ![w].pc = "done"]
    /\ OnlyWork

handleDNSRequest(w) ==
    \/ processInitial(w) \/ UpdatedProtectionStatus(w) \/ ProcessLocal(w)
    \/ processFilteringBeforeRequest(w)
    \/ \E kind \in {"sb", "pc"} : Check(w, kind) \/ CheckAnswered(w, kind) \/ CheckFailed(w, kind)
    \/ checkSafeSearch(w) \/ setCacheResult(w) \/ filterDNSRequest(w) \/ LookupPage(w)
    \/ processUpstream(w) \/ Resolved(w) \/ processFilteringAfterResponse(w)
    \/ processQueryLogsAndStats(w)

-----------------------------------------------------------------------------
(* The calls that change the server *)

Idle == [pc |-> "idle"]
Op == adm.op
AdmTo(pc) == adm' = [adm EXCEPT !.pc = pc]
OnlyAdm == UNCHANGED <<lock, state, work, job, now, left, ghosts>>

(* Requests are decoded and validated before any lock is taken.             *)
Accepted(op) ==
    CASE op.name = "dns_config" -> validate(conf, op.arg)
      [] op.name = "access" -> validateAccessSet(op.arg) /\ ~newAccessCtx(op.arg).err
      [] op.name = "protection" -> ~(op.arg.enabled /\ op.arg.duration > 0)
      [] op.name = "test_upstream" ->
            ~newBootstrap(FilterOut(op.arg.bootstrap_dns), Defaults.bootstrap).err
      [] OTHER -> TRUE

Locked == {"dns_config", "access", "protection", "close"}

(* A request that is refused changes nothing.                               *)
Call ==
    /\ adm.pc = "idle" /\ left.ops # <<>>
    /\ LET o == Head(left.ops)
           op == IF o.name = "dns_config"
                 THEN [o EXCEPT !.arg = checkServiceType(conf, @)] ELSE o
       IN  adm' = IF ~Accepted(op) THEN Idle
                  ELSE [op |-> op, pc |-> IF op.name \in Locked THEN "lock" ELSE "apply",
                        restart |-> FALSE]
    /\ left' = [left EXCEPT !.ops = Tail(@)]
    /\ UNCHANGED <<lock, state, work, job, now, ghosts>>

AdmWait ==
    /\ adm.pc \in {"lock", "relock"} /\ "adm" \notin lock.waiting /\ Wait("adm")
    /\ UNCHANGED <<state, work, adm, job, now, left, ghosts>>
AdmAcquire ==
    /\ adm.pc \in {"lock", "relock"} /\ Acquire("adm")
    /\ AdmTo(IF adm.pc = "lock" THEN "change" ELSE "reconfigure")
    /\ UNCHANGED <<state, work, job, now, left, ghosts>>

SetBlockingMode(f, req) ==
    IF "blocking" \notin DOMAIN req THEN f
    ELSE [f EXCEPT !.blocking = IF req.blocking.mode = "custom_ip" THEN req.blocking
                                ELSE [@ EXCEPT !.mode = req.blocking.mode]]

(* The end of a pause is left as it is.                                     *)
SetProtectionEnabled(f, req) ==
    [f EXCEPT !.protection = Asked(req, "protection_enabled", @)]

handleSetConfig ==
    /\ adm.pc = "change" /\ Op.name = "dns_config" /\ Unlock("adm")
    /\ LET set == setConfig(conf, Op.arg)
           prot == "protection_enabled" \in DOMAIN Op.arg
       IN  /\ conf' = set.conf
           /\ filter' = SetProtectionEnabled(SetBlockingMode(filter, Op.arg), Op.arg)
           /\ adm' = [adm EXCEPT !.pc = "save", !.restart = set.restart]
           /\ want' = IF prot THEN [enabled |-> Op.arg.protection_enabled, until |-> None] ELSE want
           /\ excused' = excused \cup (IF prot THEN {"changed"} ELSE {})
                                 \cup (IF prot /\ filter.until # None THEN {"protection"} ELSE {})
    /\ UNCHANGED <<srv, checkers, ss, work, job, now, left>>

(* A duration only comes with disabling.                                    *)
handleSetProtection ==
    /\ adm.pc = "change" /\ Op.name = "protection" /\ Unlock("adm")
    /\ LET until == IF Op.arg.duration = 0 THEN None ELSE now + Op.arg.duration
       IN  /\ filter' = [filter EXCEPT !.protection = Op.arg.enabled, !.until = until]
           /\ want' = [enabled |-> Op.arg.enabled, until |-> until]
    /\ excused' = (IF job = "none" THEN excused \ {"protection"} ELSE excused) \cup {"changed"}
    /\ AdmTo("save")
    /\ UNCHANGED <<conf, srv, checkers, ss, work, job, now, left>>

handleAccessSet ==
    /\ adm.pc = "change" /\ Op.name = "access" /\ Unlock("adm")
    /\ conf' = [conf EXCEPT !.access = Op.arg]
    /\ srv' = [srv EXCEPT !.access = newAccessCtx(Op.arg)]
    /\ AdmTo("save")
    /\ UNCHANGED <<filter, checkers, ss, work, job, now, left, ghosts>>

(* Stop and Close, at the end of the program.                               *)
Close ==
    /\ adm.pc = "change" /\ Op.name = "close" /\ Unlock("adm")
    /\ srv' = [srv EXCEPT !.running = FALSE, !.proxy = None, !.closed = TRUE]
    /\ adm' = Idle /\ left' = [left EXCEPT !.ops = <<>>]
    /\ UNCHANGED <<conf, filter, checkers, ss, work, job, now, ghosts>>

(* ConfigModified, which reads the configuration under the lock.            *)
WriteDiskConfig ==
    /\ adm.pc = "save" /\ FreeForRead
    /\ adm' = IF adm.restart THEN [adm EXCEPT !.pc = "relock"] ELSE Idle
    /\ OnlyAdm

(* An error leaves the server stopped, with the old proxy.                  *)
Reconfigure ==
    /\ adm.pc = "reconfigure" /\ Unlock("adm")
    /\ LET p == Prepare(conf, filter.blocking, Defaults)
       IN  /\ conf' = p.conf
           /\ srv' = [srv EXCEPT
                  !.running = p.cause = "ok", !.cause = p.cause,
                  !.proxy = IF p.cause = "ok" THEN p.proxy ELSE @,
                  !.access = IF p.cause \in {"ok", "fallback"} THEN p.access ELSE @]
    /\ adm' = Idle
    /\ UNCHANGED <<filter, checkers, ss, work, job, now, left, ghosts>>

(* The test of upstreams: any of them may answer, well or not.              *)
handleTestUpstreamDNS ==
    /\ adm.pc = "apply" /\ Op.name = "test_upstream"
    /\ \E answering \in SUBSET {Line[l].addr : l \in Range(Op.arg.upstream_dns)} :
        adm' = [op |-> Op, pc |-> "tested", restart |-> FALSE,
                report |-> status(Op.arg, answering, answering)]
    /\ OnlyAdm
Reported == adm.pc = "tested" /\ adm' = Idle /\ OnlyAdm

-----------------------------------------------------------------------------
(* The calls that change the filter *)

(* The entry to delete is compared as it was sent, not normalized.          *)
handleRewrite(rws, op) ==
    LET raw(i) == equal(rws[i], op.target)
        at == {i \in DOMAIN rws : raw(i)}
    IN  CASE op.what = "add" -> Append(rws, normalize(op.entry))
          [] op.what = "delete" -> SelectSeq(rws, LAMBDA e : ~equal(e, op.target))
          [] op.what = "update" /\ at # {} ->
                [rws EXCEPT ![CHOOSE i \in at : \A j \in at : i <= j] = normalize(op.entry)]
          [] OTHER -> rws

ChangeRewrites ==
    /\ adm.pc = "apply" /\ Op.name = "rewrite"
    /\ filter' = [filter EXCEPT !.rewrites = handleRewrite(@, Op.arg)]
    /\ AdmTo("save")
    /\ UNCHANGED <<lock, conf, srv, checkers, ss, work, job, now, left, ghosts>>

(* The handlers that enable and disable a checker.                          *)
setProtectedBool ==
    /\ adm.pc = "apply" /\ Op.name \in {"sb", "pc"}
    /\ filter' = [filter EXCEPT ![Op.name] = Op.arg]
    /\ AdmTo("save")
    /\ UNCHANGED <<lock, conf, srv, checkers, ss, work, job, now, left, ghosts>>

(* The engine that fits a safe search configuration.                        *)
Built(c) == resetEngine(None, c, SafeServices)

(* Enabling safe search does not build its engine.                          *)
handleSafeSearchEnable ==
    /\ adm.pc = "apply" /\ Op.name = "ss_enable"
    /\ filter' = [filter EXCEPT !.ss.enabled = Op.arg]
    /\ excused' = IF Op.arg /\ ss.engine # Built(filter'.ss) THEN excused \cup {"enabled"}
                  ELSE excused
    /\ AdmTo("save")
    /\ UNCHANGED <<lock, conf, srv, checkers, ss, work, job, now, left, want>>

(* Mutant: the cache keeps the results of the old engine.                   *)
UpdateKeepsCache ==
    /\ adm.pc = "apply" /\ Op.name = "ss_settings"
    /\ ss' = [ss EXCEPT !.engine = resetEngine(@, Op.arg, SafeServices)]
    /\ AdmTo("ss_conf")
    /\ excused' = IF Op.arg.enabled THEN excused \ {"overtaken", "enabled"} ELSE excused
    /\ UNCHANGED <<lock, conf, filter, srv, checkers, work, job, now, left, want>>

(* Update and then the configuration, each under its own lock.              *)
UpdateSafeSearch ==
    /\ adm.pc = "apply" /\ Op.name = "ss_settings"
    /\ ss' = [engine |-> resetEngine(ss.engine, Op.arg, SafeServices), cache |-> <<>>]
    /\ AdmTo("ss_conf")
    /\ excused' = IF Op.arg.enabled THEN excused \ {"overtaken", "enabled"} ELSE excused
    /\ UNCHANGED <<lock, conf, filter, srv, checkers, work, job, now, left, want>>

handleSafeSearchSettings ==
    /\ adm.pc = "ss_conf"
    /\ filter' = [filter EXCEPT !.ss = Op.arg]
    /\ AdmTo("save")
    /\ UNCHANGED <<lock, conf, srv, checkers, ss, work, job, now, left, ghosts>>

-----------------------------------------------------------------------------
(* The end of a pause, and time *)

JobWait == job = "spawned" /\ Wait("job") /\ job' = "waiting"
           /\ UNCHANGED <<state, work, adm, now, left, ghosts>>
JobAcquire == job = "waiting" /\ Acquire("job") /\ job' = "locked"
              /\ UNCHANGED <<state, work, adm, now, left, ghosts>>
enableProtectionAfterPause ==
    /\ job = "locked" /\ Unlock("job")
    /\ filter' = [filter EXCEPT !.protection = TRUE, !.until = None]
    /\ excused' = IF "changed" \in excused THEN excused \cup {"protection"} ELSE excused
    /\ job' = "save"
    /\ UNCHANGED <<conf, srv, checkers, ss, work, adm, now, left, want>>
JobSave == job = "save" /\ FreeForRead /\ job' = "none"
           /\ UNCHANGED <<lock, state, work, adm, now, left, ghosts>>

Tick == now < MaxTime /\ now' = now + 1
        /\ UNCHANGED <<lock, state, work, adm, job, left, ghosts>>

-----------------------------------------------------------------------------
(* The specification *)

Init ==
    LET p == Prepare(InitConf, InitFilter.blocking, Defaults)
    IN  /\ lock = [writer |-> None, waiting |-> {}, readers |-> [r \in Procs |-> 0]]
        /\ conf = p.conf /\ filter = InitFilter
        /\ srv = [running |-> TRUE, cause |-> "ok", closed |-> FALSE, proxy |-> p.proxy,
                  access |-> p.access]
        /\ checkers = [kind \in {"sb", "pc"} |-> <<>>]
        /\ ss = [engine |-> Built(InitFilter.ss), cache |-> <<>>]
        /\ work = [w \in Workers |-> NoQuery] /\ adm = Idle /\ job = "none" /\ now = 0
        /\ \E script \in Scripts : left = [requests |-> MaxRequests, ops |-> script]
        /\ want = [enabled |-> InitFilter.protection, until |-> InitFilter.until]
        /\ excused = {}

Serve(w) == CheckClient(w) \/ CheckAccessHost(w) \/ handleDNSRequest(w)
Admin ==
    \/ AdmWait \/ AdmAcquire \/ handleSetConfig \/ handleSetProtection \/ handleAccessSet
    \/ Close \/ WriteDiskConfig \/ Reconfigure \/ handleTestUpstreamDNS \/ Reported
    \/ ChangeRewrites \/ setProtectedBool
    \/ handleSafeSearchEnable \/ UpdateSafeSearch \/ handleSafeSearchSettings
Job == JobWait \/ JobAcquire \/ enableProtectionAfterPause \/ JobSave

Next == (\E w \in Workers : HandleBefore(w) \/ Serve(w)) \/ Call \/ Admin \/ Job \/ Tick

Spec == Init /\ [][Next]_vars

(* The goroutines that hold no lock but wait for one, or run, go on.        *)
FairSpec == Spec /\ (\A w \in Workers : WF_vars(Serve(w))) /\ WF_vars(Admin) /\ WF_vars(Job)

-----------------------------------------------------------------------------
(* Properties *)

(* The client gets an answer to the question it asked, although a rewrite   *)
(* replaces the question on the way and the answer has to be put under it   *)
(* again (process.go:612); the query log has it too.  The one exception: an *)
(* unknown name of the local domain whose rewrite is answered at            *)
(* process.go:479 before that happens.                                      *)
AnswersTheQuestion ==
    \A w \in Workers : (work[w].pc = "done" /\ work[w].msg # None) =>
        /\ \/ work[w].msg.q = work[w].ctx.q
           \/ work[w].isDHCPHost \/ work[w].msg.rcode = "SERVFAIL"
        /\ work[w].logged # None => work[w].logged.q = work[w].ctx.q

(* A checker calls a name dangerous exactly when one of the names it hashes *)
(* is, whatever part of the answer the cache had and whichever names share  *)
(* its prefixes (cache.go:58, cache.go:94, hashprefix.go:104).              *)
VerdictsAgree ==
    \A w \in Workers : work[w].pc = "done" =>
        \A kind \in work[w].asked :
            (kind \in work[w].found) <=>
                \E h \in Range(hostnameToHashes(ToLower(work[w].ctx.q.name))) : h \in Bad[kind]

(* While safe search is on, its engine and every result in its cache are    *)
(* those of the configuration (safesearch.go:339).  Two known cases are     *)
(* left out: a result that was stored after the update had cleared the      *)
(* cache (safesearch.go:215), and the old handler that enables safe search  *)
(* without an engine (safesearchhttp.go:14).                                *)
SafeSearchCurrent ==
    (filter.ss.enabled /\ adm.pc # "ss_conf" /\ excused \cap {"overtaken", "enabled"} = {}) =>
        /\ ss.engine = Built(filter.ss)
        /\ \A key \in DOMAIN ss.cache :
            /\ searchHost(ss.engine, key[2]) # None
            /\ ss.cache[key].res = newResult(searchHost(ss.engine, key[2]), key[1])

(* A configuration the handler accepts can be prepared: Reconfigure leaves  *)
(* the server running (http.go:288 against dnsforward.go:492).  What the    *)
(* validation does not see is the file of upstreams and a lower bound of    *)
(* the cache TTL above the upper one of an earlier request.  Lists that the *)
(* test of upstreams finds no error in can be prepared too; its bootstrap   *)
(* servers are left out, where only the test allows comments.               *)
AcceptedConfigServes ==
    /\ srv.running \/ srv.closed \/ srv.cause \in {"file", "ttl"}
    /\ (adm.pc = "tested" /\ adm.report.errors = {}) =>
          Prepare([conf EXCEPT !.upstream_dns = Op.arg.upstream_dns,
                               !.fallback_dns = Op.arg.fallback_dns],
                  filter.blocking, Defaults).cause \in {"ok", "file", "ttl"}

(* What the administrator asked of the protection.                          *)
Wanted == IF want.until = None THEN want.enabled ELSE now >= want.until

(* A request is filtered exactly when the protection is on by the last      *)
(* change of the administrator: a pause holds until its end and not longer  *)
(* (config.go:730), even before the goroutine has ended it (config.go:758). *)
(* Left out: a change made while a pause is being ended, which the          *)
(* goroutine overwrites, and a switch by dns_config, which keeps the end of *)
(* an old pause (filtering.go:504).                                         *)
ProtectionAsAsked ==
    [][\A w \in Workers : (At(w, "status") /\ work'[w].pc = "local") =>
          work'[w].prot = Wanted \/ "protection" \in excused]_vars

(* Every request is answered, also one that looks up the page to show       *)
(* instead of a dangerous one while the server is being closed or           *)
(* reconfigured (msg.go:317).                                               *)
RequestsFinish == \A w \in Workers : (work[w].pc # "idle") ~> (work[w].pc = "done")
=============================================================================
