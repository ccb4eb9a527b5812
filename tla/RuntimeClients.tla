--------------------------- MODULE RuntimeClients ---------------------------
(***************************************************************************)
(* What is known of clients nobody configured: the runtime index of        *)
(* client.Storage, and the sources that fill it.  The address processor    *)
(* asks reverse DNS and WHOIS about the addresses of DNS requests          *)
(* (internal/client/addrproc.go, internal/rdns, internal/whois), a watcher *)
(* of the hosts file sends its new contents (internal/aghos/fswatcher.go,  *)
(* internal/aghnet/hostscontainer.go), a timer reads the ARP tables        *)
(* (internal/arpdb), and the DHCP leases are read when clients are shown.  *)
(*                                                                         *)
(* Storage.mu makes each update of the index one step.  The steps of an    *)
(* address processor and of the watcher interleave with everything else; a *)
(* reconfiguration of the DNS server closes the address processor and      *)
(* opens another one while the first still empties its queue.              *)
(***************************************************************************)
EXTENDS Naturals, Sequences, FiniteSets, SequencesExt

CONSTANTS
    IPs,
    Loopback, Private, Special,     \* sets of addresses
    UsePrivateRDNS,
    RuntimeSourceDHCP,
    Names,          \* host names
    Chains,         \* what WHOIS servers answer: sequences of answers
    Tables,         \* what an ARP source gives: sets of lines
    Contents,       \* contents of the hosts file: functions of addresses
    NDBs,           \* how many ARP sources the system has
    MaxRedirects,   \* WHOIS redirects that are followed
    QueueSize,      \* capacity of the address queue
    Procs,          \* 1..n: the address processors that are opened in turn
    MaxRequests,    \* bound on addresses handed to the processors
    MaxWrites,      \* bound on writes of the hosts file
    MaxEvents,      \* bound on changes of leases, ARP and persistent clients
    Nil             \* a nil slice or pointer

VARIABLES
    rt,         \* runtimeIndex.index
    proc,       \* the address processors
    current,    \* Server.addrProc
    owned,      \* the addresses of persistent clients
    dhcp,       \* host names of the leases
    arpDead,    \* Storage.arpDB has been replaced by Empty
    hosts,      \* the hosts file and its watcher
    applied,    \* history: the contents last applied by addFromHostsFile
    ignored,    \* history: addresses whose last WHOIS answer was ignored
    mixed,      \* history: addresses last updated by a closed processor
    count

vars == <<rt, proc, current, owned, dhcp, arpDead, hosts, applied, ignored,
          mixed, count>>

NoInfo == [city |-> "", country |-> "", orgname |-> ""]

CountUp(w, bound) ==
    /\ count[w] < bound
    /\ count' = [count EXCEPT ![w] = @ + 1]

-----------------------------------------------------------------------------
(* client.Runtime: a name, "" or Nil per source, and WHOIS information.    *)

Sources == <<"hosts", "dhcp", "rdns", "arp">>       \* from the highest priority
NewRuntime == [hosts |-> Nil, dhcp |-> Nil, rdns |-> Nil, arp |-> Nil, whois |-> Nil]

(* Mutant: reverse DNS comes before DHCP.                                  *)
InfoRDNSFirst(rc) ==
    LET order == <<"hosts", "rdns", "dhcp", "arp">>
        known == {i \in 1..4 : rc[order[i]] # Nil}
    IN  IF known = {} THEN "" ELSE rc[order[Min(known)]]

Info(rc) ==
    LET known == {i \in 1..4 : rc[Sources[i]] # Nil}
    IN  IF known = {} THEN "" ELSE rc[Sources[Min(known)]]

isEmpty(rc) == rc = NewRuntime

(* The index is a function of all addresses; Nil where it has no entry.    *)
setInfo(ix, ip, src, host) ==
    [ix EXCEPT ![ip] = IF @ = Nil THEN [NewRuntime EXCEPT ![src] = host]
                       ELSE [@ EXCEPT ![src] = host]]

clearSource(ix, src) ==
    [ip \in IPs |-> IF ix[ip] = Nil THEN Nil ELSE [ix[ip] EXCEPT ![src] = Nil]]

removeEmpty(ix) ==
    [ip \in IPs |-> IF ix[ip] # Nil /\ isEmpty(ix[ip]) THEN Nil ELSE ix[ip]]

(* Replacing everything that a source says: tbl gives a name or Nil.       *)
Replace(ix, src, tbl) ==
    LET cleared == clearSource(ix, src)
    IN  removeEmpty([ip \in IPs |->
            IF tbl[ip] = Nil THEN cleared[ip] ELSE setInfo(cleared, ip, src, tbl[ip])[ip]])

-----------------------------------------------------------------------------
(* Reverse DNS.  The caches hold Nil where there is no entry; that an      *)
(* entry has expired is a choice of the caller.                            *)

shouldResolve(ip) == ip \notin Loopback /\ (UsePrivateRDNS \/ ip \notin Private)

(* The exchanger's answer; private addresses are not asked about without   *)
(* UsePrivateRDNS, and a failure is "".                                    *)
Exchange(ip) == IF ip \in Private /\ ~UsePrivateRDNS THEN {""} ELSE Names \cup {""}

(* Mutant: a name that replaces another one is not reported.               *)
RdnsChangedOnce(cached, host) == cached = ""

RdnsChanged(cached, host) == cached = "" \/ host # cached

(* rdns.Default.Process: the new entry of the cache, and the name that     *)
(* processRDNS returns.                                                    *)
RdnsProcess(cached, expired, host) ==
    LET from == IF cached = Nil THEN "" ELSE cached IN
    IF cached # Nil /\ ~expired THEN [cache |-> cached, host |-> ""]
    ELSE [cache |-> host, host |-> IF RdnsChanged(from, host) THEN host ELSE ""]

-----------------------------------------------------------------------------
(* WHOIS.  An answer is Nil, a failure, or a sequence of lines <<key, value>>;*)
(* the lines that are no comments, have a key and a value.                 *)

ParseLine(kv, l) ==
    CASE l[1] = "orgname" -> [kv EXCEPT !.orgname = l[2]]
      [] l[1] \in {"descr", "netname"} ->
            IF kv.orgname = "" THEN [kv EXCEPT !.orgname = l[2]] ELSE kv
      [] l[1] \in {"city", "country"} -> [kv EXCEPT ![l[1]] = l[2]]
      [] l[1] \in {"whois", "referralserver"} -> [kv EXCEPT !.whois = l[2]]
      [] OTHER -> kv

whoisParse(lines) ==
    FoldLeft(ParseLine, [city |-> "", country |-> "", orgname |-> "", whois |-> ""], lines)

(* The k-th server of the chain answers the k-th query; a server that      *)
(* names no other one ends the search.  A failed query and too many        *)
(* redirects give Nil.                                                     *)
queryAll(chain) ==
    LET ends == {k \in 1..Len(chain) : chain[k] = Nil \/ whoisParse(chain[k]).whois = ""}
        end == CHOOSE k \in ends : \A j \in ends : k <= j
    IN  IF ends = {} \/ end > MaxRedirects \/ chain[end] = Nil THEN Nil
        ELSE LET kv == whoisParse(chain[end])
             IN  [city |-> kv.city, country |-> kv.country, orgname |-> kv.orgname]

Answers == [chain \in Chains |-> queryAll(chain)]

(* requestInfo: the new entry of the cache and the information that        *)
(* processWHOIS returns, Nil if there is none or if it is not new.         *)
requestInfo(cached, chain) ==
    LET answer == Answers[chain]
        info == IF answer = Nil THEN NoInfo ELSE answer
    IN  [cache |-> info,
         info  |-> IF info = NoInfo \/ info = cached THEN Nil ELSE info]

WhoisProcess(ip, cached, expired, chain) ==
    IF ip \in Special \/ (cached # Nil /\ ~expired)
    THEN [cache |-> cached, info |-> Nil]
    ELSE requestInfo(cached, chain)

-----------------------------------------------------------------------------
(* ARP tables: sets of lines [ip, host]; a line that does not parse has    *)
(* the address Nil, and a name that is no host name counts as none.        *)

ParseNeighbors(lines) ==
    [ip \in IPs |->
        LET hs == {l.host : l \in {m \in lines : m.ip = ip}}
        IN  IF hs = {} THEN Nil ELSE IF hs \subseteq Names THEN CHOOSE h \in hs : TRUE ELSE ""]

(* arpdbs.Refresh: the first source that does not fail.                    *)
RefreshARP(results) ==
    LET ok == {i \in 1..NDBs : results[i] # Nil}
    IN  IF ok = {} THEN Nil ELSE results[CHOOSE i \in ok : \A j \in ok : i <= j]

-----------------------------------------------------------------------------
NoJob == [pc |-> "idle", ip |-> Nil, host |-> "", info |-> Nil]
NoProc == [state |-> "none", queue |-> <<>>, job |-> NoJob,
           rdns |-> [ip \in IPs |-> Nil], whois |-> [ip \in IPs |-> Nil]]
NoNames == [ip \in IPs |-> Nil]

(* What WHOIS can say, and the entries of the runtime index.               *)
Infos == {NoInfo, Nil} \cup {Answers[chain] : chain \in Chains}
Runtimes ==
    LET Hosts == Names \cup {"", Nil}
    IN  [hosts : Hosts, dhcp : Hosts, rdns : Hosts, arp : Hosts, whois : Infos]

ASSUME ConstantsAssumption ==
    /\ Nil \notin Names \cup IPs \cup Runtimes \cup {""}
    /\ Loopback \cup Private \cup Special \subseteq IPs
    /\ NDBs \in Nat \ {0} /\ MaxRedirects \in Nat /\ QueueSize \in Nat \ {0}
    /\ Procs = 1..Cardinality(Procs) /\ Cardinality(Procs) \in Nat \ {0}
    /\ {MaxRequests, MaxWrites, MaxEvents} \subseteq Nat
    /\ Contents \subseteq [IPs -> Names \cup {Nil}]

(* NewStorage, NewHostsContainer with its first refresh, which leaves the  *)
(* first contents in the channel, and the first address processor.         *)
Init ==
    /\ rt = [ip \in IPs |-> Nil]
    /\ proc = [p \in Procs |-> IF p = 1 THEN [NoProc EXCEPT !.state = "open"] ELSE NoProc]
    /\ current = 1
    /\ owned = {} /\ dhcp = NoNames /\ arpDead = FALSE
    /\ hosts = [file |-> NoNames, told |-> TRUE, raw |-> FALSE, event |-> FALSE,
                current |-> NoNames, upd |-> Nil]
    /\ applied = NoNames
    /\ ignored = {} /\ mixed = {}
    /\ count = [requests |-> 0, writes |-> 0, events |-> 0]

-----------------------------------------------------------------------------
(* The address processor.                                                  *)

(* Process, for the address of a DNS request: a closed processor and a     *)
(* full queue drop it.                                                     *)
Process(ip) ==
    /\ proc[current].state = "open"
    /\ Len(proc[current].queue) < QueueSize
    /\ proc' = [proc EXCEPT ![current].queue = Append(@, ip)]
    /\ CountUp("requests", MaxRequests)
    /\ UNCHANGED <<rt, current, owned, dhcp, arpDead, hosts, applied, ignored, mixed>>

(* Reconfigure: Close, and setupAddrProc, unless the preparation fails in  *)
(* between; then the closed processor stays and is closed again later.     *)
Close(p) == [proc[p] EXCEPT !.state = "closed"]

Reconfigure ==
    /\ \/ /\ current + 1 \in Procs
          /\ proc' = [proc EXCEPT ![current] = Close(current), ![current + 1].state = "open"]
          /\ current' = current + 1
       \/ /\ proc[current].state = "open"
          /\ proc' = [proc EXCEPT ![current] = Close(current)]
          /\ UNCHANGED current
    /\ UNCHANGED <<rt, owned, dhcp, arpDead, hosts, applied, ignored, mixed, count>>

(* Mutant: the loop ends when the queue is closed.                         *)
TakeOpen(p) ==
    /\ proc[p].state = "open" /\ proc[p].job = NoJob /\ proc[p].queue # <<>>
    /\ proc' = [proc EXCEPT ![p].queue = Tail(@),
                            ![p].job = [NoJob EXCEPT !.pc = "rdns", !.ip = Head(proc[p].queue)]]
    /\ UNCHANGED <<rt, current, owned, dhcp, arpDead, hosts, applied, ignored, mixed, count>>

(* process: the next address; a closed channel is read to its end.         *)
Take(p) ==
    /\ proc[p].job = NoJob /\ proc[p].queue # <<>>
    /\ proc' = [proc EXCEPT ![p].queue = Tail(@),
                            ![p].job = [NoJob EXCEPT !.pc = "rdns", !.ip = Head(proc[p].queue)]]
    /\ UNCHANGED <<rt, current, owned, dhcp, arpDead, hosts, applied, ignored, mixed, count>>

processRDNS(p) ==
    LET ip == proc[p].job.ip IN
    /\ proc[p].job.pc = "rdns"
    /\ \E host \in Exchange(ip), expired \in BOOLEAN :
        LET r == IF shouldResolve(ip) THEN RdnsProcess(proc[p].rdns[ip], expired, host)
                 ELSE [cache |-> proc[p].rdns[ip], host |-> ""]
        IN  proc' = [proc EXCEPT ![p].rdns[ip] = r.cache, ![p].job.host = r.host,
                                 ![p].job.pc = "whois"]
    /\ UNCHANGED <<rt, current, owned, dhcp, arpDead, hosts, applied, ignored, mixed, count>>

processWHOIS(p) ==
    LET ip == proc[p].job.ip IN
    /\ proc[p].job.pc = "whois"
    /\ \E chain \in Chains, expired \in BOOLEAN :
        LET w == WhoisProcess(ip, proc[p].whois[ip], expired, chain)
        IN  proc' = [proc EXCEPT ![p].whois[ip] = w.cache, ![p].job.info = w.info,
                                 ![p].job.pc = "update"]
    /\ UNCHANGED <<rt, current, owned, dhcp, arpDead, hosts, applied, ignored, mixed, count>>

(* setWHOISInfo: not for the address of a persistent client.               *)
setWHOISInfo(ix, ip, info) ==
    IF info = Nil \/ ip \in owned THEN ix
    ELSE [ix EXCEPT ![ip] = IF @ = Nil THEN [NewRuntime EXCEPT !.whois = info]
                            ELSE [@ EXCEPT !.whois = info]]

UpdateAddress(p) ==
    LET j == proc[p].job
        named == IF j.host = "" THEN rt ELSE setInfo(rt, j.ip, "rdns", j.host)
    IN  /\ j.pc = "update"
        /\ rt' = setWHOISInfo(named, j.ip, j.info)
        /\ proc' = [proc EXCEPT ![p].job = NoJob]
        /\ ignored' = IF j.info = Nil THEN ignored
                      ELSE IF j.ip \in owned THEN ignored \cup {j.ip} ELSE ignored \ {j.ip}
        /\ mixed' = IF p # current THEN mixed \cup {j.ip} ELSE mixed
        /\ UNCHANGED <<current, owned, dhcp, arpDead, hosts, applied, count>>

-----------------------------------------------------------------------------
(* The hosts file.  raw: events the kernel has not delivered; event: the   *)
(* buffer of the watcher; upd: the buffer of the container.                *)

(* A program writes the file, or replaces it by renaming another one; only *)
(* the first is a write event.                                             *)
WriteHosts(c) ==
    /\ c # hosts.file
    /\ \E renamed \in BOOLEAN :
        hosts' = [hosts EXCEPT !.file = c, !.told = ~renamed,
                               !.raw = hosts.raw \/ ~renamed]
    /\ CountUp("writes", MaxWrites)
    /\ UNCHANGED <<rt, proc, current, owned, dhcp, arpDead, applied, ignored, mixed>>

(* osWatcher.handleEvents: one notification for all pending events, or     *)
(* none if one is still unread.                                            *)
WatchEvents ==
    /\ hosts.raw
    /\ hosts' = [hosts EXCEPT !.raw = FALSE, !.event = TRUE]
    /\ UNCHANGED <<rt, proc, current, owned, dhcp, arpDead, applied, ignored, mixed, count>>

(* Mutant: an update that is still unread stays.                           *)
SendUpdKeeps(upd, c) == IF upd = Nil THEN c ELSE upd

(* sendUpd: an update that is still unread is replaced.                    *)
sendUpd(upd, c) == c

(* HostsContainer.handleEvents and refresh.                                *)
RefreshHosts ==
    /\ hosts.event
    /\ hosts' = [hosts EXCEPT !.event = FALSE, !.current = hosts.file,
                    !.upd = IF hosts.current = hosts.file THEN @ ELSE sendUpd(@, hosts.file)]
    /\ UNCHANGED <<rt, proc, current, owned, dhcp, arpDead, applied, ignored, mixed, count>>

(* Storage.handleHostsUpdates and addFromHostsFile.                        *)
addFromHostsFile ==
    /\ hosts.upd # Nil
    /\ hosts' = [hosts EXCEPT !.upd = Nil]
    /\ rt' = Replace(rt, "hosts", hosts.upd)
    /\ applied' = hosts.upd
    /\ UNCHANGED <<proc, current, owned, dhcp, arpDead, ignored, mixed, count>>

-----------------------------------------------------------------------------
(* ARP and DHCP.                                                           *)

(* addFromSystemARP: an empty table changes nothing, and after a failure   *)
(* of every source ARP is given up.                                        *)
ReloadARP ==
    /\ ~arpDead
    /\ CountUp("events", MaxEvents)
    /\ \E results \in [1..NDBs -> Tables \cup {Nil}] :
        LET lines == RefreshARP(results) IN
        IF lines = Nil THEN arpDead' = TRUE /\ UNCHANGED rt
        ELSE /\ UNCHANGED arpDead
             /\ rt' = IF ParseNeighbors(lines) = NoNames THEN rt
                      ELSE Replace(rt, "arp", ParseNeighbors(lines))
    /\ UNCHANGED <<proc, current, owned, dhcp, hosts, applied, ignored, mixed>>

LeaseChanges(ip, h) ==
    /\ dhcp[ip] # h
    /\ dhcp' = [dhcp EXCEPT ![ip] = h]
    /\ CountUp("events", MaxEvents)
    /\ UNCHANGED <<rt, proc, current, owned, arpDead, hosts, applied, ignored, mixed>>

(* A persistent client with this address appears or disappears (module     *)
(* ClientRegistry).                                                        *)
PersistentChanges(ip) ==
    /\ owned' = IF ip \in owned THEN owned \ {ip} ELSE owned \cup {ip}
    /\ CountUp("events", MaxEvents)
    /\ UNCHANGED <<rt, proc, current, dhcp, arpDead, hosts, applied, ignored, mixed>>

(* UpdateDHCP, by handleGetClients before it lists the runtime clients.    *)
UpdateDHCP ==
    /\ RuntimeSourceDHCP
    /\ rt' = Replace(rt, "dhcp", dhcp)
    /\ UNCHANGED <<proc, current, owned, dhcp, arpDead, hosts, applied, ignored, mixed, count>>

(* ClientRuntime: the entry after a lookup, which takes over the lease     *)
(* unless the hosts file knows the address.                                *)
ClientRuntime(ip) ==
    IF \/ ~RuntimeSourceDHCP
       \/ rt[ip] # Nil /\ rt[ip].hosts # Nil
       \/ dhcp[ip] = Nil
    THEN rt
    ELSE setInfo(rt, ip, "dhcp", dhcp[ip])

(* findRuntime, clientOrArtificial: the name that is shown.                *)
findRuntime(ip) == LET rc == ClientRuntime(ip)[ip] IN IF rc = Nil THEN "" ELSE Info(rc)

LookupRuntime(ip) ==
    /\ ip \notin owned
    /\ rt' = ClientRuntime(ip)
    /\ UNCHANGED <<proc, current, owned, dhcp, arpDead, hosts, applied, ignored, mixed, count>>

-----------------------------------------------------------------------------
ProcStep(p) == Take(p) \/ processRDNS(p) \/ processWHOIS(p) \/ UpdateAddress(p)

Next ==
    \/ \E ip \in IPs : Process(ip) \/ PersistentChanges(ip) \/ LookupRuntime(ip)
    \/ \E ip \in IPs, h \in Names \cup {Nil} : LeaseChanges(ip, h)
    \/ Reconfigure
    \/ \E p \in Procs : ProcStep(p)
    \/ \E c \in Contents : WriteHosts(c)
    \/ WatchEvents \/ RefreshHosts \/ addFromHostsFile
    \/ ReloadARP \/ UpdateDHCP

(* The goroutines run on: the queries have timeouts.                       *)
Fairness ==
    /\ \A p \in Procs : WF_vars(ProcStep(p))
    /\ WF_vars(WatchEvents) /\ WF_vars(RefreshHosts) /\ WF_vars(addFromHostsFile)

Spec == Init /\ [][Next]_vars
FairSpec == Spec /\ Fairness

-----------------------------------------------------------------------------
TypeOK ==
    /\ \A ip \in IPs : rt[ip] # Nil =>
        /\ \A i \in 1..4 : rt[ip][Sources[i]] \in Names \cup {"", Nil}
        /\ rt[ip].whois # NoInfo
    /\ \A p \in Procs : Len(proc[p].queue) <= QueueSize
    /\ dhcp \in [IPs -> Names \cup {Nil}]
    /\ hosts.upd \in Contents \cup {Nil}
    /\ owned \cup ignored \cup mixed \subseteq IPs

(* Every entry of the runtime index has information of some source: what   *)
(* ARP, the hosts file or DHCP no longer know is removed, not left behind  *)
(* as a nameless client (runtimeindex.go, removeEmpty).                    *)
NoEmptyClients == \A ip \in IPs : rt[ip] # Nil => ~isEmpty(rt[ip])

(* What the caches of reverse DNS and WHOIS hold for an address has been   *)
(* handed to the index, since later answers are only passed on when they   *)
(* differ from the cache (rdns.go, whois.go, addrproc.go).  It does not    *)
(* hold for WHOIS information that came while the address was that of a    *)
(* persistent client, nor after a closed processor has written old answers *)
(* over those of its successor.                                            *)
CachedIsShown ==
    \A ip \in IPs :
        LET p == proc[current]
            working == p.job.ip = ip
        IN  (~working /\ ip \notin mixed) =>
                /\ p.rdns[ip] \notin {Nil, ""} => (rt[ip] # Nil /\ rt[ip].rdns = p.rdns[ip])
                /\ (p.whois[ip] \notin {Nil, NoInfo} /\ ip \notin ignored)
                        => (rt[ip] # Nil /\ rt[ip].whois = p.whois[ip])

(* The name of a client that is not persistent comes from the source with  *)
(* the highest priority: the hosts file as last read, then the lease that  *)
(* DHCP has now ("SourceHostsFile > SourceDHCP", storage.go); and what no  *)
(* source knows any more is gone.                                          *)
NamesFollowPriority ==
    /\ NoEmptyClients
    /\ \A ip \in IPs :
        /\ applied[ip] # Nil => findRuntime(ip) = applied[ip]
        /\ (applied[ip] = Nil /\ RuntimeSourceDHCP /\ dhcp[ip] # Nil)
                => findRuntime(ip) = dhcp[ip]

(* Every address that a queue accepted is processed, also when the         *)
(* processor has been closed in the meantime (addrproc.go, process).       *)
QueuesDrain ==
    \A p \in Procs :
        (proc[p].queue # <<>> \/ proc[p].job # NoJob)
            ~> (proc[p].queue = <<>> /\ proc[p].job = NoJob)

(* When the hosts file is written and then left alone, the runtime clients *)
(* show its contents in the end, whatever events and updates were merged   *)
(* on the way (fswatcher.go, hostscontainer.go).  A file that is replaced  *)
(* by renaming another one is not noticed.                                 *)
HostsConverge ==
    \A c \in Contents : <>[](hosts.file = c /\ hosts.told) => <>[](applied = c)
=============================================================================
