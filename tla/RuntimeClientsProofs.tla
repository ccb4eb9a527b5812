------------------------ MODULE RuntimeClientsProofs ------------------------
(***************************************************************************)
(* Proofs about RuntimeClients for every set of addresses and names, every *)
(* number of address processors and every length of their queues: the name *)
(* that is shown follows the priority of the sources, and what the caches  *)
(* of reverse DNS and WHOIS hold has been handed to the index.             *)
(***************************************************************************)
EXTENDS RuntimeClients, TLAPS

HostNames == Names \cup {"", Nil}
Fields == {"hosts", "dhcp", "rdns", "arp", "whois"}
Index == [IPs -> Runtimes \cup {Nil}]
Table == [IPs -> HostNames]

(* What a source says of an address; Nil without an entry.                 *)
Says(ix, ip, src) == IF ix[ip] = Nil THEN Nil ELSE ix[ip][src]

(* No entry of the index is without information.                           *)
Filled(ix) == \A ip \in IPs : ix[ip] # Nil => ~isEmpty(ix[ip])

(* A nil slice is none of the values the program stores.                   *)
LEMMA NilFacts ==
    /\ Nil \notin Names /\ Nil \notin IPs /\ Nil \notin Runtimes /\ Nil # ""
BY ConstantsAssumption

(* Assigning one source of a client.Runtime leaves the others.             *)
LEMMA RuntimeField ==
    ASSUME NEW rc \in Runtimes, NEW src \in Fields \ {"whois"}, NEW h \in HostNames
    PROVE  /\ [rc EXCEPT ![src] = h] \in Runtimes
           /\ [rc EXCEPT ![src] = h][src] = h
           /\ \A s \in Fields \ {src} : [rc EXCEPT ![src] = h][s] = rc[s]
BY DEF Runtimes, Fields, HostNames

(* A new client.Runtime says nothing.                                      *)
LEMMA NewRuntimeType == NewRuntime \in Runtimes /\ \A s \in Fields : NewRuntime[s] = Nil
BY DEF NewRuntime, Runtimes, Fields, Infos

(* Runtime.isEmpty: an entry is empty when no source and no WHOIS          *)
(* information is there.                                                   *)
LEMMA NotEmpty ==
    ASSUME NEW rc \in Runtimes
    PROVE  ~isEmpty(rc) <=> \E s \in Fields : rc[s] # Nil
<1>1. ASSUME \A s \in Fields : rc[s] = Nil
      PROVE  rc = NewRuntime
  <2>1. rc.hosts = Nil /\ rc.dhcp = Nil /\ rc.rdns = Nil /\ rc.arp = Nil /\ rc.whois = Nil
    BY <1>1 DEF Fields
  <2> QED
    BY <2>1 DEF NewRuntime, Runtimes
<1> QED
  BY <1>1, NewRuntimeType DEF isEmpty

(* runtimeIndex.setInfo adds or replaces what one source says of one       *)
(* address and nothing else.                                               *)
LEMMA SetInfoSays ==
    ASSUME NEW ix \in Index, NEW ip \in IPs, NEW src \in Fields \ {"whois"}, NEW h \in HostNames \ {Nil}
    PROVE  /\ setInfo(ix, ip, src, h) \in Index
           /\ Filled(ix) => Filled(setInfo(ix, ip, src, h))
           /\ Says(setInfo(ix, ip, src, h), ip, src) = h
           /\ \A q \in IPs, s \in Fields :
                 q # ip \/ s # src => Says(setInfo(ix, ip, src, h), q, s) = Says(ix, q, s)
<1> DEFINE old == IF ix[ip] = Nil THEN NewRuntime ELSE ix[ip]
           new == [old EXCEPT ![src] = h]
<1>1. old \in Runtimes /\ \A s \in Fields : Says(ix, ip, s) = old[s]
  BY NewRuntimeType DEF Index, Says
<1>2. setInfo(ix, ip, src, h) = [ix EXCEPT ![ip] = new]
  BY DEF setInfo, Index
<1> HIDE DEF old
<1>3. /\ new \in Runtimes /\ new[src] = h
      /\ \A s \in Fields \ {src} : new[s] = old[s]
  BY <1>1, RuntimeField
<1> HIDE DEF new
<1>4. new # Nil /\ ~isEmpty(new)
  BY <1>3, NilFacts, NotEmpty
<1>5. /\ [ix EXCEPT ![ip] = new] \in Index
      /\ [ix EXCEPT ![ip] = new][ip] = new
      /\ \A q \in IPs \ {ip} : [ix EXCEPT ![ip] = new][q] = ix[q]
  BY <1>3 DEF Index
<1>6. Filled(ix) => Filled([ix EXCEPT ![ip] = new])
  BY <1>4, <1>5 DEF Filled
<1>7. \A s \in Fields : Says([ix EXCEPT ![ip] = new], ip, s) = new[s]
  BY <1>4, <1>5 DEF Says
<1>8. \A q \in IPs \ {ip}, s \in Fields : Says([ix EXCEPT ![ip] = new], q, s) = Says(ix, q, s)
  BY <1>5 DEF Says
<1> QED
  BY <1>1, <1>2, <1>3, <1>5, <1>6, <1>7, <1>8

(* Replacing what a source says, as addFromHostsFile, addFromSystemARP and *)
(* UpdateDHCP do, leaves what the other sources say and no empty entry.    *)
LEMMA ReplaceSays ==
    ASSUME NEW ix \in Index, NEW src \in Fields \ {"whois"}, NEW tbl \in Table
    PROVE  /\ Replace(ix, src, tbl) \in Index
           /\ Filled(Replace(ix, src, tbl))
           /\ \A q \in IPs : Says(Replace(ix, src, tbl), q, src) = tbl[q]
           /\ \A q \in IPs, s \in Fields \ {src} :
                 Says(Replace(ix, src, tbl), q, s) = Says(ix, q, s)
<1> DEFINE c == clearSource(ix, src)
           d == [ip \in IPs |->
                   IF tbl[ip] = Nil THEN c[ip] ELSE setInfo(c, ip, src, tbl[ip])[ip]]
<1>1. /\ c \in Index
      /\ \A q \in IPs : Says(c, q, src) = Nil
      /\ \A q \in IPs, s \in Fields \ {src} : Says(c, q, s) = Says(ix, q, s)
  <2>1. \A q \in IPs : ix[q] # Nil => c[q] \in Runtimes
    BY RuntimeField DEF clearSource, Index, HostNames
  <2>2. c \in Index
    BY <2>1 DEF clearSource, Index
  <2>3. ASSUME NEW q \in IPs
        PROVE  Says(c, q, src) = Nil /\ \A s \in Fields \ {src} : Says(c, q, s) = Says(ix, q, s)
    <3>1. CASE ix[q] = Nil
      BY <3>1 DEF clearSource, Says
    <3>2. CASE ix[q] # Nil
      <4>1. ix[q] \in Runtimes /\ c[q] = [ix[q] EXCEPT ![src] = Nil]
        BY <3>2 DEF clearSource, Index
      <4>2. Nil \in HostNames /\ c[q] # Nil
        BY <2>1, <3>2, NilFacts DEF HostNames
      <4>3. c[q][src] = Nil /\ \A s \in Fields \ {src} : c[q][s] = ix[q][s]
        BY <4>1, <4>2, RuntimeField
      <4> QED
        BY <3>2, <4>2, <4>3 DEF Says
    <3> QED
      BY <3>1, <3>2
  <2> QED
    BY <2>2, <2>3
<1> HIDE DEF c
<1>2. ASSUME NEW q \in IPs
      PROVE  /\ d[q] \in Runtimes \cup {Nil}
             /\ Says(d, q, src) = tbl[q]
             /\ \A s \in Fields \ {src} : Says(d, q, s) = Says(ix, q, s)
  <2>1. CASE tbl[q] = Nil
    BY <1>1, <2>1 DEF Says, Index
  <2>2. CASE tbl[q] # Nil
    <3> DEFINE e == setInfo(c, q, src, tbl[q])
    <3>1. /\ e \in Index /\ Says(e, q, src) = tbl[q]
          /\ \A s \in Fields \ {src} : Says(e, q, s) = Says(c, q, s)
      BY <1>1, <2>2, SetInfoSays DEF Table
    <3>2. d[q] = e[q]
      BY <2>2
    <3> HIDE DEF e, d
    <3> QED
      BY <1>1, <3>1, <3>2 DEF Says, Index
  <2> QED
    BY <2>1, <2>2
<1>3. DOMAIN d = IPs /\ d = [q \in IPs |-> d[q]]
  OBVIOUS
<1>4. Replace(ix, src, tbl) = removeEmpty(d)
  BY DEF Replace, c
<1> HIDE DEF d
<1> DEFINE r == removeEmpty(d)
<1>5. \A q \in IPs : r[q] = IF d[q] # Nil /\ isEmpty(d[q]) THEN Nil ELSE d[q]
  BY DEF removeEmpty
<1>6. r \in Index
  BY <1>2 DEF removeEmpty, Index
<1>7. Filled(r)
  BY <1>5 DEF Filled
<1>8. \A q \in IPs, s \in Fields : Says(r, q, s) = Says(d, q, s)
  <2> TAKE q \in IPs, s \in Fields
  <2>1. CASE d[q] # Nil /\ isEmpty(d[q])
    <3>1. d[q][s] = Nil
      BY <1>2, <2>1, NotEmpty
    <3> QED
      BY <1>5, <2>1, <3>1 DEF Says
  <2>2. CASE ~(d[q] # Nil /\ isEmpty(d[q]))
    BY <1>5, <2>2 DEF Says
  <2> QED
    BY <2>1, <2>2
<1> QED
  BY <1>2, <1>4, <1>6, <1>7, <1>8

(* Storage.setWHOISInfo sets the WHOIS information of one address unless a *)
(* persistent client has it.                                               *)
LEMMA SetWHOISSays ==
    ASSUME NEW ix \in Index, NEW ip \in IPs, NEW info \in Infos
    PROVE  LET jx == setWHOISInfo(ix, ip, info)
           IN  /\ jx \in Index
               /\ Filled(ix) => Filled(jx)
               /\ info # Nil /\ ip \notin owned => Says(jx, ip, "whois") = info
               /\ info = Nil \/ ip \in owned => jx = ix
               /\ \A q \in IPs, s \in Fields :
                     q # ip \/ s # "whois" => Says(jx, q, s) = Says(ix, q, s)
<1>1. CASE info = Nil \/ ip \in owned
  BY <1>1 DEF setWHOISInfo
<1>2. CASE info # Nil /\ ip \notin owned
  <2> DEFINE old == IF ix[ip] = Nil THEN NewRuntime ELSE ix[ip]
             new == [old EXCEPT !.whois = info]
  <2>1. old \in Runtimes /\ \A s \in Fields : Says(ix, ip, s) = old[s]
    BY NewRuntimeType DEF Index, Says
  <2>2. setWHOISInfo(ix, ip, info) = [ix EXCEPT ![ip] = new]
    BY <1>2 DEF setWHOISInfo, Index
  <2> HIDE DEF old
  <2>3. /\ new \in Runtimes /\ new["whois"] = info
        /\ \A s \in Fields \ {"whois"} : new[s] = old[s]
    BY <2>1 DEF Runtimes, Fields
  <2> HIDE DEF new
  <2>4. new # Nil /\ ~isEmpty(new)
    BY <1>2, <2>3, NilFacts, NotEmpty DEF Fields
  <2>5. /\ [ix EXCEPT ![ip] = new] \in Index
        /\ [ix EXCEPT ![ip] = new][ip] = new
        /\ \A q \in IPs \ {ip} : [ix EXCEPT ![ip] = new][q] = ix[q]
    BY <2>3 DEF Index
  <2>6. Filled(ix) => Filled([ix EXCEPT ![ip] = new])
    BY <2>4, <2>5 DEF Filled
  <2>7. \A s \in Fields : Says([ix EXCEPT ![ip] = new], ip, s) = new[s]
    BY <2>4, <2>5 DEF Says
  <2>8. \A q \in IPs \ {ip}, s \in Fields : Says([ix EXCEPT ![ip] = new], q, s) = Says(ix, q, s)
    BY <2>5 DEF Says
  <2>9. "whois" \in Fields
    BY DEF Fields
  <2> QED
    BY ZenonT(30), <1>2, <2>1, <2>2, <2>3, <2>5, <2>6, <2>7, <2>8, <2>9
<1> QED
  BY <1>1, <1>2

(* Runtime.Info prefers the hosts file, and then DHCP.                     *)
LEMMA InfoPriority ==
    ASSUME NEW rc \in Runtimes
    PROVE  /\ rc.hosts # Nil => Info(rc) = rc.hosts
           /\ rc.hosts = Nil /\ rc.dhcp # Nil => Info(rc) = rc.dhcp
<1> DEFINE known == {i \in 1..4 : rc[Sources[i]] # Nil}
<1>1. Info(rc) = IF known = {} THEN "" ELSE rc[Sources[Min(known)]]
  BY DEF Info
<1>2. /\ 1 \in known <=> rc.hosts # Nil
      /\ 2 \in known <=> rc.dhcp # Nil
      /\ known \subseteq 1..4
  BY DEF Sources
<1> HIDE DEF known
<1>h. rc[Sources[1]] = rc.hosts /\ rc[Sources[2]] = rc.dhcp
  BY DEF Sources
<1>3. ASSUME NEW k \in known, \A i \in known : k <= i
      PROVE  Min(known) = k
  <2>1. \A j \in known : (\A i \in known : j <= i) => j = k
    BY <1>2, <1>3
  <2> QED
    BY <1>3, <2>1 DEF Min
<1>4. CASE rc.hosts # Nil
  <2>1. Min(known) = 1
    BY <1>2, <1>3, <1>4
  <2> QED
    BY <1>1, <1>2, <1>4, <1>h, <2>1
<1>5. CASE rc.hosts = Nil /\ rc.dhcp # Nil
  <2>1. Min(known) = 2
    BY <1>2, <1>3, <1>5
  <2> QED
    BY <1>1, <1>2, <1>5, <1>h, <2>1
<1> QED
  BY <1>4, <1>5
-----------------------------------------------------------------------------
Lines == [IPs -> Names \cup {Nil}]
Job == [pc : {"idle", "rdns", "whois", "update"}, ip : IPs \cup {Nil},
        host : Names \cup {""}, info : Infos]
Processor == [state : {"none", "open", "closed"}, queue : Seq(IPs), job : Job,
              rdns : Table, whois : [IPs -> Infos]]
HostsState == [file : Lines, told : BOOLEAN, raw : BOOLEAN, event : BOOLEAN,
               current : Lines, upd : Lines \cup {Nil}]

(* A job has an address until it is done, and its answers come one by one. *)
InOrder(j) ==
    \/ j = NoJob
    \/ /\ j.pc \in {"rdns", "whois", "update"} /\ j.ip \in IPs
       /\ j.pc = "rdns" => j.host = ""
       /\ j.pc # "update" => j.info = Nil

TypeInv ==
    /\ rt \in Index /\ dhcp \in Lines /\ applied \in Lines /\ hosts \in HostsState
    /\ proc \in [Procs -> Processor] /\ current \in Procs
    /\ \A p \in Procs : InOrder(proc[p].job)

(* The index has what addFromHostsFile was given last, and no empty entry. *)
NamesInv == Filled(rt) /\ \A ip \in IPs : Says(rt, ip, "hosts") = applied[ip]

(* What the cache of a processor holds of an address is the name that its  *)
(* job is about to hand to the index, or the one the index has; the same   *)
(* for the WHOIS information, unless it was ignored.                       *)
RdnsShown(p, ix, ip) ==
    p.rdns[ip] \notin {Nil, ""} =>
        IF p.job.ip = ip /\ p.job.host # "" THEN p.job.host = p.rdns[ip]
        ELSE Says(ix, ip, "rdns") = p.rdns[ip]

WhoisShown(p, ix, ip, ig) ==
    p.whois[ip] \notin {Nil, NoInfo} =>
        IF p.job.ip = ip /\ p.job.info # Nil THEN p.job.info = p.whois[ip]
        ELSE ip \in ig \/ Says(ix, ip, "whois") = p.whois[ip]

(* The processors that have not been opened have done nothing, and the     *)
(* caches of the current one are shown.                                    *)
CacheInv ==
    /\ \A p \in Procs : p > current => proc[p] = NoProc
    /\ \A ip \in IPs \ mixed :
          /\ RdnsShown(proc[current], rt, ip)
          /\ WhoisShown(proc[current], rt, ip, ignored)
(* The address processors are numbered from 1.                             *)
LEMMA ProcsFacts == 1 \in Procs /\ Procs \subseteq Nat
<1>1. PICK n \in Nat \ {0} : n = Cardinality(Procs)
  BY ConstantsAssumption
<1>2. Procs = 1..n
  BY <1>1, ConstantsAssumption
<1> QED
  BY <1>2

(* What an address processor knows at each step of a job.                  *)
LEMMA JobAt ==
    ASSUME NEW j, InOrder(j), j.pc \in {"rdns", "whois", "update"}
    PROVE  /\ j.ip \in IPs
           /\ j.pc = "rdns" => j.host = "" /\ j.info = Nil
           /\ j.pc = "whois" => j.info = Nil
<1>0. NoJob.pc = "idle"
  BY DEF NoJob
<1>1. j # NoJob
  BY <1>0
<1> QED
  BY <1>1 DEF InOrder

(* A processor without a job, and one that was not opened, hold nothing.   *)
LEMMA NoJobFacts ==
    /\ NoJob \in Job /\ InOrder(NoJob)
    /\ NoJob.ip = Nil /\ NoJob.host = "" /\ NoJob.info = Nil
    /\ NoProc \in Processor /\ NoProc.job = NoJob
    /\ \A ip \in IPs : NoProc.rdns[ip] = Nil /\ NoProc.whois[ip] = Nil
<1>1. NoJob \in Job /\ InOrder(NoJob) /\ NoJob.ip = Nil /\ NoJob.host = "" /\ NoJob.info = Nil
  BY DEF NoJob, Job, InOrder, Infos
<1>2. /\ [ip \in IPs |-> Nil] \in Table /\ [ip \in IPs |-> Nil] \in [IPs -> Infos]
      /\ <<>> \in Seq(IPs)
  BY DEF Table, HostNames, Infos
<1>3. NoProc \in Processor
  BY <1>1, <1>2 DEF NoProc, Processor
<1> QED
  BY <1>1, <1>3 DEF NoProc

(* addrproc.go, process: the next address of the queue.                    *)
LEMMA TakeStep ==
    ASSUME TypeInv, NEW p \in Procs, Take(p)
    PROVE  \E r \in Processor :
              /\ proc' = [proc EXCEPT ![p] = r]
              /\ InOrder(r.job) /\ r.job.ip \in IPs /\ r.job.host = "" /\ r.job.info = Nil
              /\ proc[p].job = NoJob /\ r.rdns = proc[p].rdns /\ r.whois = proc[p].whois
<1> DEFINE j == [NoJob EXCEPT !.pc = "rdns", !.ip = Head(proc[p].queue)]
           r == [proc[p] EXCEPT !.queue = Tail(@), !.job = j]
<1>1. proc[p] \in Processor /\ proc[p].queue \in Seq(IPs) /\ proc[p].queue # <<>>
  BY DEF TypeInv, Take, Processor
<1>2. Head(proc[p].queue) \in IPs /\ Tail(proc[p].queue) \in Seq(IPs)
  BY <1>1
<1>3. j \in Job /\ InOrder(j) /\ j.ip \in IPs /\ j.host = "" /\ j.info = Nil
  BY <1>2 DEF NoJob, Job, InOrder, Infos
<1>4. proc' = [proc EXCEPT ![p] = r]
  BY DEF Take, TypeInv
<1>5. proc[p].job = NoJob
  BY DEF Take
<1> HIDE DEF j
<1>6. r \in Processor /\ r.job = j /\ r.rdns = proc[p].rdns /\ r.whois = proc[p].whois
  BY <1>1, <1>2, <1>3 DEF Processor
<1> QED
  BY <1>3, <1>4, <1>5, <1>6

(* rdns.go, Process: a new answer goes to the cache, and is passed on      *)
(* unless it is the one the cache had.                                     *)
LEMMA RdnsStep ==
    ASSUME TypeInv, NEW p \in Procs, processRDNS(p)
    PROVE  \E r \in Processor :
              /\ proc' = [proc EXCEPT ![p] = r]
              /\ InOrder(r.job) /\ r.job.ip = proc[p].job.ip /\ r.job.info = Nil
              /\ proc[p].job.ip \in IPs /\ proc[p].job.host = "" /\ proc[p].job.info = Nil
              /\ \A ip \in IPs \ {r.job.ip} : r.rdns[ip] = proc[p].rdns[ip]
              /\ r.whois = proc[p].whois
              /\ \/ r.rdns[r.job.ip] = r.job.host
                 \/ r.rdns[r.job.ip] = "" /\ r.job.host = ""
                 \/ r.rdns[r.job.ip] = proc[p].rdns[r.job.ip] /\ r.job.host = ""
<1> DEFINE ip == proc[p].job.ip
           old == proc[p].rdns[ip]
<1>1. /\ proc[p] \in Processor /\ proc[p].job \in Job /\ proc[p].rdns \in Table
      /\ proc[p].job.pc = "rdns"
  BY DEF TypeInv, processRDNS, Processor
<1>2. ip \in IPs /\ proc[p].job.host = "" /\ proc[p].job.info = Nil
  BY <1>1, JobAt DEF TypeInv
<1>3. PICK host \in Exchange(ip), expired \in BOOLEAN :
        LET a == IF shouldResolve(ip) THEN RdnsProcess(old, expired, host)
                 ELSE [cache |-> old, host |-> ""]
        IN  proc' = [proc EXCEPT ![p].rdns[ip] = a.cache, ![p].job.host = a.host,
                                 ![p].job.pc = "whois"]
  BY DEF processRDNS
<1> DEFINE a == IF shouldResolve(ip) THEN RdnsProcess(old, expired, host)
                ELSE [cache |-> old, host |-> ""]
<1>4. host \in Names \cup {""} /\ old \in HostNames
  BY <1>1, <1>2 DEF Exchange, Table
<1>5. /\ a.cache \in HostNames /\ a.host \in Names \cup {""}
      /\ \/ a.cache = a.host
         \/ a.cache = "" /\ a.host = ""
         \/ a.cache = old /\ a.host = ""
  <2>1. CASE shouldResolve(ip) /\ ~(old # Nil /\ ~expired)
    <3>1. a = [cache |-> host,
               host |-> IF RdnsChanged(IF old = Nil THEN "" ELSE old, host) THEN host ELSE ""]
      BY <2>1 DEF RdnsProcess
    <3> HIDE DEF a, old
    <3>2. CASE RdnsChanged(IF old = Nil THEN "" ELSE old, host)
      BY <1>4, <3>1, <3>2 DEF HostNames
    <3>3. CASE ~RdnsChanged(IF old = Nil THEN "" ELSE old, host)
      <4>1. host = old
        BY <3>3 DEF RdnsChanged
      <4> QED
        BY <1>4, <3>1, <3>3, <4>1 DEF HostNames
    <3> QED
      BY <3>2, <3>3
  <2>2. CASE ~(shouldResolve(ip) /\ ~(old # Nil /\ ~expired))
    <3>1. a = [cache |-> old, host |-> ""]
      BY <2>2 DEF RdnsProcess
    <3> HIDE DEF a, old
    <3> QED
      BY <1>4, <3>1
  <2> QED
    BY <2>1, <2>2
<1>6. PICK c \in HostNames, h \in Names \cup {""} : c = a.cache /\ h = a.host
  BY <1>5
<1> DEFINE r == [proc[p] EXCEPT !.rdns[ip] = c, !.job.host = h, !.job.pc = "whois"]
<1>7. proc' = [proc EXCEPT ![p] = r]
  <2>1. proc' = [proc EXCEPT ![p].rdns[ip] = a.cache, ![p].job.host = a.host,
                             ![p].job.pc = "whois"]
    BY <1>3
  <2> HIDE DEF a
  <2> QED
    BY ZenonT(30), <1>6, <2>1 DEF TypeInv
<1>8. /\ r \in Processor /\ r.job.ip = ip /\ r.job.host = h /\ r.job.pc = "whois"
      /\ r.job.info = Nil /\ r.rdns[ip] = c /\ r.whois = proc[p].whois
      /\ \A q \in IPs \ {ip} : r.rdns[q] = proc[p].rdns[q]
  <2>1. [proc[p].rdns EXCEPT ![ip] = c] \in Table
    BY <1>1, <1>2, <1>6 DEF Table
  <2>2. /\ [proc[p].job EXCEPT !.host = h, !.pc = "whois"] \in Job
        /\ [proc[p].job EXCEPT !.host = h, !.pc = "whois"].host = h
        /\ [proc[p].job EXCEPT !.host = h, !.pc = "whois"].pc = "whois"
        /\ [proc[p].job EXCEPT !.host = h, !.pc = "whois"].ip = ip
        /\ [proc[p].job EXCEPT !.host = h, !.pc = "whois"].info = Nil
    BY <1>1, <1>2, <1>6 DEF Job
  <2>3. r = [proc[p] EXCEPT !.rdns = [proc[p].rdns EXCEPT ![ip] = c],
                            !.job = [proc[p].job EXCEPT !.host = h, !.pc = "whois"]]
    BY <1>1 DEF Processor, Job
  <2>4. /\ [proc[p].rdns EXCEPT ![ip] = c][ip] = c
        /\ \A q \in IPs \ {ip} : [proc[p].rdns EXCEPT ![ip] = c][q] = proc[p].rdns[q]
    BY <1>1, <1>2 DEF Table
  <2> QED
    BY <1>1, <2>1, <2>2, <2>3, <2>4 DEF Processor
<1>9. InOrder(r.job)
  BY <1>2, <1>8 DEF InOrder
<1> HIDE DEF r, a
<1> QED
  BY ZenonT(30), <1>2, <1>5, <1>6, <1>7, <1>8, <1>9

(* whois.go, requestInfo: likewise.                                        *)
LEMMA WhoisStep ==
    ASSUME TypeInv, NEW p \in Procs, processWHOIS(p)
    PROVE  \E r \in Processor :
              /\ proc' = [proc EXCEPT ![p] = r]
              /\ InOrder(r.job) /\ r.job.ip = proc[p].job.ip /\ r.job.host = proc[p].job.host
              /\ proc[p].job.ip \in IPs /\ proc[p].job.info = Nil
              /\ \A ip \in IPs \ {r.job.ip} : r.whois[ip] = proc[p].whois[ip]
              /\ r.rdns = proc[p].rdns
              /\ \/ r.whois[r.job.ip] = r.job.info
                 \/ r.whois[r.job.ip] = NoInfo /\ r.job.info = Nil
                 \/ r.whois[r.job.ip] = proc[p].whois[r.job.ip] /\ r.job.info = Nil
<1> DEFINE ip == proc[p].job.ip
           old == proc[p].whois[ip]
<1>1. /\ proc[p] \in Processor /\ proc[p].job \in Job /\ proc[p].whois \in [IPs -> Infos]
      /\ proc[p].job.pc = "whois"
  BY DEF TypeInv, processWHOIS, Processor
<1>2. ip \in IPs /\ proc[p].job.info = Nil
  BY <1>1, JobAt DEF TypeInv
<1>3. PICK chain \in Chains, expired \in BOOLEAN :
        LET w == WhoisProcess(ip, old, expired, chain)
        IN  proc' = [proc EXCEPT ![p].whois[ip] = w.cache, ![p].job.info = w.info,
                                 ![p].job.pc = "update"]
  BY DEF processWHOIS
<1> DEFINE w == WhoisProcess(ip, old, expired, chain)
<1>4. old \in Infos /\ Answers[chain] \in Infos /\ NoInfo \in Infos /\ Nil \in Infos
  BY <1>1, <1>2 DEF Infos
<1>5. /\ w.cache \in Infos /\ w.info \in Infos
      /\ \/ w.cache = w.info
         \/ w.cache = NoInfo /\ w.info = Nil
         \/ w.cache = old /\ w.info = Nil
  <2>1. CASE ip \in Special \/ (old # Nil /\ ~expired)
    <3>1. w = [cache |-> old, info |-> Nil]
      BY <2>1 DEF WhoisProcess
    <3> QED
      BY <1>4, <3>1
  <2>2. CASE ~(ip \in Special \/ (old # Nil /\ ~expired))
    <3> DEFINE info == IF Answers[chain] = Nil THEN NoInfo ELSE Answers[chain]
    <3>1. w = [cache |-> info,
               info |-> IF info = NoInfo \/ info = old THEN Nil ELSE info]
      BY <2>2 DEF WhoisProcess, requestInfo
    <3>2. info \in Infos
      BY <1>4
    <3> HIDE DEF info
    <3> QED
      BY <1>4, <3>1, <3>2
  <2> QED
    BY <2>1, <2>2
<1>6. PICK c \in Infos, h \in Infos : c = w.cache /\ h = w.info
  BY <1>5
<1> DEFINE r == [proc[p] EXCEPT !.whois[ip] = c, !.job.info = h, !.job.pc = "update"]
<1>7. proc' = [proc EXCEPT ![p] = r]
  <2>1. proc' = [proc EXCEPT ![p].whois[ip] = w.cache, ![p].job.info = w.info,
                             ![p].job.pc = "update"]
    BY <1>3
  <2> HIDE DEF w
  <2> QED
    BY <1>6, <2>1 DEF TypeInv
<1>8. /\ r \in Processor /\ r.job.ip = ip /\ r.job.info = h /\ r.job.pc = "update"
      /\ r.job.host = proc[p].job.host /\ r.whois[ip] = c /\ r.rdns = proc[p].rdns
      /\ \A q \in IPs \ {ip} : r.whois[q] = proc[p].whois[q]
  <2> DEFINE k == [proc[p].job EXCEPT !.info = h, !.pc = "update"]
             f == [proc[p].whois EXCEPT ![ip] = c]
  <2>1. f \in [IPs -> Infos] /\ f[ip] = c /\ \A q \in IPs \ {ip} : f[q] = proc[p].whois[q]
    BY <1>1, <1>2, <1>6
  <2>2. /\ k \in Job /\ k.host = proc[p].job.host /\ k.pc = "update"
        /\ k.ip = ip /\ k.info = h
    BY <1>1, <1>6 DEF Job
  <2>3. r = [proc[p] EXCEPT !.whois = f, !.job = k]
    BY <1>1 DEF Processor, Job
  <2> HIDE DEF k, f
  <2>4. [proc[p] EXCEPT !.whois = f, !.job = k] \in Processor
    BY <1>1, <2>1, <2>2 DEF Processor
  <2>5. r.job = k /\ r.whois = f /\ r.rdns = proc[p].rdns
    BY <1>1, <2>3 DEF Processor
  <2> HIDE DEF r
  <2> QED
    BY <2>1, <2>2, <2>3, <2>4, <2>5
<1>9. InOrder(r.job)
  BY <1>2, <1>8 DEF InOrder
<1>10. \/ r.whois[r.job.ip] = r.job.info
       \/ r.whois[r.job.ip] = NoInfo /\ r.job.info = Nil
       \/ r.whois[r.job.ip] = proc[p].whois[r.job.ip] /\ r.job.info = Nil
  <2> HIDE DEF r, w
  <2> QED
    BY <1>5, <1>6, <1>8
<1> HIDE DEF r, w
<1> QED
  BY <1>2, <1>7, <1>8, <1>9, <1>10
(* What ARP sources say is a table of names.                               *)
LEMMA NeighborsType == \A lines : ParseNeighbors(lines) \in Table
<1> TAKE lines
<1> DEFINE names(ip) == {l.host : l \in {m \in lines : m.ip = ip}}
           entry(ip) == IF names(ip) = {} THEN Nil
                        ELSE IF names(ip) \subseteq Names THEN CHOOSE h \in names(ip) : TRUE ELSE ""
<1>1. ParseNeighbors(lines) = [ip \in IPs |-> entry(ip)]
  BY DEF ParseNeighbors
<1>2. ASSUME NEW S
      PROVE  (IF S = {} THEN Nil
              ELSE IF S \subseteq Names THEN CHOOSE h \in S : TRUE ELSE "") \in HostNames
  BY DEF HostNames
<1>3. \A ip \in IPs : entry(ip) \in HostNames
  BY <1>2
<1> HIDE DEF entry
<1> QED
  BY <1>1, <1>3 DEF Table

(* Leases and hosts files are tables of names.                             *)
LEMMA LinesAreTable == Lines \subseteq Table
BY DEF Lines, Table, HostNames

(* The index after UpdateAddress(p).                                       *)
Handed(p) ==
    LET j == proc[p].job
        named == IF j.host = "" THEN rt ELSE setInfo(rt, j.ip, "rdns", j.host)
    IN  setWHOISInfo(named, j.ip, j.info)

(* Storage.UpdateAddress: the entry of the job's address has the name and  *)
(* the information the job brings.                                         *)
LEMMA HandedSays ==
    ASSUME TypeInv, NEW p \in Procs, proc[p].job.pc = "update"
    PROVE  LET j == proc[p].job IN
           /\ j.ip \in IPs
           /\ Handed(p) \in Index
           /\ Filled(rt) => Filled(Handed(p))
           /\ j.host # "" => Says(Handed(p), j.ip, "rdns") = j.host
           /\ j.host = "" => Says(Handed(p), j.ip, "rdns") = Says(rt, j.ip, "rdns")
           /\ j.info # Nil /\ j.ip \notin owned => Says(Handed(p), j.ip, "whois") = j.info
           /\ j.info = Nil => Says(Handed(p), j.ip, "whois") = Says(rt, j.ip, "whois")
           /\ \A q \in IPs, s \in Fields :
                 q # j.ip \/ s \notin {"rdns", "whois"} => Says(Handed(p), q, s) = Says(rt, q, s)
<1> DEFINE j == proc[p].job
           named == IF j.host = "" THEN rt ELSE setInfo(rt, j.ip, "rdns", j.host)
<1>1. j \in Job /\ InOrder(j) /\ rt \in Index
  BY DEF TypeInv, Processor
<1>2. j.ip \in IPs
  BY <1>1, JobAt
<1>3. /\ j.host \in Names \cup {""} /\ j.info \in Infos
      /\ j.host # "" => j.host \in HostNames \ {Nil}
  BY <1>1, NilFacts DEF Job, HostNames
<1>4. {"rdns", "whois"} \subseteq Fields
  BY DEF Fields
<1> HIDE DEF j
<1>5. /\ named \in Index
      /\ Filled(rt) => Filled(named)
      /\ j.host # "" => Says(named, j.ip, "rdns") = j.host
      /\ j.host = "" => named = rt
      /\ \A q \in IPs, s \in Fields : q # j.ip \/ s # "rdns" => Says(named, q, s) = Says(rt, q, s)
  <2>1. CASE j.host = ""
    BY <1>1, <2>1
  <2>2. CASE j.host # ""
    <3>1. PICK ip \in IPs, h \in HostNames \ {Nil} : ip = j.ip /\ h = j.host
      BY <1>2, <1>3, <2>2
    <3>2. named = setInfo(rt, ip, "rdns", h) /\ "rdns" \in Fields \ {"whois"}
      BY <1>4, <2>2, <3>1
    <3> HIDE DEF named
    <3>3. /\ named \in Index
          /\ Filled(rt) => Filled(named)
          /\ Says(named, ip, "rdns") = h
          /\ \A q \in IPs, s \in Fields : q # ip \/ s # "rdns" => Says(named, q, s) = Says(rt, q, s)
      BY <1>1, <3>2, SetInfoSays
    <3> QED
      BY <2>2, <3>1, <3>3
  <2> QED
    BY <2>1, <2>2
<1>6. Handed(p) = setWHOISInfo(named, j.ip, j.info)
  BY DEF Handed, j
<1> HIDE DEF named
<1>7. /\ Handed(p) \in Index
      /\ Filled(named) => Filled(Handed(p))
      /\ j.info # Nil /\ j.ip \notin owned => Says(Handed(p), j.ip, "whois") = j.info
      /\ j.info = Nil => Handed(p) = named
      /\ \A q \in IPs, s \in Fields :
            q # j.ip \/ s # "whois" => Says(Handed(p), q, s) = Says(named, q, s)
  <2>1. PICK ip \in IPs, info \in Infos, ix \in Index : ip = j.ip /\ info = j.info /\ ix = named
    BY <1>2, <1>3, <1>5
  <2>2. Handed(p) = setWHOISInfo(ix, ip, info)
    BY <1>6, <2>1
  <2>3. /\ Handed(p) \in Index
        /\ Filled(ix) => Filled(Handed(p))
        /\ info # Nil /\ ip \notin owned => Says(Handed(p), ip, "whois") = info
        /\ info = Nil \/ ip \in owned => Handed(p) = ix
        /\ \A q \in IPs, s \in Fields :
              q # ip \/ s # "whois" => Says(Handed(p), q, s) = Says(ix, q, s)
    BY <2>2, SetWHOISSays
  <2> QED
    BY <2>1, <2>3
<1>8. Says(Handed(p), j.ip, "rdns") = Says(named, j.ip, "rdns")
  BY <1>2, <1>4, <1>7
<1>9. \A q \in IPs, s \in Fields :
         q # j.ip \/ s \notin {"rdns", "whois"} => Says(Handed(p), q, s) = Says(rt, q, s)
  BY <1>5, <1>7
<1>10. j.info = Nil => Says(Handed(p), j.ip, "whois") = Says(rt, j.ip, "whois")
  BY <1>2, <1>4, <1>5, <1>7
<1> QED
  BY <1>2, <1>5, <1>7, <1>8, <1>9, <1>10 DEF j

(* Storage.ClientRuntime: a lookup may take the name of the lease over.    *)
LEMMA LookupSays ==
    ASSUME TypeInv, NEW ip \in IPs
    PROVE  /\ ClientRuntime(ip) \in Index
           /\ Filled(rt) => Filled(ClientRuntime(ip))
           /\ \A q \in IPs, s \in Fields \ {"dhcp"} : Says(ClientRuntime(ip), q, s) = Says(rt, q, s)
<1> DEFINE same == \/ ~RuntimeSourceDHCP
                   \/ rt[ip] # Nil /\ rt[ip].hosts # Nil
                   \/ dhcp[ip] = Nil
<1>1. ClientRuntime(ip) = IF same THEN rt ELSE setInfo(rt, ip, "dhcp", dhcp[ip])
  BY DEF ClientRuntime
<1>2. CASE same
  BY <1>1, <1>2 DEF TypeInv
<1>3. CASE ~same
  <2>1. rt \in Index /\ dhcp[ip] \in HostNames \ {Nil}
    BY <1>3 DEF TypeInv, Lines, HostNames
  <2>2. "dhcp" \in Fields \ {"whois"}
    BY DEF Fields
  <2> QED
    BY <1>1, <1>3, <2>1, <2>2, SetInfoSays
<1> QED
  BY <1>2, <1>3

(* Every step leaves the index alone, lets a processor hand over what its  *)
(* job has found, or changes what one of hosts, ARP and DHCP says.         *)
LEMMA IndexSteps ==
    ASSUME TypeInv, Next
    PROVE  /\ rt' \in Index
           /\ Filled(rt) => Filled(rt')
           /\ \/ /\ \A q \in IPs, s \in Fields \ {"arp", "dhcp"} : Says(rt', q, s) = Says(rt, q, s)
                 /\ applied' = applied
                 /\ UNCHANGED <<ignored, mixed>>
              \/ /\ \A q \in IPs : Says(rt', q, "hosts") = applied'[q]
                 /\ \A q \in IPs, s \in {"rdns", "whois"} : Says(rt', q, s) = Says(rt, q, s)
                 /\ applied' \in Lines
                 /\ UNCHANGED <<proc, current, ignored, mixed>>
              \/ \E p \in Procs : UpdateAddress(p) /\ rt' = Handed(p) /\ applied' = applied
<1>f. {"hosts", "dhcp", "arp"} \subseteq Fields \ {"whois"} /\ {"rdns", "whois"} \subseteq Fields
  BY DEF Fields
<1>0. ASSUME UNCHANGED <<rt, applied, ignored, mixed>>
      PROVE  /\ rt' \in Index
             /\ Filled(rt) => Filled(rt')
             /\ \A q \in IPs, s \in Fields \ {"arp", "dhcp"} : Says(rt', q, s) = Says(rt, q, s)
             /\ applied' = applied /\ UNCHANGED <<ignored, mixed>>
  BY <1>0 DEF TypeInv
<1>1. ASSUME NEW ip \in IPs, Process(ip) \/ PersistentChanges(ip) PROVE UNCHANGED <<rt, applied, ignored, mixed>>
  BY <1>1 DEF Process, PersistentChanges
<1>2. CASE \E ip \in IPs : LookupRuntime(ip)
  <2>1. PICK ip \in IPs : LookupRuntime(ip)
    BY <1>2
  <2>2. rt' = ClientRuntime(ip) /\ applied' = applied /\ UNCHANGED <<ignored, mixed>>
    BY <2>1 DEF LookupRuntime
  <2> QED
    BY <2>2, LookupSays
<1>3. ASSUME NEW ip \in IPs, NEW h \in Names \cup {Nil}, LeaseChanges(ip, h)
      PROVE  UNCHANGED <<rt, applied, ignored, mixed>>
  BY <1>3 DEF LeaseChanges
<1>4. CASE Reconfigure
  BY <1>0, <1>4 DEF Reconfigure
<1>5. ASSUME NEW p \in Procs, Take(p) \/ processRDNS(p) \/ processWHOIS(p)
      PROVE  UNCHANGED <<rt, applied, ignored, mixed>>
  BY <1>5 DEF Take, processRDNS, processWHOIS
<1>6. CASE \E p \in Procs : UpdateAddress(p)
  <2>1. PICK p \in Procs : UpdateAddress(p)
    BY <1>6
  <2>2. rt' = Handed(p) /\ applied' = applied /\ proc[p].job.pc = "update"
    BY <2>1 DEF UpdateAddress, Handed
  <2> QED
    BY <2>1, <2>2, HandedSays
<1>7. ASSUME NEW c \in Contents, WriteHosts(c) PROVE UNCHANGED <<rt, applied, ignored, mixed>>
  BY <1>7 DEF WriteHosts
<1>8. CASE WatchEvents \/ RefreshHosts
  BY <1>0, <1>8 DEF WatchEvents, RefreshHosts
<1>9. CASE addFromHostsFile
  <2>1. hosts.upd \in Lines /\ hosts.upd \in Table
    BY <1>9, LinesAreTable DEF addFromHostsFile, TypeInv, HostsState
  <2>2. /\ rt' = Replace(rt, "hosts", hosts.upd) /\ applied' = hosts.upd
        /\ UNCHANGED <<proc, current, ignored, mixed>>
    BY <1>9 DEF addFromHostsFile
  <2>3. /\ rt' \in Index /\ Filled(rt')
        /\ \A q \in IPs : Says(rt', q, "hosts") = hosts.upd[q]
        /\ \A q \in IPs, s \in Fields \ {"hosts"} : Says(rt', q, s) = Says(rt, q, s)
    BY <1>f, <2>1, <2>2, ReplaceSays DEF TypeInv
  <2> QED
    BY <1>f, <2>1, <2>2, <2>3
<1>10. CASE ReloadARP
  <2>1. applied' = applied /\ UNCHANGED <<ignored, mixed>>
    BY <1>10 DEF ReloadARP
  <2>2. rt' = rt \/ \E tbl \in Table : rt' = Replace(rt, "arp", tbl)
    BY <1>10, NeighborsType DEF ReloadARP
  <2>3. ASSUME NEW tbl \in Table, rt' = Replace(rt, "arp", tbl)
        PROVE  /\ rt' \in Index /\ Filled(rt')
               /\ \A q \in IPs, s \in Fields \ {"arp"} : Says(rt', q, s) = Says(rt, q, s)
    BY <1>f, <2>3, ReplaceSays DEF TypeInv
  <2> QED
    BY <1>0, <2>1, <2>2, <2>3
<1>11. CASE UpdateDHCP
  <2>1. /\ applied' = applied /\ UNCHANGED <<ignored, mixed>>
        /\ rt' = Replace(rt, "dhcp", dhcp) /\ dhcp \in Table
    BY <1>11, LinesAreTable DEF UpdateDHCP, TypeInv
  <2>2. /\ rt' \in Index /\ Filled(rt')
        /\ \A q \in IPs, s \in Fields \ {"dhcp"} : Says(rt', q, s) = Says(rt, q, s)
    BY <1>f, <2>1, ReplaceSays DEF TypeInv
  <2> QED
    BY <2>1, <2>2
<1> QED
  <2>1. \/ UNCHANGED <<rt, applied, ignored, mixed>>
        \/ \E ip \in IPs : LookupRuntime(ip)
        \/ Reconfigure \/ \E p \in Procs : UpdateAddress(p)
        \/ WatchEvents \/ RefreshHosts \/ addFromHostsFile \/ ReloadARP \/ UpdateDHCP
    BY <1>1, <1>3, <1>5, <1>7 DEF Next, ProcStep
  <2> QED
    BY <1>0, <1>2, <1>4, <1>6, <1>8, <1>9, <1>10, <1>11, <2>1
(* How a step changes the address processors: none, the queue or the state *)
(* of some, a step of one job, or the end of it.                           *)
LEMMA ProcSteps ==
    ASSUME TypeInv, Next
    PROVE  /\ proc' \in [Procs -> Processor] /\ current' \in Procs
           /\ \A p \in Procs : InOrder(proc'[p].job)
           /\ \/ /\ \A p \in Procs : /\ proc'[p].job = proc[p].job
                                     /\ proc'[p].rdns = proc[p].rdns
                                     /\ proc'[p].whois = proc[p].whois
                 /\ \A p \in Procs : p > current' => proc'[p] = proc[p]
                 /\ current' \in {current, current + 1}
              \/ \E p \in Procs : Take(p) \/ processRDNS(p) \/ processWHOIS(p) \/ UpdateAddress(p)
           /\ current' # current => UNCHANGED <<rt, ignored, mixed>>
<1> DEFINE Kept == /\ proc' \in [Procs -> Processor] /\ current' \in Procs
                   /\ \A p \in Procs : /\ proc'[p].job = proc[p].job
                                       /\ proc'[p].rdns = proc[p].rdns
                                       /\ proc'[p].whois = proc[p].whois
                   /\ \A p \in Procs : p > current' => proc'[p] = proc[p]
                   /\ current' \in {current, current + 1}
                   /\ current' # current => UNCHANGED <<rt, ignored, mixed>>
<1>0. ASSUME UNCHANGED <<proc, current>> PROVE Kept
  BY <1>0 DEF TypeInv
<1>1. ASSUME NEW ip \in IPs, Process(ip) PROVE Kept
  <2> DEFINE r == [proc[current] EXCEPT !.queue = Append(@, ip)]
  <2>1. proc[current] \in Processor /\ current \in Procs /\ current' = current
    BY <1>1 DEF TypeInv, Process
  <2>2. proc' = [proc EXCEPT ![current] = r]
    BY <1>1 DEF Process, TypeInv
  <2>3. /\ r \in Processor /\ r.job = proc[current].job /\ r.rdns = proc[current].rdns
        /\ r.whois = proc[current].whois
    <3>1. proc[current].queue \in Seq(IPs)
      BY <2>1 DEF Processor
    <3>2. Append(proc[current].queue, ip) \in Seq(IPs)
      BY <3>1
    <3> QED
      BY <2>1, <3>2 DEF Processor
  <2> HIDE DEF r
  <2>4. \A p \in Procs : p # current => proc'[p] = proc[p]
    BY <2>2 DEF TypeInv
  <2>5. \A p \in Procs : p > current' => proc'[p] = proc[p]
    BY <2>1, <2>4, ProcsFacts
  <2>6. proc' \in [Procs -> Processor] /\ proc'[current] = r
    BY <2>1, <2>2, <2>3 DEF TypeInv
  <2> QED
    BY <2>1, <2>3, <2>4, <2>5, <2>6
<1>2. ASSUME NEW ip \in IPs, PersistentChanges(ip) \/ LookupRuntime(ip)
      PROVE  UNCHANGED <<proc, current>>
  BY <1>2 DEF PersistentChanges, LookupRuntime
<1>3. ASSUME NEW ip \in IPs, NEW h \in Names \cup {Nil}, LeaseChanges(ip, h)
      PROVE  UNCHANGED <<proc, current>>
  BY <1>3 DEF LeaseChanges
<1>4. ASSUME Reconfigure PROVE Kept
  <2> DEFINE r == [proc[current] EXCEPT !.state = "closed"]
             n == [proc[current + 1] EXCEPT !.state = "open"]
  <2>1. current \in Procs /\ current \in Nat /\ proc[current] \in Processor /\ UNCHANGED <<rt, ignored, mixed>>
    BY <1>4, ProcsFacts DEF TypeInv, Reconfigure
  <2>2. /\ r \in Processor /\ r.job = proc[current].job /\ r.rdns = proc[current].rdns
        /\ r.whois = proc[current].whois
    BY <2>1 DEF Processor
  <2>3. CASE /\ current + 1 \in Procs /\ current' = current + 1
             /\ proc' = [proc EXCEPT ![current] = r, ![current + 1].state = "open"]
    <3>1. proc[current + 1] \in Processor
      BY <2>3 DEF TypeInv
    <3>2. /\ n \in Processor /\ n.job = proc[current + 1].job /\ n.rdns = proc[current + 1].rdns
          /\ n.whois = proc[current + 1].whois
      BY <3>1 DEF Processor
    <3>3. current + 1 # current
      BY <2>1
    <3>4. proc' = [proc EXCEPT ![current] = r, ![current + 1] = n]
      BY <2>3, <3>3 DEF TypeInv
    <3> HIDE DEF r, n
    <3>5. proc' \in [Procs -> Processor]
      BY <2>2, <2>3, <3>2, <3>4 DEF TypeInv
    <3>6. proc'[current] = r /\ proc'[current + 1] = n
          /\ \A p \in Procs \ {current, current + 1} : proc'[p] = proc[p]
      BY <2>1, <2>3, <3>3, <3>4 DEF TypeInv
    <3> QED
      BY <2>1, <2>2, <2>3, <3>2, <3>5, <3>6
  <2>4. CASE current' = current /\ proc' = [proc EXCEPT ![current] = r]
    <3> HIDE DEF r
    <3> QED
      BY <2>1, <2>2, <2>4 DEF TypeInv
  <2> QED
    BY <1>4, <2>3, <2>4 DEF Reconfigure, Close
<1>5. ASSUME NEW p \in Procs, Take(p) \/ processRDNS(p) \/ processWHOIS(p) \/ UpdateAddress(p)
      PROVE  /\ proc' \in [Procs -> Processor] /\ current' = current
             /\ \A q \in Procs : InOrder(proc'[q].job)
  <2>1. current' = current
    BY <1>5 DEF Take, processRDNS, processWHOIS, UpdateAddress
  <2>2. \E r \in Processor : proc' = [proc EXCEPT ![p] = r] /\ InOrder(r.job)
    <3>1. CASE UpdateAddress(p)
      <4> DEFINE r == [proc[p] EXCEPT !.job = NoJob]
      <4>1. proc' = [proc EXCEPT ![p] = r]
        BY <3>1 DEF UpdateAddress, TypeInv
      <4>2. r \in Processor /\ r.job = NoJob
        BY NoJobFacts DEF TypeInv, Processor
      <4> HIDE DEF r
      <4> QED
        BY <4>1, <4>2, NoJobFacts
    <3> QED
      BY <1>5, <3>1, TakeStep, RdnsStep, WhoisStep
  <2> QED
    BY <2>1, <2>2 DEF TypeInv
<1>6. ASSUME NEW c \in Contents, WriteHosts(c) PROVE UNCHANGED <<proc, current>>
  BY <1>6 DEF WriteHosts
<1>7. ASSUME WatchEvents \/ RefreshHosts \/ addFromHostsFile \/ ReloadARP \/ UpdateDHCP
      PROVE  UNCHANGED <<proc, current>>
  BY <1>7 DEF WatchEvents, RefreshHosts, addFromHostsFile, ReloadARP, UpdateDHCP
<1>8. Kept \/ \E p \in Procs : Take(p) \/ processRDNS(p) \/ processWHOIS(p) \/ UpdateAddress(p)
  <2> HIDE DEF Kept
  <2> QED
    BY <1>0, <1>1, <1>2, <1>3, <1>4, <1>6, <1>7 DEF Next, ProcStep
<1>9. Kept => \A p \in Procs : InOrder(proc'[p].job)
  BY DEF TypeInv
<1>10. current \in Procs
  BY DEF TypeInv
<1> QED
  BY <1>5, <1>8, <1>9, <1>10

(* What the sources say keeps its types.                                   *)
LEMMA SourcesType ==
    ASSUME TypeInv, Next
    PROVE  dhcp' \in Lines /\ applied' \in Lines /\ hosts' \in HostsState
<1>1. ASSUME NEW ip \in IPs, NEW h \in Names \cup {Nil}, LeaseChanges(ip, h)
      PROVE  dhcp' \in Lines /\ applied' \in Lines /\ hosts' \in HostsState
  BY <1>1 DEF LeaseChanges, TypeInv, Lines
<1>2. ASSUME NEW c \in Contents, WriteHosts(c)
      PROVE  dhcp' \in Lines /\ applied' \in Lines /\ hosts' \in HostsState
  <2>1. c \in Lines
    BY ConstantsAssumption DEF Lines
  <2>2. PICK renamed \in BOOLEAN :
          hosts' = [hosts EXCEPT !.file = c, !.told = ~renamed, !.raw = hosts.raw \/ ~renamed]
    BY <1>2 DEF WriteHosts
  <2>3. (~renamed) \in BOOLEAN /\ (hosts.raw \/ ~renamed) \in BOOLEAN
    OBVIOUS
  <2>4. hosts' \in HostsState
    BY <2>1, <2>2, <2>3 DEF HostsState, TypeInv
  <2> QED
    BY <1>2, <2>4 DEF WriteHosts, TypeInv
<1>3. CASE WatchEvents
  BY <1>3 DEF WatchEvents, TypeInv, HostsState
<1>4. CASE RefreshHosts
  <2> DEFINE u == IF hosts.current = hosts.file THEN hosts.upd ELSE sendUpd(hosts.upd, hosts.file)
  <2>1. u \in Lines \cup {Nil} /\ hosts.file \in Lines
    BY DEF TypeInv, HostsState, sendUpd
  <2>2. hosts' = [hosts EXCEPT !.event = FALSE, !.current = hosts.file, !.upd = u]
    BY <1>4 DEF RefreshHosts, TypeInv, HostsState
  <2> HIDE DEF u
  <2>3. hosts' \in HostsState
    BY <2>1, <2>2 DEF TypeInv, HostsState
  <2> QED
    BY <1>4, <2>3 DEF RefreshHosts, TypeInv
<1>5. CASE addFromHostsFile
  BY <1>5 DEF addFromHostsFile, TypeInv, HostsState
<1>6. ASSUME UNCHANGED <<dhcp, hosts, applied>>
      PROVE  dhcp' \in Lines /\ applied' \in Lines /\ hosts' \in HostsState
  BY <1>6 DEF TypeInv
<1>7. ASSUME NEW ip \in IPs, Process(ip) \/ PersistentChanges(ip) \/ LookupRuntime(ip)
      PROVE  UNCHANGED <<dhcp, hosts, applied>>
  BY <1>7 DEF Process, PersistentChanges, LookupRuntime
<1>8. ASSUME NEW p \in Procs, ProcStep(p) PROVE UNCHANGED <<dhcp, hosts, applied>>
  BY <1>8 DEF ProcStep, Take, processRDNS, processWHOIS, UpdateAddress
<1>9. ASSUME Reconfigure \/ ReloadARP \/ UpdateDHCP PROVE UNCHANGED <<dhcp, hosts, applied>>
  BY <1>9 DEF Reconfigure, ReloadARP, UpdateDHCP
<1> QED
  BY <1>1, <1>2, <1>3, <1>4, <1>5, <1>6, <1>7, <1>8, <1>9 DEF Next

(* Every step keeps the types and the order of the steps of a job.         *)
LEMMA TypeNext == TypeInv /\ Next => TypeInv'
BY IndexSteps, ProcSteps, SourcesType DEF TypeInv

(* The program starts with an empty index and empty caches.                *)
LEMMA InitInvs == Init => TypeInv /\ NamesInv /\ CacheInv
<1> SUFFICES ASSUME Init PROVE TypeInv /\ NamesInv /\ CacheInv
  OBVIOUS
<1>1. NoNames \in Lines /\ rt \in Index /\ \A ip \in IPs : rt[ip] = Nil /\ applied[ip] = Nil
  BY DEF Init, NoNames, Lines, Index
<1>2. hosts \in HostsState
  BY <1>1 DEF Init, HostsState
<1>3. /\ [NoProc EXCEPT !.state = "open"] \in Processor
      /\ [NoProc EXCEPT !.state = "open"].job = NoJob
      /\ [NoProc EXCEPT !.state = "open"].rdns = NoProc.rdns
      /\ [NoProc EXCEPT !.state = "open"].whois = NoProc.whois
  BY NoJobFacts DEF Processor
<1>4. /\ proc \in [Procs -> Processor]
      /\ \A p \in Procs : /\ proc[p].job = NoJob /\ proc[p].rdns = NoProc.rdns
                          /\ proc[p].whois = NoProc.whois
  BY <1>3, NoJobFacts DEF Init
<1>5. current \in Procs
  BY ProcsFacts DEF Init
<1>6. TypeInv
  BY <1>1, <1>2, <1>4, <1>5, NoJobFacts DEF TypeInv, Init
<1>7. NamesInv
  BY <1>1 DEF NamesInv, Filled, Says
<1>8. CacheInv
  <2>1. \A p \in Procs : p > 1 => proc[p] = NoProc
    BY ProcsFacts DEF Init
  <2>2. \A ip \in IPs : proc[current].rdns[ip] = Nil /\ proc[current].whois[ip] = Nil
    BY <1>4, <1>5, NoJobFacts
  <2> QED
    BY <2>1, <2>2 DEF CacheInv, RdnsShown, WhoisShown, Init
<1> QED
  BY <1>6, <1>7, <1>8

(* Every step keeps what the hosts file said last in the index, and leaves *)
(* no empty entry.                                                         *)
LEMMA NamesNext == TypeInv /\ NamesInv /\ Next => NamesInv'
<1> SUFFICES ASSUME TypeInv, NamesInv, Next PROVE NamesInv'
  OBVIOUS
<1>1. Filled(rt')
  BY IndexSteps DEF NamesInv
<1>2. "hosts" \in Fields \ {"arp", "dhcp"}
  BY DEF Fields
<1>3. ASSUME NEW p \in Procs, UpdateAddress(p), rt' = Handed(p)
      PROVE  \A q \in IPs : Says(rt', q, "hosts") = Says(rt, q, "hosts")
  <2>1. proc[p].job.pc = "update"
    BY <1>3 DEF UpdateAddress
  <2> QED
    BY <1>2, <1>3, <2>1, HandedSays
<1>4. \A q \in IPs : Says(rt', q, "hosts") = applied'[q]
  BY <1>2, <1>3, IndexSteps DEF NamesInv
<1> QED
  BY <1>1, <1>4 DEF NamesInv, Filled

(* The name a lookup shows is that of the hosts file, or else the lease's. *)
LEMMA NamesShown == TypeInv /\ NamesInv => NamesFollowPriority
<1> SUFFICES ASSUME TypeInv, NamesInv PROVE NamesFollowPriority
  OBVIOUS
<1>1. NoEmptyClients
  BY DEF NamesInv, Filled, NoEmptyClients
<1>2. ASSUME NEW ip \in IPs
      PROVE  /\ applied[ip] # Nil => findRuntime(ip) = applied[ip]
             /\ (applied[ip] = Nil /\ RuntimeSourceDHCP /\ dhcp[ip] # Nil)
                    => findRuntime(ip) = dhcp[ip]
  <2> DEFINE ix == ClientRuntime(ip)
  <2>1. ix \in Index /\ Says(ix, ip, "hosts") = applied[ip]
    BY LookupSays DEF NamesInv, Fields
  <2>2. findRuntime(ip) = IF ix[ip] = Nil THEN "" ELSE Info(ix[ip])
    BY DEF findRuntime
  <2>3. CASE applied[ip] # Nil
    <3> HIDE DEF ix
    <3>1. ix[ip] # Nil /\ ix[ip].hosts = applied[ip] /\ ix[ip] \in Runtimes
      BY <2>1, <2>3 DEF Says, Index
    <3> QED
      BY <2>2, <2>3, <3>1, InfoPriority
  <2>4. CASE applied[ip] = Nil /\ RuntimeSourceDHCP /\ dhcp[ip] # Nil
    <3>1. ~(rt[ip] # Nil /\ rt[ip].hosts # Nil)
      BY <2>4 DEF NamesInv, Says
    <3>2. ix = setInfo(rt, ip, "dhcp", dhcp[ip])
      BY <2>4, <3>1 DEF ClientRuntime
    <3>3. dhcp[ip] \in HostNames \ {Nil} /\ "dhcp" \in Fields \ {"whois"} /\ rt \in Index
      BY <2>4 DEF TypeInv, Lines, HostNames, Fields
    <3> HIDE DEF ix
    <3>4. Says(ix, ip, "dhcp") = dhcp[ip]
      BY <3>2, <3>3, SetInfoSays
    <3>5. ix[ip] # Nil /\ ix[ip].dhcp = dhcp[ip] /\ ix[ip].hosts = Nil /\ ix[ip] \in Runtimes
      BY <2>1, <2>4, <3>4 DEF Says, Index
    <3> QED
      BY <2>2, <2>4, <3>5, InfoPriority
  <2> QED
    BY <2>3, <2>4
<1> QED
  BY <1>1, <1>2 DEF NamesFollowPriority
-----------------------------------------------------------------------------
(* A processor whose job and caches are as they were is shown as it was    *)
(* when the index says the same.                                           *)
LEMMA ShownKept ==
    ASSUME NEW p, NEW q, q.job = p.job, q.rdns = p.rdns, q.whois = p.whois,
           NEW ix, NEW jx, NEW ip, NEW ig,
           Says(jx, ip, "rdns") = Says(ix, ip, "rdns"),
           Says(jx, ip, "whois") = Says(ix, ip, "whois")
    PROVE  /\ RdnsShown(p, ix, ip) => RdnsShown(q, jx, ip)
           /\ WhoisShown(p, ix, ip, ig) => WhoisShown(q, jx, ip, ig)
BY DEF RdnsShown, WhoisShown

(* A processor that has not been opened does nothing.                      *)
LEMMA IdleAfter ==
    ASSUME CacheInv, TypeInv, NEW p \in Procs, Take(p) \/ processRDNS(p) \/ processWHOIS(p) \/ UpdateAddress(p)
    PROVE  ~(p > current)
<1>1. NoProc.queue = <<>> /\ NoProc.job.pc = "idle"
  BY DEF NoProc, NoJob
<1>2. proc[p].queue # <<>> \/ proc[p].job.pc \in {"rdns", "whois", "update"}
  BY DEF Take, processRDNS, processWHOIS, UpdateAddress
<1>3. proc[p] # NoProc
  BY <1>1, <1>2
<1> QED
  BY <1>3 DEF CacheInv

(* A step of a job of the current processor.                               *)
LEMMA JobShown ==
    ASSUME CacheInv, TypeInv, Take(current) \/ processRDNS(current) \/ processWHOIS(current),
           NEW ip \in IPs \ mixed
    PROVE  /\ RdnsShown(proc'[current], rt, ip)
           /\ WhoisShown(proc'[current], rt, ip, ignored)
<1> DEFINE p == proc[current]
<1>1. RdnsShown(p, rt, ip) /\ WhoisShown(p, rt, ip, ignored)
  BY DEF CacheInv
<1>2. current \in Procs
  BY DEF TypeInv
<1>3. CASE Take(current)
  <2>1. PICK r \in Processor :
          /\ proc' = [proc EXCEPT ![current] = r]
          /\ r.job.host = "" /\ r.job.info = Nil
          /\ proc[current].job = NoJob /\ r.rdns = proc[current].rdns
          /\ r.whois = proc[current].whois
    BY <1>2, <1>3, TakeStep
  <2>2. proc'[current] = r /\ p.job.host = "" /\ p.job.info = Nil
    BY <1>2, <2>1, NoJobFacts DEF TypeInv
  <2> QED
    BY <1>1, <2>1, <2>2 DEF RdnsShown, WhoisShown
<1>4. CASE processRDNS(current)
  <2>1. PICK r \in Processor :
          /\ proc' = [proc EXCEPT ![current] = r]
          /\ r.job.ip = p.job.ip /\ r.job.info = Nil
          /\ p.job.host = "" /\ p.job.info = Nil
          /\ \A q \in IPs \ {r.job.ip} : r.rdns[q] = p.rdns[q]
          /\ r.whois = p.whois
          /\ \/ r.rdns[r.job.ip] = r.job.host
             \/ r.rdns[r.job.ip] = "" /\ r.job.host = ""
             \/ r.rdns[r.job.ip] = p.rdns[r.job.ip] /\ r.job.host = ""
    BY <1>2, <1>4, RdnsStep
  <2>2. proc'[current] = r
    BY <1>2, <2>1 DEF TypeInv
  <2> HIDE DEF p
  <2>3. RdnsShown(r, rt, ip)
    BY <1>1, <2>1 DEF RdnsShown
  <2>4. WhoisShown(r, rt, ip, ignored)
    BY <1>1, <2>1 DEF WhoisShown
  <2> QED
    BY <2>2, <2>3, <2>4
<1>5. CASE processWHOIS(current)
  <2>1. PICK r \in Processor :
          /\ proc' = [proc EXCEPT ![current] = r]
          /\ r.job.ip = p.job.ip /\ r.job.host = p.job.host
          /\ p.job.info = Nil
          /\ \A q \in IPs \ {r.job.ip} : r.whois[q] = p.whois[q]
          /\ r.rdns = p.rdns
          /\ \/ r.whois[r.job.ip] = r.job.info
             \/ r.whois[r.job.ip] = NoInfo /\ r.job.info = Nil
             \/ r.whois[r.job.ip] = p.whois[r.job.ip] /\ r.job.info = Nil
    BY <1>2, <1>5, WhoisStep
  <2>2. proc'[current] = r
    BY <1>2, <2>1 DEF TypeInv
  <2> HIDE DEF p
  <2>3. RdnsShown(r, rt, ip)
    BY <1>1, <2>1 DEF RdnsShown
  <2>4. WhoisShown(r, rt, ip, ignored)
    BY <1>1, <2>1 DEF WhoisShown
  <2> QED
    BY <2>2, <2>3, <2>4
<1> QED
  BY <1>3, <1>4, <1>5

(* UpdateAddress of the current processor shows what its job has found; of *)
(* another one, it only concerns an address that is mixed from then on.    *)
LEMMA UpdateShown ==
    ASSUME CacheInv, TypeInv, NEW p \in Procs, UpdateAddress(p), NEW ip \in IPs \ mixed'
    PROVE  /\ RdnsShown(proc'[current], rt', ip)
           /\ WhoisShown(proc'[current], rt', ip, ignored')
<1> DEFINE j == proc[p].job
<1>1. /\ j.pc = "update" /\ rt' = Handed(p) /\ proc' = [proc EXCEPT ![p].job = NoJob]
      /\ ignored' = IF j.info = Nil THEN ignored
                    ELSE IF j.ip \in owned THEN ignored \cup {j.ip} ELSE ignored \ {j.ip}
      /\ mixed' = IF p # current THEN mixed \cup {j.ip} ELSE mixed
  BY DEF UpdateAddress, Handed
<1>2. /\ j.ip \in IPs
      /\ j.host # "" => Says(rt', j.ip, "rdns") = j.host
      /\ j.host = "" => Says(rt', j.ip, "rdns") = Says(rt, j.ip, "rdns")
      /\ j.info # Nil /\ j.ip \notin owned => Says(rt', j.ip, "whois") = j.info
      /\ j.info = Nil => Says(rt', j.ip, "whois") = Says(rt, j.ip, "whois")
      /\ \A q \in IPs, s \in {"rdns", "whois"} : q # j.ip => Says(rt', q, s) = Says(rt, q, s)
  BY ZenonT(30), <1>1, HandedSays DEF Fields
<1>3. current \in Procs /\ ip \notin mixed
  BY <1>1 DEF TypeInv
<1>4. RdnsShown(proc[current], rt, ip) /\ WhoisShown(proc[current], rt, ip, ignored)
  BY <1>3 DEF CacheInv
<1>5. CASE p # current
  <2>1. proc'[current] = proc[current] /\ ip # j.ip
    BY <1>1, <1>3, <1>5 DEF TypeInv
  <2>2. ip \in ignored' <=> ip \in ignored
    BY <1>1, <2>1
  <2> HIDE DEF j
  <2>3. Says(rt', ip, "rdns") = Says(rt, ip, "rdns") /\ Says(rt', ip, "whois") = Says(rt, ip, "whois")
    BY <1>2, <2>1
  <2> QED
    BY <1>4, <2>1, <2>2, <2>3 DEF RdnsShown, WhoisShown
<1>6. CASE p = current
  <2>1. PICK r : proc'[current] = r
    OBVIOUS
  <2>2. proc[current] \in Processor /\ r = [proc[current] EXCEPT !.job = NoJob]
    BY <1>1, <1>3, <1>6, <2>1 DEF TypeInv
  <2>3. r.job = NoJob /\ r.rdns = proc[current].rdns /\ r.whois = proc[current].whois
    BY <2>2 DEF Processor
  <2>4. r.job.ip = Nil /\ ip # Nil
    BY <2>3, NoJobFacts, NilFacts
  <2>5. j = proc[current].job
    BY <1>6
  <2> HIDE DEF j
  <2>6. RdnsShown(r, rt', ip)
    <3>1. CASE ip = j.ip
      BY <1>2, <1>4, <2>3, <2>4, <2>5, <3>1 DEF RdnsShown
    <3>2. CASE ip # j.ip
      BY <1>2, <1>4, <2>3, <2>4, <2>5, <3>2 DEF RdnsShown
    <3> QED
      BY <3>1, <3>2
  <2>7. WhoisShown(r, rt', ip, ignored')
    <3>1. CASE ip = j.ip /\ j.info = Nil
      BY <1>1, <1>2, <1>4, <2>3, <2>4, <2>5, <3>1 DEF WhoisShown
    <3>2. CASE ip = j.ip /\ j.info # Nil
      <4>1. CASE j.ip \in owned
        BY <1>1, <2>4, <3>2, <4>1 DEF WhoisShown
      <4>2. CASE j.ip \notin owned
        BY <1>1, <1>2, <1>4, <2>3, <2>4, <2>5, <3>2, <4>2 DEF WhoisShown
      <4> QED
        BY <4>1, <4>2
    <3>3. CASE ip # j.ip
      <4>1. ip \in ignored' <=> ip \in ignored
        BY <1>1, <3>3
      <4> QED
        BY <1>2, <1>4, <2>3, <2>4, <2>5, <3>3, <4>1 DEF WhoisShown
    <3> QED
      BY <3>1, <3>2, <3>3
  <2> QED
    BY <2>1, <2>6, <2>7
<1> QED
  BY <1>5, <1>6

(* Every step keeps what the current caches hold shown, or about to be     *)
(* shown.                                                                  *)
LEMMA CacheNext == TypeInv /\ CacheInv /\ Next => CacheInv'
<1> SUFFICES ASSUME TypeInv, CacheInv, Next PROVE CacheInv'
  OBVIOUS
<1> DEFINE Shown(ip) == /\ RdnsShown(proc'[current'], rt', ip)
                        /\ WhoisShown(proc'[current'], rt', ip, ignored')
<1>0. current \in Nat /\ current \in Procs /\ Procs \subseteq Nat
  BY ProcsFacts DEF TypeInv
<1>1. CASE \E p \in Procs : Take(p) \/ processRDNS(p) \/ processWHOIS(p)
  <2>1. PICK p \in Procs : Take(p) \/ processRDNS(p) \/ processWHOIS(p)
    BY <1>1
  <2>2. UNCHANGED <<rt, current, ignored, mixed>> /\ \E r : proc' = [proc EXCEPT ![p] = r]
    <3>1. UNCHANGED <<rt, current, ignored, mixed>>
      BY <2>1 DEF Take, processRDNS, processWHOIS
    <3> QED
      BY <2>1, <3>1, TakeStep, RdnsStep, WhoisStep
  <2>3. ~(p > current) /\ \A q \in Procs : q # p => proc'[q] = proc[q]
    BY <2>1, <2>2, IdleAfter DEF TypeInv
  <2>4. \A q \in Procs : q > current' => proc'[q] = NoProc
    BY <2>2, <2>3 DEF CacheInv
  <2>5. \A ip \in IPs \ mixed' : Shown(ip)
    <3>1. CASE p = current
      BY <2>1, <2>2, <3>1, JobShown
    <3>2. CASE p # current
      BY <1>0, <2>2, <2>3, <3>2 DEF CacheInv
    <3> QED
      BY <3>1, <3>2
  <2> QED
    BY <2>4, <2>5 DEF CacheInv
<1>2. CASE \E p \in Procs : UpdateAddress(p)
  <2>1. PICK p \in Procs : UpdateAddress(p)
    BY <1>2
  <2>2. current' = current /\ proc' = [proc EXCEPT ![p].job = NoJob]
    BY <2>1 DEF UpdateAddress
  <2>3. ~(p > current) /\ \A q \in Procs : q # p => proc'[q] = proc[q]
    BY <2>1, <2>2, IdleAfter DEF TypeInv
  <2>4. \A q \in Procs : q > current' => proc'[q] = NoProc
    BY <2>2, <2>3 DEF CacheInv
  <2>5. \A ip \in IPs \ mixed' : Shown(ip)
    BY <2>1, <2>2, UpdateShown
  <2> QED
    BY <2>4, <2>5 DEF CacheInv
<1>3. CASE ~\E p \in Procs : Take(p) \/ processRDNS(p) \/ processWHOIS(p) \/ UpdateAddress(p)
  <2>1. /\ \A p \in Procs : /\ proc'[p].job = proc[p].job
                            /\ proc'[p].rdns = proc[p].rdns
                            /\ proc'[p].whois = proc[p].whois
        /\ \A p \in Procs : p > current' => proc'[p] = proc[p]
        /\ current' \in {current, current + 1} /\ current' \in Procs
        /\ current' # current => UNCHANGED <<rt, ignored, mixed>>
    BY <1>3, ProcSteps
  <2>2. \A p \in Procs : p > current' => proc'[p] = NoProc
    BY <1>0, <2>1 DEF CacheInv
  <2>3. CASE current' # current
    <3>1. proc[current'] = NoProc
      BY <1>0, <2>1, <2>3 DEF CacheInv
    <3>2. \A ip \in IPs : proc'[current'].rdns[ip] = Nil /\ proc'[current'].whois[ip] = Nil
      BY <2>1, <3>1, NoJobFacts
    <3> QED
      BY <2>2, <3>2 DEF CacheInv, RdnsShown, WhoisShown
  <2>4. CASE current' = current
    <3>1. /\ UNCHANGED <<ignored, mixed>>
          /\ \A q \in IPs, s \in {"rdns", "whois"} : Says(rt', q, s) = Says(rt, q, s)
      BY <1>3, IndexSteps DEF Fields
    <3>2. ASSUME NEW ip \in IPs \ mixed' PROVE Shown(ip)
      <4>1. RdnsShown(proc[current], rt, ip) /\ WhoisShown(proc[current], rt, ip, ignored)
        BY <3>1 DEF CacheInv
      <4>2. /\ Says(rt', ip, "rdns") = Says(rt, ip, "rdns")
            /\ Says(rt', ip, "whois") = Says(rt, ip, "whois")
        BY <3>1
      <4> QED
        BY <1>0, <2>1, <2>4, <3>1, <4>1, <4>2, ShownKept
    <3> QED
      BY <2>2, <3>2 DEF CacheInv
  <2> QED
    BY <2>3, <2>4
<1> QED
  BY <1>1, <1>2, <1>3

(* What CacheInv says of an address nobody works on is CachedIsShown.      *)
LEMMA CachesShown == TypeInv /\ CacheInv => CachedIsShown
<1> SUFFICES ASSUME TypeInv, CacheInv, NEW ip \in IPs,
                    proc[current].job.ip # ip, ip \notin mixed
             PROVE  /\ proc[current].rdns[ip] \notin {Nil, ""}
                         => (rt[ip] # Nil /\ rt[ip].rdns = proc[current].rdns[ip])
                    /\ (proc[current].whois[ip] \notin {Nil, NoInfo} /\ ip \notin ignored)
                         => (rt[ip] # Nil /\ rt[ip].whois = proc[current].whois[ip])
  BY DEF CachedIsShown
<1> QED
  BY DEF CacheInv, RdnsShown, WhoisShown, Says

(* The invariants speak of the variables only.                             *)
LEMMA StutterInvs ==
    TypeInv /\ NamesInv /\ CacheInv /\ UNCHANGED vars => (TypeInv /\ NamesInv /\ CacheInv)'
BY ZenonT(30) DEF vars, TypeInv, NamesInv, CacheInv, Filled, Says, RdnsShown, WhoisShown

(* The three invariants hold in every state.                               *)
LEMMA Invariants == Spec => [](TypeInv /\ NamesInv /\ CacheInv)
<1>1. TypeInv /\ NamesInv /\ CacheInv /\ [Next]_vars => (TypeInv /\ NamesInv /\ CacheInv)'
  BY TypeNext, NamesNext, CacheNext, StutterInvs
<1> QED
  BY <1>1, InitInvs, PTL DEF Spec

(* In every state the name shown for a client that is not persistent is    *)
(* that of the hosts file as last read, or else that of the lease DHCP has *)
(* now, and no entry of the index is empty (client/storage.go,             *)
(* runtimeindex.go), for any addresses, names and sequence of updates.     *)
THEOREM NamesByPriority == Spec => []NamesFollowPriority
<1>1. TypeInv /\ NamesInv /\ CacheInv => NamesFollowPriority
  BY NamesShown
<1> QED
  BY <1>1, Invariants, PTL

(* What the reverse DNS and WHOIS caches of the current address processor  *)
(* hold for an address it is not working on is what the index says, except *)
(* where the history variables excuse it (addrproc.go, rdns.go, whois.go). *)
THEOREM CachesAreShown == Spec => []CachedIsShown
<1>1. TypeInv /\ NamesInv /\ CacheInv => CachedIsShown
  BY CachesShown
<1> QED
  BY <1>1, Invariants, PTL
=============================================================================
