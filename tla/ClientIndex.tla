----------------------------- MODULE ClientIndex -----------------------------
(***************************************************************************)
(* The storage of persistent clients: client.Storage with its index and    *)
(* its manager of custom upstream configurations (internal/client), and    *)
(* the HTTP handlers that change it (internal/home/clients*.go).           *)
(*                                                                         *)
(* The index is six maps that must agree.  Storage.mu protects them, except*)
(* in ApplyClientFiltering, which reads them without it; so Update, which  *)
(* removes a client from the maps and adds it again, is two steps here,    *)
(* and ApplyClientFiltering is one step per map it reads.  The handlers    *)
(* that change clients hold home's controlLock and run one at a time.      *)
(***************************************************************************)
EXTENDS Naturals, Sequences, FiniteSets, FiniteSetsExt

CONSTANTS
    UIDs, Names,
    Strings,        \* texts that requests use to name a client
    IPs, MACs,      \* those that parse as an address; some are both
    ClientIDs,      \* those that are valid ClientIDs
    Subnets,        \* a sequence: the prefixes in the order of subnetCompare
    Contains,       \* the pairs <<prefix, address>> with the address inside
    Lower,          \* strings.ToLower on Strings
    Requests,       \* the ClientID and the address of a DNS request: pairs
    Leases,         \* what DHCP may lease: pairs of an address and a device
    Templates,      \* what a request says of a client, besides its name
    InitialFiles,   \* the clients of the configuration file at first
    NoClient, NoUID, NoAddr,
    MaxChanges,     \* bound on the requests that change clients
    MaxCommon,      \* bound on changes of the common upstream settings
    MaxBuilds,      \* bound on upstream configurations ever built
    MaxApplies,     \* bound on lookups for filtering settings
    MaxLeases       \* bound on changes of the DHCP leases

VARIABLES
    index,      \* Storage.index
    custom,     \* upstreamManager.uidToCustomConf
    common,     \* upstreamManager.commonConf, confUpdate
    closed,     \* the upstream configurations that have been closed
    builds,     \* how many have been built
    writer,     \* the handler that changes clients
    reader,     \* a call of ApplyClientFiltering
    dhcp,       \* the hardware address behind each leased address
    saved,      \* the clients in the configuration file
    running,    \* Shutdown has not been called
    tied,       \* history: the clock stood still between two common updates
    count

vars == <<index, custom, common, closed, builds, writer, reader, dhcp, saved,
          running, tied, count>>

Nets == {Subnets[i] : i \in 1..Len(Subnets)}
Kinds == {"ip", "net", "mac", "cid"}
Ids == Kinds \X Strings

-----------------------------------------------------------------------------
(* index.go and persistent.go as operators on the record of maps.          *)

newIndex ==
    [name   |-> [n \in Names |-> NoUID],
     id     |-> [k \in Kinds |-> [s \in Strings |-> NoUID]],
     client |-> [u \in UIDs |-> NoClient]]

add(ix, u, c) ==
    [name   |-> [ix.name EXCEPT ![c.name] = u],
     id     |-> [k \in Kinds |-> [s \in Strings |->
                    IF <<k, s>> \in c.ids THEN u ELSE ix.id[k][s]]],
     client |-> [ix.client EXCEPT ![u] = c]]

(* Mutant: the maps of identifiers are not cleaned.                        *)
RemoveKeepsIds(ix, u) ==
    [ix EXCEPT !.name[ix.client[u].name] = NoUID, !.client[u] = NoClient]

remove(ix, u) ==
    LET c == ix.client[u] IN
    [name   |-> [ix.name EXCEPT ![c.name] = NoUID],
     id     |-> [k \in Kinds |-> [s \in Strings |->
                    IF <<k, s>> \in c.ids THEN NoUID ELSE ix.id[k][s]]],
     client |-> [ix.client EXCEPT ![u] = NoClient]]

clashesUID(ix, u) == ix.client[u] # NoClient

(* Mutant: only the names are compared.                                    *)
ClashesName(ix, u, c) == ix.name[c.name] \notin {NoUID, u}

clashes(ix, u, c) ==
    \/ ix.name[c.name] \notin {NoUID, u}
    \/ \E id \in c.ids : ix.id[id[1]][id[2]] \notin {NoUID, u}

(* The type of an identifier: the first that parses.                       *)
setID(s) ==
    IF s \in IPs THEN <<"ip", s>>
    ELSE IF s \in Nets THEN <<"net", s>>
    ELSE IF s \in MACs THEN <<"mac", s>>
    ELSE <<"cid", Lower[s]>>

SetIDsFails(ss) == \E s \in ss : s \notin IPs \cup Nets \cup MACs \cup ClientIDs
SetIDs(ss) == {setID(s) : s \in ss}

(* What Add and Update refuse before they take the lock: a client without  *)
(* identifiers, and bad upstreams or tags.                                 *)
validate(t) == t.ids # {} /\ t.valid

(* jsonToClient: the fields of a request; the UID is new, or Update's.     *)
jsonToClient(n, t) ==
    [name |-> n, ids |-> SetIDs(t.ids), ups |-> t.ups, own |-> t.own, svc |-> t.svc]

Client == {jsonToClient(n, t) : n \in Names, t \in Templates}

findByClientID(ix, s) == IF s = NoAddr THEN NoUID ELSE ix.id["cid"][s]
findByMAC(ix, s) == IF s = NoAddr THEN NoUID ELSE ix.id["mac"][s]
findByCIDR(ix, s) == ix.id["net"][s]

(* Mutant: the widest subnet wins.                                         *)
FindWidest(ix, s) ==
    LET hits == {i \in 1..Len(Subnets) : <<Subnets[i], s>> \in Contains
                                        /\ ix.id["net"][Subnets[i]] # NoUID}
    IN  IF s = NoAddr THEN NoUID
        ELSE IF ix.id["ip"][s] # NoUID THEN ix.id["ip"][s]
        ELSE IF hits # {} THEN ix.id["net"][Subnets[Max(hits)]]
        ELSE NoUID

(* An address of its own, or else the first subnet in the sorted map that  *)
(* contains it.                                                            *)
findByIP(ix, s) ==
    LET Hit(i) == <<Subnets[i], s>> \in Contains /\ ix.id["net"][Subnets[i]] # NoUID
        hits == {i \in 1..Len(Subnets) : Hit(i)}
    IN  IF s = NoAddr THEN NoUID
        ELSE IF ix.id["ip"][s] # NoUID THEN ix.id["ip"][s]
        ELSE IF hits # {} THEN ix.id["net"][Subnets[Min(hits)]]
        ELSE NoUID

First(uids) ==  \* the first that is found
    LET found == {i \in 1..Len(uids) : uids[i] # NoUID}
    IN  IF found = {} THEN NoUID ELSE uids[Min(found)]

MACByIP(s) == IF s = NoAddr THEN NoAddr ELSE dhcp[s]

StorageFindByIP(ix, s) == First(<<findByIP(ix, s), findByMAC(ix, MACByIP(s))>>)

(* FindParams.Set: a text may be both an address and a hardware address.   *)
FindParamsSet(s) ==
    [ip  |-> IF s \in IPs THEN s ELSE NoAddr,
     mac |-> IF s \in MACs THEN s ELSE NoAddr,
     net |-> IF s \in Nets \ (IPs \cup MACs) THEN s ELSE NoAddr,
     cid |-> IF s \in ClientIDs \ (IPs \cup MACs \cup Nets) THEN s ELSE NoAddr]

Find(ix, p) ==
    First(<<findByClientID(ix, p.cid),
            StorageFindByIP(ix, p.ip),
            IF p.net = NoAddr THEN NoUID ELSE findByCIDR(ix, p.net),
            findByMAC(ix, p.mac)>>)

(* index.find, which FindLoose and so the query log use.                   *)
indexFind(ix, s) ==
    First(<<findByClientID(ix, s),
            IF s \in IPs THEN findByIP(ix, s) ELSE NoUID,
            IF s \in MACs THEN findByMAC(ix, s) ELSE NoUID>>)

(* The stored addresses of the model have no zone, so that the last resort *)
(* of FindLoose, an address without its zone, finds nothing new.           *)
FindLoose(ix, s) ==
    First(<<indexFind(ix, s), IF s \in IPs THEN findByMAC(ix, MACByIP(s)) ELSE NoUID>>)

-----------------------------------------------------------------------------
(* upstreammanager.go.  A built configuration is the serial number, the    *)
(* upstreams and the version of the common settings it was built from.     *)

NoConf == [n |-> 0, ups |-> "none", ver |-> 0]
NoCustom == [conf |-> NoConf, stamp |-> 0, ups |-> "none", changed |-> FALSE, live |-> FALSE]

(* Mutant: only a client that is new is marked as changed.                 *)
UpdateKeepsUnchanged(m, u, c) ==
    [m EXCEPT ![u] = [conf    |-> m[u].conf,
                      stamp   |-> IF m[u].live THEN m[u].stamp ELSE common.stamp,
                      ups     |-> c.ups,
                      changed |-> ~m[u].live,
                      live    |-> TRUE]]

updateCustomUpstreamConfig(m, u, c) ==
    [m EXCEPT ![u] = [conf    |-> m[u].conf,
                      stamp   |-> IF m[u].live THEN m[u].stamp ELSE common.stamp,
                      ups     |-> c.ups,
                      changed |-> TRUE,
                      live    |-> TRUE]]

isConfigChanged(cc) == cc.stamp # common.stamp \/ cc.changed

newCustomUpstreamConfig(ups) ==
    IF ups = "none" THEN NoConf
    ELSE [n |-> builds + 1, ups |-> ups, ver |-> common.ver]

Serials(cc) == IF cc.conf = NoConf THEN {} ELSE {cc.conf.n}

-----------------------------------------------------------------------------
Idle == [pc |-> "idle", uid |-> NoUID, old |-> NoClient, new |-> NoClient]
NoSettings == [name |-> NoClient, services |-> "global", filtering |-> "global"]
NilClient == [NoSettings EXCEPT !.name = "nil"]     \* a nil pointer is read
NoReader == [pc |-> "idle", cid |-> NoAddr, ip |-> NoAddr, uid |-> NoUID,
             got |-> NoSettings, raced |-> FALSE]

Locked == writer.pc = "readd"                \* Storage.mu is held

Init ==
    /\ index = newIndex
    /\ custom = [u \in UIDs |-> NoCustom]
    /\ common = [ver |-> 0, stamp |-> 0]
    /\ closed = {} /\ builds = 0
    /\ writer = Idle /\ reader = NoReader
    /\ dhcp = [s \in IPs |-> NoAddr]
    /\ saved \in InitialFiles
    /\ running = FALSE /\ tied = FALSE
    /\ count = [changes |-> 0, applies |-> 0, leases |-> 0]

CountUp(w, bound) ==
    /\ count[w] < bound
    /\ count' = [count EXCEPT ![w] = @ + 1]

(* A step that changes what a lookup has read or may still read; a lookup  *)
(* that has returned is forgotten.                                         *)
DisturbReader ==
    reader' = IF reader.pc = "done" THEN NoReader
              ELSE [reader EXCEPT !.raced = @ \/ reader.pc # "idle"]

upstreamVars == <<custom, common, closed, builds, tied>>

-----------------------------------------------------------------------------
(* The handlers.  Each ends with onConfigModified, which writes the file;  *)
(* a write that fails is only logged.                                      *)

(* Storage.Add and Storage.RemoveByName.                                   *)
Add(u, c) ==
    /\ ~clashesUID(index, u) /\ ~clashes(index, u, c)
    /\ index' = add(index, u, c)
    /\ custom' = updateCustomUpstreamConfig(custom, u, c)

RemoveByName(n) ==
    LET u == index.name[n] IN
    /\ u # NoUID
    /\ index' = remove(index, u)
    /\ custom' = [custom EXCEPT ![u] = NoCustom]
    /\ closed' = closed \cup Serials(custom[u])

handleAddClient(u, n, t) ==
    /\ running /\ writer = Idle
    /\ ~SetIDsFails(t.ids) /\ validate(t)
    /\ u # reader.uid /\ saved[u] = NoClient       \* a new UID
    /\ Add(u, jsonToClient(n, t))
    /\ writer' = [Idle EXCEPT !.pc = "save"]
    /\ DisturbReader
    /\ CountUp("changes", MaxChanges)
    /\ UNCHANGED <<common, closed, builds, dhcp, saved, running, tied>>

handleDelClient(n) ==
    /\ running /\ writer = Idle
    /\ RemoveByName(n)
    /\ writer' = [Idle EXCEPT !.pc = "save"]
    /\ DisturbReader
    /\ CountUp("changes", MaxChanges)
    /\ UNCHANGED <<common, builds, dhcp, saved, running, tied>>

(* Storage.Update up to the removal of the stored client; mu stays locked. *)
handleUpdateClient(n, newName, t) ==
    /\ running /\ writer = Idle
    /\ ~SetIDsFails(t.ids) /\ validate(t)
    /\ LET u == index.name[n]
           c == jsonToClient(newName, t)
       IN  /\ u # NoUID
           /\ ~clashes(index, u, c)
           /\ index' = remove(index, u)
           /\ writer' = [pc |-> "readd", uid |-> u, old |-> index.client[u], new |-> c]
    /\ DisturbReader
    /\ CountUp("changes", MaxChanges)
    /\ UNCHANGED <<upstreamVars, dhcp, saved, running>>

(* The rest of Storage.Update.                                             *)
UpdateAdd ==
    /\ Locked
    /\ index' = add(index, writer.uid, writer.new)
    /\ custom' = updateCustomUpstreamConfig(custom, writer.uid, writer.new)
    /\ writer' = [Idle EXCEPT !.pc = "save"]
    /\ DisturbReader
    /\ UNCHANGED <<common, closed, builds, dhcp, saved, running, tied, count>>

(* forConfig: the clients as objects of the configuration file; their      *)
(* identifiers are written as text and parsed back by toPersistent.        *)
forConfig(ix) ==
    [u \in UIDs |->
        IF ix.client[u] = NoClient THEN NoClient
        ELSE [ix.client[u] EXCEPT !.ids = SetIDs({id[2] : id \in @})]]

onConfigModified ==
    /\ writer.pc = "save"
    /\ \/ saved' = forConfig(index)
       \/ UNCHANGED saved
    /\ writer' = Idle
    /\ UNCHANGED <<index, upstreamVars, reader, dhcp, running, count>>

-----------------------------------------------------------------------------
(* The DNS server prepares (again) and hands over the common settings; the *)
(* clock need not have moved since the last time.                          *)
UpdateCommonUpstreamConfig ==
    /\ running /\ ~Locked /\ common.ver < MaxCommon
    /\ \E stamp \in {common.stamp, common.stamp + 1} :
        /\ common' = [ver |-> common.ver + 1, stamp |-> stamp]
        /\ tied' = (tied \/ stamp = common.stamp)
    /\ UNCHANGED <<index, custom, closed, builds, writer, reader, dhcp, saved,
                   running, count>>

(* The request of a client with this ClientID and address asks for its     *)
(* upstreams; requests are served once the common settings are there.      *)
CustomUpstreamConfig(cid, ip) ==
    /\ running /\ ~Locked /\ common.ver > 0
    /\ LET u == First(<<findByClientID(index, cid), StorageFindByIP(index, ip)>>) IN
       /\ u # NoUID
       /\ custom[u].live
       /\ isConfigChanged(custom[u])
       /\ builds < MaxBuilds
       /\ LET conf == newCustomUpstreamConfig(custom[u].ups) IN
          /\ custom' = [custom EXCEPT ![u].conf = conf, ![u].stamp = common.stamp,
                                      ![u].changed = FALSE]
          /\ builds' = IF conf = NoConf THEN builds ELSE builds + 1
          /\ closed' = closed \cup Serials(custom[u])
    /\ UNCHANGED <<index, common, writer, reader, dhcp, saved, running, tied, count>>

(* Storage.Shutdown, by the signal handler; it takes no lock, and the      *)
(* configurations it closes stay in the map.                               *)
Shutdown ==
    /\ running
    /\ running' = FALSE
    /\ closed' = closed \cup UNION {Serials(custom[u]) : u \in UIDs}
    /\ UNCHANGED <<index, custom, common, builds, writer, reader, dhcp, saved,
                   tied, count>>

(* NewStorage adds the clients of the file one by one; the program does    *)
(* not start if one of them clashes.                                       *)
Loads(reg) ==
    \A u, v \in UIDs :
        (u # v /\ reg[u] # NoClient /\ reg[v] # NoClient)
            => ~clashes(add(newIndex, u, reg[u]), v, reg[v])

ASSUME ConstantsAssumption ==
    /\ {MaxChanges, MaxCommon, MaxBuilds, MaxApplies, MaxLeases} \subseteq Nat
    /\ IPs \cup MACs \cup ClientIDs \subseteq Strings
    /\ Subnets \in Seq(Strings) /\ Nets \cap (IPs \cup MACs) = {}
    /\ Contains \subseteq Nets \X IPs
    /\ Requests \subseteq (ClientIDs \cup {NoAddr}) \X IPs
    /\ Leases \subseteq IPs \X MACs
    /\ Lower \in [Strings -> Strings]
    /\ \A f \in InitialFiles : f \in [UIDs -> Client \cup {NoClient}] /\ Loads(f)
    /\ NoUID \notin UIDs /\ NoAddr \notin Strings /\ NoClient \notin Client

(* The letter case of a text decides neither what it parses as nor what it *)
(* is in lower case; a file with texts that do not parse does not load.    *)
ASSUME TextsAssumption ==
    /\ \A t \in Templates : t.ids \subseteq Strings
    /\ \A s \in ClientIDs : Lower[s] \in ClientIDs
    /\ \A f \in InitialFiles : \A u \in UIDs :
        f[u] # NoClient => \A s \in Strings : <<"cid", s>> \in f[u].ids => s \in ClientIDs
    /\ \A s \in Strings \ (IPs \cup Nets \cup MACs) :
        Lower[s] \notin IPs \cup Nets \cup MACs /\ Lower[Lower[s]] = Lower[s]

(* What adding the clients of a file that loads one after another, in any  *)
(* order, makes of an empty index.                                         *)
loaded(reg) ==
    LET Holder(us) == IF us = {} THEN NoUID ELSE CHOOSE u \in us : TRUE
        present == {u \in UIDs : reg[u] # NoClient}
    IN  [name   |-> [n \in Names |-> Holder({u \in present : reg[u].name = n})],
         id     |-> [k \in Kinds |-> [s \in Strings |->
                        Holder({u \in present : <<k, s>> \in reg[u].ids})]],
         client |-> reg]

NewStorage ==
    LET us == {u \in UIDs : saved[u] # NoClient} IN
    /\ ~running
    /\ Loads(saved)
    /\ index' = loaded(saved)
    /\ custom' = [u \in UIDs |->
                    IF u \in us
                    THEN [NoCustom EXCEPT !.ups = saved[u].ups, !.changed = TRUE, !.live = TRUE]
                    ELSE NoCustom]
    /\ common' = [ver |-> 0, stamp |-> 0]
    /\ closed' = {} /\ builds' = 0
    /\ writer' = Idle /\ reader' = NoReader
    /\ running' = TRUE /\ tied' = FALSE
    /\ UNCHANGED <<dhcp, saved, count>>

-----------------------------------------------------------------------------
(* ApplyClientFiltering, without Storage.mu: the map of the ClientIDs, the *)
(* maps of addresses and subnets, DHCP and the map of hardware addresses,  *)
(* and then the client itself.                                             *)

(* The settings of a request after those of its client are applied.        *)
Apply(c) ==
    [name |-> c.name,
     services |-> IF c.svc THEN "own" ELSE "global",
     filtering |-> IF c.own THEN "own" ELSE "global"]

ApplyClientFiltering(cid, ip) ==
    /\ running /\ reader.pc \in {"idle", "done"}
    /\ reader' = [NoReader EXCEPT !.pc = "cid", !.cid = cid, !.ip = ip]
    /\ CountUp("applies", MaxApplies)
    /\ UNCHANGED <<index, upstreamVars, writer, dhcp, saved, running>>

Lookup(at, uid, next) ==
    /\ reader.pc = at
    /\ reader' = [reader EXCEPT !.uid = uid, !.pc = IF uid # NoUID THEN "load" ELSE next]
    /\ UNCHANGED <<index, upstreamVars, writer, dhcp, saved, running, count>>

ApplyLoad ==
    /\ reader.pc = "load"
    /\ reader' = [reader EXCEPT !.pc = "done", !.uid = NoUID,
                    !.got = IF index.client[reader.uid] = NoClient THEN NilClient
                            ELSE Apply(index.client[reader.uid])]
    /\ UNCHANGED <<index, upstreamVars, writer, dhcp, saved, running, count>>

ApplyStep ==
    \/ Lookup("cid", findByClientID(index, reader.cid), "ip")
    \/ Lookup("ip", findByIP(index, reader.ip), "mac")
    \/ Lookup("mac", findByMAC(index, MACByIP(reader.ip)), "done")
    \/ ApplyLoad

(* DHCP leases an address to another device.                               *)
LeaseChanges(ip, mac) ==
    /\ dhcp[ip] # mac
    /\ dhcp' = [dhcp EXCEPT ![ip] = mac]
    /\ DisturbReader
    /\ CountUp("leases", MaxLeases)
    /\ UNCHANGED <<index, upstreamVars, writer, saved, running>>

-----------------------------------------------------------------------------
Next ==
    \/ \E n \in Names, t \in Templates :
        \/ \E u \in UIDs : handleAddClient(u, n, t)
        \/ \E old \in Names : handleUpdateClient(old, n, t)
    \/ \E n \in Names : handleDelClient(n)
    \/ UpdateAdd
    \/ onConfigModified
    \/ UpdateCommonUpstreamConfig
    \/ \E r \in Requests :
        CustomUpstreamConfig(r[1], r[2]) \/ ApplyClientFiltering(r[1], r[2])
    \/ ApplyStep
    \/ \E l \in Leases : LeaseChanges(l[1], l[2])
    \/ Shutdown
    \/ NewStorage

Spec == Init /\ [][Next]_vars

-----------------------------------------------------------------------------
TypeOK ==
    /\ index.name \in [Names -> UIDs \cup {NoUID}]
    /\ index.id \in [Kinds -> [Strings -> UIDs \cup {NoUID}]]
    /\ \A u \in UIDs : index.client[u] \in Client \cup {NoClient}
    /\ \A u \in UIDs : saved[u] \in Client \cup {NoClient}
    /\ closed \subseteq 1..MaxBuilds
    /\ reader.uid \in UIDs \cup {NoUID}

(* The six maps of the index agree: a name or an identifier leads to a     *)
(* client that has it, and every client is found under its name and all of *)
(* its identifiers (index.go, add and remove).                             *)
IndexesAgree ==
    /\ \A n \in Names, u \in UIDs :
        index.name[n] = u <=> (index.client[u] # NoClient /\ index.client[u].name = n)
    /\ \A id \in Ids, u \in UIDs :
        index.id[id[1]][id[2]] = u
            <=> (index.client[u] # NoClient /\ id \in index.client[u].ids)

(* A lookup finds the client that has the ClientID; failing that, the one  *)
(* that has the address; failing that, the one with the longest prefix     *)
(* around it; failing that, the one with the hardware address that DHCP    *)
(* knows.  (Storage.Find, Storage.CustomUpstreamConfig.)                   *)
Owner(cid, ip) ==
    LET Has(k, s) == {u \in UIDs : index.client[u] # NoClient /\ <<k, s>> \in index.client[u].ids}
        around == {i \in 1..Len(Subnets) : <<Subnets[i], ip>> \in Contains /\ Has("net", Subnets[i]) # {}}
        choices == <<Has("cid", cid), Has("ip", ip),
                     IF around = {} THEN {} ELSE Has("net", Subnets[Min(around)]),
                     Has("mac", MACByIP(ip))>>
        found == {i \in 1..4 : choices[i] # {}}
    IN  IF found = {} THEN {} ELSE choices[Min(found)]

(* A text that the administrator gave as an identifier of a client leads   *)
(* the search handler (FindParams.Set, Find) and the query log (FindLoose) *)
(* to this client, if it is in lower case.                                 *)
IdentifiersResolve ==
    ~Locked =>
        \A u \in UIDs : \A s \in Strings :
            (index.client[u] # NoClient /\ Lower[s] = s /\ setID(s) \in index.client[u].ids)
                => /\ Find(index, FindParamsSet(s)) = u
                   /\ s \notin Nets => FindLoose(index, s) = u

(* Storage.Find, for every ClientID and address a request can have, gives  *)
(* the owner; and an undisturbed call of ApplyClientFiltering, which reads *)
(* the maps one by one without the lock, gives the settings of the owner.  *)
(* The texts of its identifiers lead to it as well.                        *)
FindsOwner ==
    /\ IdentifiersResolve
    /\ ~Locked =>
        \A cid \in ClientIDs \cup {NoAddr}, ip \in IPs :
            LET u == Find(index, [cid |-> cid, ip |-> ip, net |-> NoAddr, mac |-> NoAddr])
            IN  Owner(cid, ip) = IF u = NoUID THEN {} ELSE {u}
    /\ (reader.pc = "done" /\ ~reader.raced) =>
        LET us == Owner(reader.cid, reader.ip)
        IN  \/ us = {} /\ reader.got = NoSettings
            \/ \E u \in us : reader.got = Apply(index.client[u])

(* While the program serves, every client has an entry in the manager of   *)
(* custom upstreams and nobody else has ("Stored UIDs must be in sync with *)
(* the [index.uidToClient]"); and an entry that would be returned without  *)
(* being rebuilt is open and was built from the upstreams the client has   *)
(* now and from the current common settings, unless the clock did not move *)
(* between two changes of these.                                           *)
ServesCurrent ==
    (running /\ ~Locked) =>
        \A u \in UIDs :
            /\ custom[u].live <=> index.client[u] # NoClient
            /\ (custom[u].live /\ ~isConfigChanged(custom[u])) =>
                /\ custom[u].conf.ups = index.client[u].ups
                /\ custom[u].conf.n \notin closed
                /\ ~tied => (custom[u].conf = NoConf \/ custom[u].conf.ver = common.ver)

(* The storage implements the registry of clients with disjoint names and  *)
(* identifiers: its checks on the maps are as good as a comparison with    *)
(* every client, Update is one replacement (at its second step), and a     *)
(* restart gives back what was saved last.                                 *)
RegistryClients ==
    [u \in UIDs |-> IF Locked /\ u = writer.uid THEN writer.old ELSE index.client[u]]

Registry == INSTANCE ClientRegistry
            WITH Clients <- Client, clients <- RegistryClients

ImplementsRegistry == Registry!Spec

(* What ApplyClientFiltering finds in the maps exists: "mu protects indexes *)
(* of persistent and runtime clients" (storage.go).                        *)
AppliedClientExists == reader.got # NilClient
=============================================================================
