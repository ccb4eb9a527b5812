------------------------------- MODULE DHCPv4 -------------------------------
(***************************************************************************)
(* The DHCPv4 server (internal/dhcpd/v4_unix.go with db.go): the leases,   *)
(* their two indexes and the bit set of leased addresses, under            *)
(* leasesLock.  Every packet is handled by a goroutine of its own and the  *)
(* HTTP API edits static leases meanwhile.  A handler is one atomic step,  *)
(* except DHCPREQUEST, which takes the lock twice: it looks its lease up,  *)
(* unlocks, and then commits the pointer it has got.                       *)
(*                                                                         *)
(* Leases are pointers: srv.leases and the indexes hold identifiers of     *)
(* objects in srv.obj, and one object may be referred to from several      *)
(* places.                                                                 *)
(***************************************************************************)
EXTENDS Integers, SequencesExt

CONSTANTS
    Macs,        \* hardware addresses of the clients
    ZeroMac,     \* the all-zero address of a blocklisted lease
    Hosts,       \* the hostnames clients ask for
    NoHost,      \* the empty hostname
    AdminHosts,  \* the hostnames administrators ask for, generated ones too
    None,        \* the nil pointer
    PoolSize,    \* the range is 0..PoolSize-1; address PoolSize lies in the
                 \* subnet but outside the range
    LeaseTime,   \* conf.leaseTime
    BusySets,    \* the sets of addresses that may answer addrAvailable's ping
    MaxTime,     \* bound: the clock stops here
    MaxAdmin,    \* bound: number of HTTP requests
    MaxDeclines, \* bound: number of DHCPDECLINE messages
    MaxRestarts, \* bound: number of restarts
    Tolerated    \* bound: the mishaps a run explores; see mishaps

VARIABLES
    now,     \* the clock; 0 is Go's zero time
    srv,     \* the state of v4Server
    db,      \* the leases stored in the database file
    pend,    \* pend[m]: m's DHCPREQUEST between checkLease and commitLease,
             \* or its DHCPDECLINE between the notification and the rest
    ack,     \* ack[m]: the address m may use, and until when
    used,    \* how often the bounded events have happened
    mishaps  \* history: which of the handlers' weak spots have been met

vars == <<now, srv, db, pend, ack, used, mishaps>>
Pool == 0..(PoolSize - 1)
IPs  == 0..PoolSize
Gen(ip) == <<"generated", ip>>  \* aghnet.GenerateHostname
Names == Hosts \cup {Gen(ip) : ip \in IPs} \cup {NoHost}

ASSUME ConstantsAssumption ==
    /\ ZeroMac \notin Macs /\ NoHost \notin Hosts /\ None \notin Nat
    /\ AdminHosts \subseteq Names
    /\ {PoolSize, LeaseTime} \subseteq Nat \ {0}
    /\ {MaxTime, MaxAdmin, MaxDeclines, MaxRestarts} \subseteq Nat
    /\ BusySets \subseteq SUBSET Pool

Lease == [mac : Macs \cup {ZeroMac}, ip : IPs, host : Names, exp : Nat,
          static : BOOLEAN]
Blank == [mac |-> ZeroMac, ip |-> 0, host |-> NoHost, exp |-> 0,
          static |-> FALSE]

Referred(s, p) ==
    (Range(s.leases) \cup Range(s.hostsIndex) \cup Range(s.ipIndex)
        \cup {p[m].id : m \in Macs}) \ {None}

(* Go's garbage collector forgets the objects that nothing refers to; the  *)
(* others are renumbered, those in the list of leases first, so that equal *)
(* states look equal.                                                      *)
Collect(s, p) ==
    LET live == Referred(s, p)
        listed == Range(s.leases)
        key == [i \in live |->
                  IF i \in listed
                  THEN Min({k \in DOMAIN s.leases : s.leases[k] = i})
                  ELSE Len(s.leases) + i]
        num == [i \in live \cup {None} |->
                  IF i = None THEN None
                  ELSE Cardinality({j \in live : key[j] <= key[i]})]
    IN  [srv |-> [s EXCEPT
                    !.obj = [i \in 1..Cardinality(live) |->
                               @[CHOOSE j \in live : num[j] = i]],
                    !.leases = [k \in DOMAIN @ |-> num[@[k]]],
                    !.hostsIndex = [h \in Names |-> num[@[h]]],
                    !.ipIndex = [ip \in IPs |-> num[@[ip]]]],
         pend |-> [m \in Macs |-> [p[m] EXCEPT !.id = num[@]]]]

Become(s, p) ==
    \E c \in {Collect(s, p)} : srv' = c.srv /\ pend' = c.pend

Fresh(s) == Len(s.obj) + 1

New(s, l) == [s EXCEPT !.obj = Append(@, l)]

-----------------------------------------------------------------------------
(* Helpers of the handlers, as functions on the server's state.            *)

(* ipRange.offset returns 0 for an address outside the range.              *)
offset(ip) == IF ip \in Pool THEN ip ELSE 0

validHostnameForClient(h, ip) == IF h = NoHost THEN Gen(ip) ELSE h

(* Faulty: a lease is over one instant early.                              *)
ExpiredEarly(l) == ~l.static /\ l.exp <= now + 1

(* Expiry.Before(now); a lease of the instant now + LeaseTime is over when *)
(* the clock shows that instant.                                           *)
Expired(l) == ~l.static /\ l.exp <= now

(* Faulty: no checks, and the address is not marked.                       *)
addLeaseUnmarked(s, id) ==
    LET l == s.obj[id]
    IN  [err |-> FALSE,
         srv |-> [s EXCEPT
                    !.hostsIndex[l.host] = IF l.host = NoHost THEN @ ELSE id,
                    !.ipIndex[l.ip] = id,
                    !.leases = Append(@, id)]]

(* addLease: an error leaves the state alone.                              *)
addLease(s, id) ==
    LET l == s.obj[id]
        bad == \/ ~l.static /\ l.ip \notin Pool
               \/ l.host # NoHost /\ s.hostsIndex[l.host] # None
    IN  [err |-> bad,
         srv |-> IF bad THEN s ELSE
                 [s EXCEPT
                    !.hostsIndex[l.host] = IF l.host = NoHost THEN @ ELSE id,
                    !.ipIndex[l.ip] = id,
                    !.leases = Append(@, id),
                    !.leasedOffsets = @ \cup {offset(l.ip)}]]

(* Removes element i from the slice by shifting the rest of its array: arr *)
(* is that array as a loop that has started before sees it, with its old   *)
(* length, so that its last slots keep their old contents.                 *)
Shift(st, i) ==
    LET left == RemoveAt(st.srv.leases, i)
    IN  [st EXCEPT !.srv.leases = left,
                   !.arr = left \o SubSeq(@, Len(st.srv.leases), Len(@))]

(* Faulty: the hostname stays in its index.                                *)
rmLeaseKeepsHost(st, i) ==
    LET l == st.srv.obj[st.srv.leases[i]]
    IN  IF i > Len(st.srv.leases) THEN st ELSE
        [Shift(st, i) EXCEPT !.srv.leasedOffsets = @ \ {l.ip},
                             !.srv.ipIndex[l.ip] = None]

rmLeaseByIndex(st, i) ==
    LET l == st.srv.obj[st.srv.leases[i]]
    IN  IF i > Len(st.srv.leases) THEN st ELSE
        [Shift(st, i) EXCEPT
           !.srv.leasedOffsets = IF l.ip \in Pool THEN @ \ {l.ip} ELSE @,
           !.srv.hostsIndex[l.host] = None,
           !.srv.ipIndex[l.ip] = None]

(* Empties the hostname of id if it is that of lease, not the index.       *)
emptyHostname(st, id, lease) ==
    IF st.srv.obj[id].host = st.srv.obj[lease].host
    THEN [st EXCEPT !.srv.obj[id].host = NoHost] ELSE st

(* The body of rmDynamicLease's loop: the removal of element i exposes its *)
(* successor, which is only looked at for its hostname.                    *)
rmDynamicStep(st, i, lease) ==
    LET l == st.srv.obj[st.arr[i]]
        match == \/ l.mac = st.srv.obj[lease].mac
                 \/ l.ip = st.srv.obj[lease].ip
        rm == rmLeaseByIndex(st, i)
    IN  CASE st.stop -> st
          [] ~st.stop /\ match /\ l.static -> [st EXCEPT !.stop = TRUE,
                                                         !.err = TRUE]
          [] ~st.stop /\ match /\ ~l.static ->
                IF i > Len(rm.srv.leases) THEN [rm EXCEPT !.stop = TRUE]
                ELSE emptyHostname(rm, rm.srv.leases[i], lease)
          [] ~st.stop /\ ~match /\ ~l.static ->
                emptyHostname(st, st.arr[i], lease)
          [] OTHER -> st

Start(s) == [srv |-> s, arr |-> s.leases, stop |-> FALSE, err |-> FALSE]

rmDynamicLoop(s, lease) ==
    LET loop[i \in 0..Len(s.leases)] ==
            IF i = 0 THEN Start(s) ELSE rmDynamicStep(loop[i - 1], i, lease)
    IN  loop

rmDynamicLease(s, lease) == rmDynamicLoop(s, lease)[Len(s.leases)]

(* rmLease removes the first lease with the IP if it has the same          *)
(* properties.                                                             *)
rmLease(s, l) ==
    LET at == {i \in DOMAIN s.leases : s.obj[s.leases[i]].ip = l.ip}
        found == s.obj[s.leases[Min(at)]]
    IN  IF s.leases = <<>> THEN [srv |-> s, err |-> FALSE]
        ELSE IF at = {} \/ found.mac # l.mac \/ found.host # l.host
        THEN [srv |-> s, err |-> TRUE]
        ELSE [srv |-> rmLeaseByIndex(Start(s), Min(at)).srv, err |-> FALSE]

FirstLease(s, P(_)) ==
    LET at == {i \in DOMAIN s.leases : P(s.obj[s.leases[i]])}
    IN  IF at = {} THEN None ELSE s.leases[Min(at)]

findLease(s, mac) == FirstLease(s, LAMBDA l : l.mac = mac)

findLeaseForIP(s, ip, mac) == FirstLease(s, LAMBDA l : l.mac = mac /\ l.ip = ip)

(* checkLease looks at the first lease of the client only.                 *)
checkLease(s, mac, ip) ==
    LET id == findLease(s, mac)
    IN  IF id # None /\ s.obj[id].ip = ip THEN id ELSE None

(* reserveLease: the lowest free address, or an expired lease, whose       *)
(* hardware address is overwritten.                                        *)
reserveLease(s, mac) ==
    LET free == Pool \ s.leasedOffsets
        l == [Blank EXCEPT !.mac = mac, !.ip = Min(free)]
        old == FirstLease(s, Expired)
    IN  IF free # {} THEN [srv |-> addLease(New(s, l), Fresh(s)).srv,
                           id |-> Fresh(s)]
        ELSE IF old = None THEN [srv |-> s, id |-> None]
        ELSE [srv |-> [s EXCEPT !.obj[old].mac = mac], id |-> old]

blocklistLease(s, id) ==
    [s EXCEPT !.obj[id].mac = ZeroMac, !.obj[id].host = NoHost,
              !.obj[id].exp = now + LeaseTime]

(* allocateLease blocklists the addresses that answer a ping until one     *)
(* does not or none is left; each turn uses up a free or expired lease.    *)
allocateStep(prev, mac, busy) ==
    LET r == reserveLease(prev.srv, mac)
    IN  IF prev.stop THEN prev
        ELSE IF r.id = None \/ r.srv.obj[r.id].ip \notin busy
        THEN [srv |-> r.srv, id |-> r.id, stop |-> TRUE]
        ELSE [srv |-> blocklistLease(r.srv, r.id), id |-> None, stop |-> FALSE]

Turns(s) == PoolSize + Len(s.leases) + 1

allocateLoop(s, mac, busy) ==
    LET loop[k \in 0..Turns(s)] ==
            IF k = 0 THEN [srv |-> s, id |-> None, stop |-> FALSE]
            ELSE allocateStep(loop[k - 1], mac, busy)
    IN  loop

allocateLease(s, mac, busy) == allocateLoop(s, mac, busy)[Turns(s)]

(* commitLease does not check that the lease is still the client's.        *)
commitLease(s, id, h) ==
    LET l == s.obj[id]
        want == validHostnameForClient(h, l.ip)
        host == IF s.hostsIndex[want] = None THEN want
                ELSE IF l.host = NoHost THEN Gen(l.ip) ELSE l.host
    IN  [s EXCEPT
           !.obj[id].host = host,
           !.obj[id].exp = now + LeaseTime,
           !.hostsIndex = [n \in Names |->
                             IF n = host THEN id
                             ELSE IF n = l.host THEN None ELSE @[n]],
           !.ipIndex[l.ip] = id]

(* ResetLeases, on the leases of the database in the order of the file:    *)
(* dynamic leases without a hostname get the generated one.                *)
Named(l) == IF l.static THEN l
            ELSE [l EXCEPT !.host = validHostnameForClient(@, l.ip)]

NoLeases == [obj |-> <<>>, leases |-> <<>>,
             hostsIndex |-> [h \in Names |-> None],
             ipIndex |-> [ip \in IPs |-> None], leasedOffsets |-> {}]

ResetLoop(stored) ==
    LET loop[k \in 0..Len(stored)] ==
            IF k = 0 THEN NoLeases
            ELSE addLease(New(loop[k - 1], Named(stored[k])), k).srv
    IN  loop

ResetLeases(stored) == ResetLoop(stored)[Len(stored)]

(* Faulty: only the leases that are in force.                              *)
StoredLive(s) == {l \in {s.obj[id] : id \in Range(s.leases)} : ~Expired(l)}

(* What dbStore puts into the file.                                        *)
Stored(s) == {s.obj[id] : id \in Range(s.leases)}

(* The outer loop of handleRelease, over the array that rmDynamicLease     *)
(* changes under it.                                                       *)
ReleaseStep(st, i, mac, ip) ==
    LET l == st.srv.obj[st.arr[i]]
        r == rmDynamicLease(st.srv, st.arr[i])
    IN  IF st.err \/ l.mac # mac \/ l.ip # ip THEN st
        ELSE [srv |-> r.srv, err |-> r.err,
              arr |-> r.arr \o SubSeq(st.arr, Len(r.arr) + 1, Len(st.arr))]

ReleaseLoop(s, mac, ip) ==
    LET loop[i \in 0..Len(s.leases)] ==
            IF i = 0 THEN [srv |-> s, arr |-> s.leases, err |-> FALSE]
            ELSE ReleaseStep(loop[i - 1], i, mac, ip)
    IN  loop

ReleaseLeases(s, mac, ip) == ReleaseLoop(s, mac, ip)[Len(s.leases)]

-----------------------------------------------------------------------------
(* The history of mishaps: each is a weak spot of a handler that the       *)
(* properties have to be read modulo.                                      *)

When(P, mishap) == IF P THEN {mishap} ELSE {}

(* Records mishaps; a run does not follow those outside of Tolerated.      *)
Note(M) == M \subseteq Tolerated /\ mishaps' = mishaps \cup M

(* rmDynamicLease has left a lease it should have removed behind.          *)
SkipIf(s, mac, ip) ==
    When(\E id \in Range(s.leases) : s.obj[id].mac = mac \/ s.obj[id].ip = ip,
         "skip")

(* A lease has lost its hostname while the index has kept it.              *)
BlankIf(s, t) ==
    When(\E id \in Range(s.leases) \cap Range(t.leases) :
            s.obj[id].host # NoHost /\ t.obj[id].host = NoHost,
         "blank")

(* The administrator has taken away an address that is in use.             *)
EvictIf(t) ==
    When(\E m \in Macs : /\ ack[m] # None
                         /\ ~\E id \in Range(t.leases) :
                             t.obj[id].mac = m /\ t.obj[id].ip = ack[m].ip,
         "evict")

-----------------------------------------------------------------------------
Idle == [pc |-> "idle", id |-> None, host |-> NoHost, ip |-> 0]

(* The server starts with an empty database.                               *)
Init ==
    /\ now = 1
    /\ srv = NoLeases
    /\ db = {}
    /\ pend = [m \in Macs |-> Idle]
    /\ ack = [m \in Macs |-> None]
    /\ used = [admin |-> 0, decline |-> 0, restart |-> 0]
    /\ mishaps = {}

(* notify(LeaseChangedDBStore): dbStore and writeDB.                       *)
dbStore == db' = Stored(srv')

handleDiscover(m) ==
    /\ \E busy \in BusySets :
       \E s \in {IF findLease(srv, m) # None THEN srv
                 ELSE allocateLease(srv, m, busy).srv} :
          /\ Become(s, pend)
          /\ Note(BlankIf(srv, s))
    /\ dbStore
    /\ UNCHANGED <<now, ack, used>>

(* The first half of handleRequest, whatever the state of the client.      *)
handleByRequestType(m) ==
    /\ pend[m].pc = "idle"
    /\ \E ip \in IPs, h \in Hosts \cup {NoHost} :
          LET id == checkLease(srv, m, ip)
          IN  /\ id # None
              /\ pend' = [pend EXCEPT ![m] = [Idle EXCEPT !.pc = "commit",
                                                !.id = id, !.host = h]]
    /\ UNCHANGED <<now, srv, db, ack, used, mishaps>>

(* The second half of handleRequest, and the acknowledgement.              *)
handleRequest(m) ==
    LET id == pend[m].id
        l == srv.obj[id]
        raced == l.mac # m \/ id \notin Range(srv.leases)
    IN  /\ pend[m].pc = "commit"
        /\ \E s \in {IF l.static THEN srv
                     ELSE commitLease(srv, id, pend[m].host)} :
             /\ Become(s, [pend EXCEPT ![m] = Idle])
             /\ Note(When(raced, "race") \cup
                     When(/\ s.obj[id].host # l.host
                          /\ srv.hostsIndex[s.obj[id].host] # None, "dupname"))
        /\ ack' = [ack EXCEPT ![m] = [ip |-> l.ip, exp |-> now + LeaseTime]]
        /\ dbStore
        /\ UNCHANGED <<now, used>>

(* The client has given the address up before it says so.                  *)
GiveUp(m, ip) ==
    [ack EXCEPT ![m] = IF @ # None /\ @.ip = ip THEN None ELSE @]

handleRelease(m) ==
    /\ \E ip \in IPs :
       \E r \in {ReleaseLeases(srv, m, ip)} :
          /\ Become(r.srv, pend)
          /\ ack' = GiveUp(m, ip)
          /\ Note(BlankIf(srv, r.srv) \cup
                  IF findLeaseForIP(srv, ip, m) # None /\ ~r.err
                  THEN SkipIf(r.srv, m, ip) ELSE {})
    /\ dbStore
    /\ UNCHANGED <<now, used>>

(* handleDecline stores the leases first ...                               *)
handleDeclineNotify(m) ==
    /\ pend[m].pc = "idle"
    /\ used.decline < MaxDeclines
    /\ \E ip \in IPs :
          /\ pend' = [pend EXCEPT ![m] = [Idle EXCEPT !.pc = "decline",
                                            !.ip = ip]]
          /\ ack' = GiveUp(m, ip)
    /\ db' = Stored(srv)
    /\ used' = [used EXCEPT !.decline = @ + 1]
    /\ UNCHANGED <<now, srv, mishaps>>

(* ... and changes them afterwards.  allocateLease has added the new lease *)
(* already; addLease adds the same pointer again.                          *)
Decline(s, old, mac, busy) ==
    LET rm == rmDynamicLease(s, old)
        new == allocateLease(rm.srv, mac, busy)
        set == [new.srv EXCEPT !.obj[new.id].host = new.srv.obj[old].host,
                               !.obj[new.id].exp = now + LeaseTime]
    IN  IF rm.err THEN rm.srv
        ELSE IF new.id = None THEN new.srv
        ELSE addLease(set, new.id).srv

handleDecline(m) ==
    LET old == findLeaseForIP(srv, pend[m].ip, m)
    IN  /\ pend[m].pc = "decline"
        /\ \E busy \in BusySets :
             Become(IF old = None THEN srv ELSE Decline(srv, old, m, busy),
                    [pend EXCEPT ![m] = Idle])
        /\ Note(When(old # None, "decline"))
        /\ UNCHANGED <<now, db, ack, used>>

-----------------------------------------------------------------------------
(* The HTTP API.                                                           *)

AdminRequest ==
    /\ used.admin < MaxAdmin
    /\ used' = [used EXCEPT !.admin = @ + 1]
    /\ UNCHANGED <<now, ack>>

StaticLease(m, ip, h) ==
    [mac |-> m, ip |-> ip, host |-> h, exp |-> 0, static |-> TRUE]

updateStaticLease(s, l) ==
    LET rm == rmDynamicLease(New(s, l), Fresh(s))
        add == addLease(rm.srv, Fresh(s))
    IN  [srv |-> IF rm.err THEN rm.srv ELSE add.srv,
         ok |-> ~rm.err /\ ~add.err,
         skip |-> IF rm.err THEN {} ELSE SkipIf(rm.srv, l.mac, l.ip)]

(* An error after rmDynamicLease leaves its changes in place, unstored.    *)
AddStaticLease ==
    /\ AdminRequest
    /\ \E m \in Macs, ip \in IPs, h \in AdminHosts :
       \E r \in {updateStaticLease(srv, StaticLease(m, ip, h))} :
          /\ Become(r.srv, pend)
          /\ IF r.ok THEN dbStore ELSE UNCHANGED db
          /\ Note(r.skip \cup BlankIf(srv, r.srv) \cup EvictIf(r.srv)
                  \cup When(~r.ok /\ srv' # srv, "unstored"))

(* validateStaticLease rejects an empty hostname and duplicates.           *)
validateStaticLease(s, l) ==
    /\ l.host # NoHost
    /\ \A dup \in {s.hostsIndex[l.host], s.ipIndex[l.ip]} \ {None} :
          s.obj[dup].mac = l.mac

ReplaceLease(s, found, l) ==
    LET rm == rmLease(s, s.obj[found])
        add == addLease(New(rm.srv, l), Fresh(rm.srv))
    IN  [srv |-> IF rm.err THEN rm.srv ELSE add.srv,
         ok |-> ~rm.err /\ ~add.err]

UpdateStaticLease ==
    /\ AdminRequest
    /\ \E m \in Macs, ip \in IPs, h \in AdminHosts :
          /\ findLease(srv, m) # None
          /\ validateStaticLease(srv, StaticLease(m, ip, h))
          /\ \E r \in {ReplaceLease(srv, findLease(srv, m),
                                    StaticLease(m, ip, h))} :
               /\ Become(r.srv, pend)
               /\ IF r.ok THEN dbStore ELSE UNCHANGED db
               /\ Note(EvictIf(r.srv)
                       \cup When(~r.ok /\ srv' # srv, "unstored"))

RemoveStaticLease ==
    /\ AdminRequest
    /\ \E id \in Range(srv.leases) :
       \E rm \in {rmLease(srv, srv.obj[id])} :
          /\ ~rm.err
          /\ Become(rm.srv, pend)
          /\ dbStore
          /\ Note(EvictIf(rm.srv))

resetLeases ==
    /\ AdminRequest
    /\ Become([NoLeases EXCEPT !.obj = srv.obj], pend)
    /\ dbStore
    /\ Note(EvictIf(NoLeases))

-----------------------------------------------------------------------------
(* The environment.                                                        *)

(* A client stops using its address when its time is over.                 *)
Tick ==
    /\ now < MaxTime
    /\ now' = now + 1
    /\ ack' = [m \in Macs |-> IF ack[m] # None /\ ack[m].exp <= now' THEN None
                              ELSE ack[m]]
    /\ UNCHANGED <<srv, db, pend, used, mishaps>>

(* A lease counts as stored with the address, client and time of ack[m],   *)
(* or as a static one.                                                     *)
Backed(m, ls) ==
    ack[m] # None =>
        \E l \in ls : /\ l.mac = m /\ l.ip = ack[m].ip
                      /\ l.static \/ l.exp >= ack[m].exp

(* writeDB sorts the leases by hostname, the unnamed ones first; which of  *)
(* two names is the lesser is left open.                                   *)
Sorted(order) ==
    \A i, j \in DOMAIN order :
        i < j /\ order[j].host = NoHost => order[i].host = NoHost

(* The process stops at any moment and loads the database (dbLoad).        *)
Restart ==
    /\ used.restart < MaxRestarts
    /\ used' = [used EXCEPT !.restart = @ + 1]
    /\ \E order \in SetToSeqs(db) :
          Sorted(order) /\ Become(ResetLeases(order), [m \in Macs |-> Idle])
    /\ Note(When(\E m \in Macs : ~Backed(m, db), "lost")
            \cup When(Len(srv'.leases) < Cardinality(db), "dropped"))
    /\ UNCHANGED <<now, db, ack>>

Next ==
    \/ \E m \in Macs :
          \/ handleDiscover(m) \/ handleByRequestType(m) \/ handleRequest(m)
          \/ handleRelease(m) \/ handleDeclineNotify(m) \/ handleDecline(m)
    \/ AddStaticLease \/ UpdateStaticLease \/ RemoveStaticLease \/ resetLeases
    \/ Tick \/ Restart

Spec == Init /\ [][Next]_vars
-----------------------------------------------------------------------------
(* P holds as long as none of the mishaps in M has happened.               *)
Unless(M, P) == mishaps \cap M = {} => P

(* The type invariant: every pointer of v4Server is to a lease, only bits  *)
(* of the range are ever set, and a client's time is never over.           *)
TypeOK ==
    /\ now \in 1..(MaxTime + 1)
    /\ srv \in [obj : Seq(Lease), leases : Seq(DOMAIN srv.obj),
                hostsIndex : [Names -> DOMAIN srv.obj \cup {None}],
                ipIndex : [IPs -> DOMAIN srv.obj \cup {None}],
                leasedOffsets : SUBSET Pool]
    /\ db \subseteq Lease
    /\ \A m \in Macs : pend[m].id \in DOMAIN srv.obj \cup {None}
    /\ \A m \in Macs : ack[m] # None => ack[m].ip \in IPs /\ ack[m].exp > now

Leases == {srv.obj[id] : id \in Range(srv.leases)}

(* No two leases have the same address, whoever asked for them, as the     *)
(* comment on ErrDupIP has it (v4_unix.go:320).                            *)
AddressesUnique ==
    \A i, j \in DOMAIN srv.leases :
        i # j => srv.obj[srv.leases[i]].ip # srv.obj[srv.leases[j]].ip

(* No client has two leases, and no address: reserving, stealing an        *)
(* expired lease, static leases and restarts together.  rmDynamicLease may *)
(* leave one behind ("skip"), handleDecline adds one twice, and a commit   *)
(* of a lost lease ("race") takes the address over in ipIndex, on which    *)
(* validateStaticLease relies (v4_unix.go:710, v4_unix.go:497).            *)
UniqueLeases ==
    Unless({"skip", "decline", "race"},
        /\ AddressesUnique
        /\ \A i, j \in DOMAIN srv.leases :
              LET mac == srv.obj[srv.leases[i]].mac
              IN  i # j /\ mac # ZeroMac => srv.obj[srv.leases[j]].mac # mac)

(* nextIP relies on the bit set alone: the bit of every leased address of  *)
(* the range is set, whatever sequence of additions and removals led here. *)
OffsetsCover ==
    Unless({"skip", "decline", "race"},
        \A l \in Leases : l.ip \in Pool => l.ip \in srv.leasedOffsets)

(* Two clients that the server has acknowledged never use one address at   *)
(* the same time, over expiry, reuse of expired leases and restarts.       *)
NoSharedAddress ==
    Unless({"skip", "decline", "race", "evict", "lost", "dropped"},
        \A m, n \in Macs :
            m # n /\ ack[m] # None /\ ack[n] # None => ack[m].ip # ack[n].ip)

(* HostByIP, FindMACbyIP and IPByHost answer from the indexes: they hold   *)
(* every lease under its own address and name, and nothing else.           *)
IndexesAgree ==
    Unless({"skip", "decline", "race", "blank", "dupname"},
        /\ \A id \in Range(srv.leases) :
              LET l == srv.obj[id]
              IN  /\ srv.ipIndex[l.ip] = id
                  /\ l.host # NoHost => srv.hostsIndex[l.host] = id
        /\ \A ip \in IPs : srv.ipIndex[ip] # None =>
              /\ srv.ipIndex[ip] \in Range(srv.leases)
              /\ srv.obj[srv.ipIndex[ip]].ip = ip
        /\ \A h \in Names : srv.hostsIndex[h] # None =>
              /\ srv.hostsIndex[h] \in Range(srv.leases)
              /\ srv.obj[srv.hostsIndex[h]].host = h)

(* No two leases have the same hostname: commitLease "generates a unique   *)
(* one if the provided can't be used" (v4_unix.go:683).                    *)
HostnamesUnique ==
    \A i, j \in DOMAIN srv.leases :
        LET h == srv.obj[srv.leases[i]].host
        IN  i # j /\ h # NoHost => srv.obj[srv.leases[j]].host # h

Same(l, k) ==
    l.mac = k.mac /\ l.ip = k.ip /\ l.exp = k.exp /\ l.static = k.static

(* A restart keeps every lease with its client, address and expiry, except *)
(* one whose hostname, or the one generated for it, another lease has or   *)
(* gets.  handleDecline and a failed AddStaticLease do not store their     *)
(* changes, and an earlier restart that has dropped a lease has left it in *)
(* the file, where its name is taken still.                                *)
RestartKeepsLeases ==
    [][Unless({"decline", "unstored", "dropped"},
         used'.restart # used.restart =>
           \A l \in Leases :
             \/ \E k \in Leases' : Same(l, k)
             \/ \E k \in Leases \ {l} :
                   Named(l).host # NoHost /\ Named(k).host = Named(l).host)]_vars
=============================================================================
