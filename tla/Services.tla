------------------------------ MODULE Services ------------------------------
(***************************************************************************)
(* The blocked services: internal/filtering/blocked.go and                 *)
(* blockedservices.go.                                                     *)
(*                                                                         *)
(* A service loader downloads the definitions of services from the         *)
(* configured URLs and keeps them in memory and in files.  The handlers    *)
(* take the services from the loader into two package variables,           *)
(* serviceIDs and serviceRules, which nothing protects.  Every change of   *)
(* the URLs makes a new loader, which a goroutine preloads.                *)
(*                                                                         *)
(* GetBlockedServices holds the loader's lock for reading when it finds    *)
(* nothing loaded, and calls LoadServices, which takes the same lock for   *)
(* writing.  A pending writer also keeps later readers out.                *)
(***************************************************************************)
EXTENDS Integers, Sequences, FiniteSets

CONSTANTS
    Handlers,     \* goroutines of the HTTP server
    Urls,         \* sources of service definitions
    Builtin,      \* the services built into the program
    Offers,       \* the services each source offers
    None,
    MaxRequests, MaxLoaders

VARIABLES
    urls,         \* conf.ServiceURLs
    loader,       \* serviceLoader: the number of the current loader
    loaders,      \* every loader: its URLs, services, and lock
    cached,       \* the files of the loaders: the URLs that have one
    ids, rules,   \* serviceIDs and the keys of serviceRules
    blocked,      \* conf.BlockedServices.IDs
    pc,           \* what each process is doing
    requests

vars == <<urls, loader, loaders, cached, ids, rules, blocked, pc, requests>>

Procs == Handlers \cup (1..MaxLoaders)   \* a loader's number is also its preloading goroutine

Idle == [at |-> "idle", then |-> [op |-> "none"]]

NewServiceLoader(us) == [urls |-> us, services |-> {}, readers |-> {}, writer |-> None, waiting |-> {}]

-----------------------------------------------------------------------------
(* The loader's lock: sync.RWMutex.                                        *)

RLock(p, l) ==
    /\ loaders[l].writer = None
    /\ loaders[l].waiting = {}
    /\ loaders' = [loaders EXCEPT ![l].readers = @ \cup {p}]

\* A writer first announces itself, and goes on when the readers are gone.
LockWait(p, l) == loaders' = [loaders EXCEPT ![l].waiting = @ \cup {p}]

MayLock(p, l) == loaders[l].readers = {} /\ loaders[l].writer = None /\ p \in loaders[l].waiting

-----------------------------------------------------------------------------
(* Loading.                                                                *)

\* loadFromURL: from the file when there is one, else from the source, which
\* may be down.  up is the set of the sources that answer.
loadFromURL(url, up) == IF url \in cached \cup up THEN Offers[url] ELSE {}

\* Only a result with services replaces what is loaded.
Loads(l, up) ==
    IF loaders[l].services # {} THEN loaders[l].services
    ELSE UNION {loadFromURL(u, up) : u \in loaders[l].urls}

\* LoadServices: what a process does after it goes on to next.
LoadServices(p, next) ==
    LET l == pc[p].loader IN
    \/ /\ pc[p].at = "lock"
       /\ p \notin loaders[l].waiting
       /\ LockWait(p, l)
       /\ UNCHANGED <<urls, loader, cached, ids, rules, blocked, pc, requests>>
    \/ /\ pc[p].at = "lock"
       /\ MayLock(p, l)
       /\ \E up \in SUBSET loaders[l].urls :
             /\ loaders' = [loaders EXCEPT ![l].services = Loads(l, up), ![l].waiting = @ \ {p}]
             /\ cached' = IF loaders[l].services # {} THEN cached ELSE cached \cup up
       /\ pc' = [pc EXCEPT ![p] = next]
       /\ UNCHANGED <<urls, loader, ids, rules, blocked, requests>>

\* GetBlockedServices: the services that are loaded, or else LoadServices
\* with the lock still held for reading.
GetBlockedServices(p) ==
    LET l == pc[p].loader IN
    \/ /\ pc[p].at = "get"
       /\ RLock(p, l)
       /\ pc' = [pc EXCEPT ![p].at = "read"]
       /\ UNCHANGED <<urls, loader, cached, ids, rules, blocked, requests>>
    \/ /\ pc[p].at = "read"
       /\ IF loaders[l].services # {}
          THEN /\ loaders' = [loaders EXCEPT ![l].readers = @ \ {p}]
               /\ pc' = [pc EXCEPT ![p] =
                     [at |-> "ids", loader |-> l, then |-> @.then, found |-> loaders[l].services]]
          ELSE /\ loaders' = loaders
               /\ pc' = [pc EXCEPT ![p].at = "lock"]
       /\ UNCHANGED <<urls, loader, cached, ids, rules, blocked, requests>>

\* updateBlockedServicesFromLoader sets the two variables one after the other.
SetIDs(p) ==
    /\ pc[p].at = "ids"
    /\ ids' = pc[p].found
    /\ pc' = [pc EXCEPT ![p].at = "rules"]
    /\ UNCHANGED <<urls, loader, loaders, cached, rules, blocked, requests>>

SetRules(p) ==
    /\ pc[p].at = "rules"
    /\ rules' = pc[p].found
    /\ pc' = [pc EXCEPT ![p] = [at |-> "then", then |-> @.then]]
    /\ UNCHANGED <<urls, loader, loaders, cached, ids, blocked, requests>>

-----------------------------------------------------------------------------
(* Handlers.                                                               *)

\* The handlers of POST and PUT requests hold controlLock all the time; those
\* of GET requests, which only read, do not.
controlLockFree == \A g \in Handlers : pc[g].then.op \in {"none", "read"}

\* A handler first takes the services from the current loader; then says
\* what it does after that.
Update(h, then) ==
    /\ pc[h].at = "idle"
    /\ requests < MaxRequests
    /\ requests' = requests + 1
    /\ pc' = [pc EXCEPT ![h] = [at |-> "get", loader |-> loader, then |-> then]]
    /\ UNCHANGED <<urls, loader, loaders, cached, ids, rules, blocked>>

\* handleBlockedServicesIDs and handleBlockedServicesAll only answer.
handleBlockedServicesIDs(h) == Update(h, [op |-> "read"])

handleBlockedServicesSet(h, list) == controlLockFree /\ Update(h, [op |-> "set", list |-> list])

\* handleBlockedServicesUpdate validates the IDs after it has updated them.
handleBlockedServicesUpdate(h, list) ==
    controlLockFree /\ Update(h, [op |-> "update", list |-> list])

Validate(list) == list \subseteq rules

Finish(h) ==
    /\ pc[h].at = "then"
    /\ blocked' = CASE pc[h].then.op = "set" -> pc[h].then.list
                    [] pc[h].then.op = "update" /\ Validate(pc[h].then.list) -> pc[h].then.list
                    [] OTHER -> blocked
    /\ pc' = [pc EXCEPT ![h] = Idle]
    /\ UNCHANGED <<urls, loader, loaders, cached, ids, rules, requests>>

\* handleBlockedServicesReload loads and then updates.
handleBlockedServicesReload(h) ==
    /\ pc[h].at = "idle" /\ controlLockFree
    /\ requests < MaxRequests
    /\ requests' = requests + 1
    /\ pc' = [pc EXCEPT ![h] = [at |-> "lock", loader |-> loader, then |-> [op |-> "answer"]]]
    /\ UNCHANGED <<urls, loader, loaders, cached, ids, rules, blocked>>

\* initServiceLoader makes a new loader and preloads it in a goroutine.
initServiceLoader(us) ==
    /\ Len(loaders) < MaxLoaders
    /\ loaders' = Append(loaders, NewServiceLoader(us))
    /\ loader' = Len(loaders) + 1

\* handleServiceURLsSet: a new loader, which the handler loads as well, and
\* then the update.
handleServiceURLsSet(h, us) ==
    /\ pc[h].at = "idle" /\ controlLockFree
    /\ requests < MaxRequests
    /\ requests' = requests + 1
    /\ urls' = us
    /\ initServiceLoader(us)
    /\ pc' = [pc EXCEPT ![h] = [at |-> "lock", loader |-> loader', then |-> [op |-> "answer"]],
                        ![loader'] = [at |-> "lock", loader |-> loader', then |-> [op |-> "preload"]]]
    /\ UNCHANGED <<cached, ids, rules, blocked>>

\* The process that has loaded goes on to take the services from the loader
\* its variable names now; a preloading goroutine ends.
AfterLoad(p) ==
    IF pc[p].then.op = "preload" \/ p \in loaders[pc[p].loader].readers THEN Idle
    ELSE [at |-> "get", loader |-> loader, then |-> pc[p].then]

Init ==
    /\ urls = {CHOOSE u \in Urls : TRUE}
    /\ loader = 1
    /\ loaders = <<NewServiceLoader(urls)>>
    /\ cached = {}
    /\ ids = Builtin
    /\ rules = Builtin
    /\ blocked = {}
    /\ pc = [p \in Procs |-> IF p = 1 THEN [at |-> "lock", loader |-> 1, then |-> [op |-> "preload"]]
                             ELSE Idle]
    /\ requests = 0

Step(p) == LoadServices(p, AfterLoad(p)) \/ GetBlockedServices(p) \/ SetIDs(p) \/ SetRules(p) \/ Finish(p)

Next ==
    \/ \E p \in Procs : Step(p)
    \/ \E h \in Handlers :
          \/ handleBlockedServicesIDs(h)
          \/ handleBlockedServicesReload(h)
          \/ \E list \in {{}, Builtin} : handleBlockedServicesSet(h, list) \/ handleBlockedServicesUpdate(h, list)
          \/ \E u \in Urls : handleServiceURLsSet(h, {u})

\* Every handler and goroutine goes on unless it waits for a lock; every
\* waiting writer gets a lock that stays free.
Spec == Init /\ [][Next]_vars /\ \A p \in Procs : WF_vars(Step(p))

-----------------------------------------------------------------------------
\* Every request for the blocked services is answered, also when loading
\* fails: blockedservices.go:107 says "If loading fails, return the built-in
\* service list".
RequestsAnswered == \A h \in Handlers : []<>(pc[h].at = "idle")
=============================================================================
