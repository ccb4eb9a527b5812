------------------------------ MODULE Filters ------------------------------
(***************************************************************************)
(* The rule lists of the DNS filter: internal/filtering/filter.go, the     *)
(* list handlers of http.go, and the life cycle of the filtering engine in *)
(* filtering.go.                                                           *)
(*                                                                         *)
(* Two arrays of lists (block, allow) are edited by HTTP handlers under    *)
(* filtersMu.  Every one of these handlers is a POST, so they also hold    *)
(* controlLock from beginning to end (home/control.go:225) and never       *)
(* overlap.  A refresh, started by a handler or by the updates loop,       *)
(* takes a snapshot of an array, downloads every list WITHOUT the lock,    *)
(* replacing its file <ID>.txt, and merges the results under the lock.     *)
(* The engine is rebuilt from the files, either by the caller (the         *)
(* refresh) or by the updates loop, which receives its tasks through a     *)
(* channel of capacity one.                                                *)
(*                                                                         *)
(* A document is a sequence of line kinds; a rule is a line that is its    *)
(* own text.  The checksum of a file is the sequence of its rules, so the  *)
(* checksum 0 of a list without rules is the empty sequence.               *)
(***************************************************************************)
EXTENDS Integers, Sequences, FiniteSets, SequencesExt

CONSTANTS
    Handlers,     \* goroutines of the HTTP server
    Urls,         \* sources of lists
    Documents,    \* what a source may serve: sequences of lines
    FirstLists,   \* the lists of the configuration file
    FirstID,      \* the seed of idGen, which is the time
    FirstRemote,  \* what the sources serve at first
    Outages,      \* the changes of sources to explore: pairs of a URL and a document
    NewUrl,       \* the URLs set_url replaces each URL with
    Down,         \* a source that cannot be read
    MaxRequests,  \* bound on the requests
    MaxRemote     \* bound on changes of sources, ticks of the timer and restarts

VARIABLES
    lists,      \* conf.Filters and conf.WhitelistFilters
    rules,      \* conf.UserRules, as a version number
    on,         \* conf.FilteringEnabled
    saved,      \* what the configuration file holds
    files,      \* the files of the lists, a function of their IDs
    remote,     \* what each source serves, or Down
    engine,     \* the rules in use: user rules, block and allow lists
    chan,       \* filtersInitializerChan
    job,        \* what the updates loop and each handler are doing
    timer,      \* the timer of the updates loop has fired
    nextID,     \* idGen
    requests, outages,
    excused     \* history: races after which the engine may be out of date

vars == <<lists, rules, on, saved, files, remote, engine, chan, job, timer, nextID,
          requests, outages, excused>>
conf == <<lists, rules, on, saved>>
env  == <<remote, timer, outages>>

Arrays == {"block", "allow"}
Procs  == Handlers \cup {"loop"}
Idle   == [pc |-> "idle"]

-----------------------------------------------------------------------------
(* The parser of rule lists: rulelist/parser.go.                           *)

\* Comments, blank lines and titles are dropped; markup before the first
\* rule and binary data are errors.
processLine(p, line) ==
    CASE p.err                                  -> p
      [] line = "html" /\ p.sum = <<>>          -> [p EXCEPT !.err = TRUE]
      [] line = "binary"                        -> [p EXCEPT !.err = TRUE]
      [] line = "title"                         -> [p EXCEPT !.titled = TRUE]
      [] line \in {"comment", ""}               -> p
      [] OTHER                                  -> [p EXCEPT !.sum = Append(@, line)]

Parse(doc) == FoldLeft(processLine, [sum |-> <<>>, titled |-> FALSE, err |-> FALSE], doc)

Parsed == [doc \in Documents |-> Parse(doc)]

\* The reader of a source: an error status, a refused connection and a path
\* outside the safe patterns are all errors.
reader(url) ==
    IF remote[url] = Down THEN [sum |-> <<>>, titled |-> FALSE, err |-> TRUE]
                            ELSE Parsed[remote[url]]

-----------------------------------------------------------------------------
(* Lists.                                                                  *)

\* unload forgets the rules of a list, and with them its checksum.
unload(flt) == [flt EXCEPT !.sum = <<>>]

\* updateIntl: a list was updated when it was read without an error and its
\* checksum differs from the one in memory.
Updated(flt) == ~reader(flt.url).err /\ reader(flt.url).sum # flt.sum

\* finalizeUpdate: only an update replaces the file and the checksum.
\* The time of the update is set in any case.
update(flt) ==
    [flt EXCEPT !.sum   = IF Updated(flt) THEN reader(flt.url).sum ELSE @,
                !.fresh = TRUE]

\* The files after the one of flt has been replaced.
Replaced(flt) ==
    [id \in DOMAIN files \cup {flt.id} |-> IF id = flt.id THEN reader(flt.url).sum ELSE files[id]]

\* Mutant: the file is replaced even when the download failed or is blank.
FinalizeAlways(flt) == Replaced(flt)

finalizeUpdate(flt) == IF Updated(flt) THEN Replaced(flt) ELSE files

\* Mutant: only the lists of one kind are looked at.
FilterExistsBlock(url) == \E i \in DOMAIN lists["block"] : lists["block"][i].url = url

filterExists(url) == \E a \in Arrays : \E i \in DOMAIN lists[a] : lists[a][i].url = url

\* slices.IndexFunc for a list by its URL; 0 when there is none.
IndexOf(a, url) == SelectInSeq(lists[a], LAMBDA flt : flt.url = url)

\* The part of the lists that the configuration file keeps.
WriteDiskConfig(ls) ==
    [lists |-> [a \in Arrays |-> [i \in DOMAIN ls[a] |-> [unload(ls[a][i]) EXCEPT !.fresh = FALSE]]],
     rules |-> rules, on |-> on]

\* load reads the checksum from the file of an enabled list.
load(flt) ==
    LET found == flt.enabled /\ flt.id \in DOMAIN files
    IN  [flt EXCEPT !.sum = IF found THEN files[flt.id] ELSE <<>>, !.fresh = found]

\* The indexes in S that come before i.
Before(S, i) == S \cap 1..(i - 1)

\* A list of the configuration file without an ID takes the next one.
WithoutID(array) == {i \in DOMAIN array : array[i].id = 0}

loadFilters(array, next) ==
    [i \in DOMAIN array |->
        load(IF i \notin WithoutID(array) THEN array[i]
             ELSE [array[i] EXCEPT !.id = next + Cardinality(Before(WithoutID(array), i))])]

\* The first list with each URL stays.
FirstOfURL(array) == {i \in DOMAIN array : \A j \in 1..(i - 1) : array[j].url # array[i].url}

deduplicateFilters(array) ==
    LET kept == FirstOfURL(array)
    IN  [k \in 1..Cardinality(kept) |->
            array[CHOOSE i \in kept : Cardinality(Before(kept, i)) = k - 1]]

\* A list whose ID is taken by an earlier one of its array gets the next one.
\* It keeps the checksum that was read from the file of the other one.
Taken(array) == {i \in DOMAIN array : \E j \in 1..(i - 1) : array[j].id = array[i].id}

fix(array, next) ==
    [i \in DOMAIN array |->
        IF i \notin Taken(array) THEN array[i]
        ELSE [array[i] EXCEPT !.id = next + Cardinality(Before(Taken(array), i))]]

\* What New makes of the lists of the configuration file, and the next ID.
Loaded(ls, next) ==
    LET next1 == next + Cardinality(WithoutID(ls["block"]))
        next2 == next1 + Cardinality(WithoutID(ls["allow"]))
        block == deduplicateFilters(loadFilters(ls["block"], next))
        allow == deduplicateFilters(loadFilters(ls["allow"], next1))
        next3 == next2 + Cardinality(Taken(block))
    IN  [lists |-> [a \in Arrays |-> IF a = "block" THEN fix(block, next2) ELSE fix(allow, next3)],
         next  |-> next3 + Cardinality(Taken(allow)),
         fixed |-> \/ \E i \in Taken(block) : block[i].sum # <<>>
                   \/ \E i \in Taken(allow) : allow[i].sum # <<>>]

\* The checksums of documents, and the lists.
Sums == {<<>>} \cup {Parsed[doc].sum : doc \in Documents}

FilterYAML == [id : Nat, url : Urls, enabled : BOOLEAN, sum : Sums, fresh : BOOLEAN]

\* The lists can be loaded: IDs are from the past, and the two arrays have
\* neither a URL nor an ID in common.
Loadable(ls, next) ==
    /\ ls \in [Arrays -> Seq(FilterYAML)]
    /\ \A a \in Arrays : \A i \in DOMAIN ls[a] : ls[a][i].id < next
    /\ \A i \in DOMAIN ls["block"], j \in DOMAIN ls["allow"] :
          /\ ls["block"][i].url # ls["allow"][j].url
          /\ ls["block"][i].id = ls["allow"][j].id => ls["block"][i].id = 0

ASSUME ConstantsAssumption ==
    /\ "loop" \notin Handlers
    /\ {FirstID, MaxRequests, MaxRemote} \subseteq Nat /\ FirstID > 0
    /\ Loadable(FirstLists, FirstID)
    /\ FirstRemote \in [Urls -> Documents \cup {Down}]
    /\ Outages \subseteq Urls \X (Documents \cup {Down})
    /\ NewUrl \in [Urls -> SUBSET Urls]

-----------------------------------------------------------------------------
(* The engine.                                                             *)

\* enableFiltersLocked: the user's rules and the IDs of the enabled lists.
EnabledIDs(array) == {array[i].id : i \in {j \in DOMAIN array : array[j].enabled}}

FilterIDs(a) == EnabledIDs(lists[a])

Params == [rules |-> rules, block |-> FilterIDs("block"), allow |-> FilterIDs("allow")]

\* newRuleStorage opens the files that exist; an open file keeps its
\* contents when it is replaced.
newRuleStorage(ids) == {<<id, files[id]>> : id \in ids \cap DOMAIN files}

Opened(params) ==
    [rules |-> params.rules, block |-> newRuleStorage(params.block),
     allow |-> newRuleStorage(params.allow)]

\* The task of p that has opened its files and not yet set the engine.
\* newer collects the tasks that opened their files later, and late says
\* that one of those has already set the engine.
Opening(p, params, locked) ==
    [q \in Procs |->
        IF q = p THEN [pc |-> "install", engine |-> Opened(params), locked |-> locked,
                       newer |-> {}, late |-> FALSE]
        ELSE IF job[q].pc = "install" THEN [job[q] EXCEPT !.newer = @ \cup {p}]
        ELSE job[q]]

\* initFiltering swaps the engine under engineLock.
initFiltering(p) ==
    /\ job[p].pc = "install"
    /\ engine' = job[p].engine
    /\ excused' = IF job[p].late THEN excused \cup {"late"} ELSE excused
    /\ job' = [q \in Procs |->
                 IF q = p THEN Idle
                 ELSE IF job[q].pc = "install" /\ p \in job[q].newer
                      THEN [job[q] EXCEPT !.late = TRUE]
                      ELSE job[q]]
    /\ UNCHANGED <<conf, files, chan, nextID, requests, env>>

\* A refresh that rebuilds the engine itself holds filtersMu for reading:
\* nobody edits the lists meanwhile.  A task of the channel doesn't.
Unlocked == \A p \in Procs : job[p].pc = "install" => ~job[p].locked

\* Mutant: a pending task is kept and the new one dropped.
SetFiltersKeeps(params) == chan' = IF chan = <<>> THEN <<params>> ELSE chan

\* setFilters, asynchronous: pending tasks are removed from the channel.
setFilters(params) == chan' = <<params>>

\* The end of a handler: ConfigModified and EnableFilters(true).
Enable(h) ==
    /\ job[h].pc = "enable"
    /\ saved' = WriteDiskConfig(lists)
    /\ setFilters(Params)
    /\ job' = [job EXCEPT ![h] = Idle]
    /\ UNCHANGED <<lists, rules, on, files, engine, nextID, requests, env, excused>>

\* The updates loop receives a task.
updatesLoop ==
    /\ job["loop"].pc = "idle"
    /\ chan # <<>>
    /\ chan' = <<>>
    /\ job' = Opening("loop", Head(chan), FALSE)
    /\ UNCHANGED <<conf, files, engine, nextID, requests, env, excused>>

-----------------------------------------------------------------------------
(* HTTP handlers that edit the lists.                                      *)

\* ensure takes controlLock before the handler and keeps it until its end.
controlLockFree == \A g \in Handlers : job[g].pc = "idle"

Request(h) ==
    /\ controlLockFree
    /\ requests < MaxRequests
    /\ requests' = requests + 1

\* A refresh of the list is between its snapshot and its merge.
InFlight(id) ==
    \E p \in Procs :
        /\ job[p].pc = "download"
        /\ \E i \in DOMAIN job[p].lists : job[p].lists[i].id = id

\* The URL is checked, an ID taken, and the list downloaded without a lock.
handleFilteringAddURL(h, a, url) ==
    /\ Request(h)
    /\ ~filterExists(url)
    /\ nextID' = nextID + 1
    /\ job' = [job EXCEPT ![h] =
          [pc |-> "add", array |-> a,
           flt |-> [id |-> nextID, url |-> url, enabled |-> TRUE, sum |-> <<>>, fresh |-> FALSE]]]
    /\ UNCHANGED <<conf, files, engine, chan, env, excused>>

\* An error and a list without rules are refused.
AddDownload(h) ==
    /\ job[h].pc = "add"
    /\ files' = finalizeUpdate(job[h].flt)
    /\ job' = [job EXCEPT ![h] =
          IF Updated(job[h].flt)
          THEN [pc |-> "insert", array |-> job[h].array, flt |-> update(job[h].flt)]
          ELSE Idle]
    /\ UNCHANGED <<conf, engine, chan, nextID, requests, env, excused>>

\* The duplicates are checked again under the lock.
filterAdd(h) ==
    /\ job[h].pc = "insert"
    /\ Unlocked
    /\ IF filterExists(job[h].flt.url)
       THEN /\ job' = [job EXCEPT ![h] = Idle]
            /\ lists' = lists
       ELSE /\ job' = [job EXCEPT ![h] = [pc |-> "enable"]]
            /\ lists' = [lists EXCEPT ![job[h].array] = Append(@, job[h].flt)]
    /\ UNCHANGED <<rules, on, saved, files, engine, chan, nextID, requests, env, excused>>

\* The file is renamed and the list deleted; the engine is rebuilt even if
\* there was no such list or the file could not be renamed.
handleFilteringRemoveURL(h, a, url) ==
    /\ Request(h)
    /\ Unlocked
    /\ LET i == IndexOf(a, url) IN
       \/ /\ i # 0
          /\ files' = [id \in DOMAIN files \ {lists[a][i].id} |-> files[id]]
          /\ lists' = [lists EXCEPT ![a] = RemoveAt(@, i)]
       \/ UNCHANGED <<files, lists>>
    /\ job' = [job EXCEPT ![h] = [pc |-> "enable"]]
    /\ UNCHANGED <<rules, on, saved, engine, chan, nextID, env, excused>>

\* Mutant: disabling a list doesn't restart the engine.
SetPropertiesQuiet(flt, url, enabled) ==
    LET moved   == IF flt.url # url THEN [unload(flt) EXCEPT !.url = url, !.fresh = FALSE] ELSE flt
        new     == [moved EXCEPT !.enabled = enabled]
    IN  IF enabled /\ ~reader(url).err
        THEN [flt |-> update(new), files |-> finalizeUpdate(new), restart |-> Updated(new), err |-> FALSE]
        ELSE [flt |-> unload(new), files |-> files, restart |-> FALSE, err |-> FALSE]

\* filterSetProperties under the lock: a new URL unloads the list; a new URL
\* or a change of an enabled list downloads it; disabling unloads it.  After
\* an error the old URL and state are restored, the checksum isn't.
SetProperties(flt, url, enabled) ==
    LET moved   == IF flt.url # url THEN [unload(flt) EXCEPT !.url = url, !.fresh = FALSE] ELSE flt
        changed == flt.url # url \/ flt.enabled # enabled
        new     == [moved EXCEPT !.enabled = enabled]
    IN  CASE enabled /\ changed /\ reader(url).err ->
               [flt |-> [flt EXCEPT !.sum = moved.sum], files |-> files, restart |-> FALSE, err |-> TRUE]
          [] enabled /\ changed /\ ~reader(url).err ->
               [flt |-> update(new), files |-> finalizeUpdate(new), restart |-> Updated(new), err |-> FALSE]
          [] enabled /\ ~changed ->
               [flt |-> new, files |-> files, restart |-> FALSE, err |-> FALSE]
          [] OTHER ->
               [flt |-> unload(new), files |-> files, restart |-> changed, err |-> FALSE]

handleFilteringSetURL(h, a, url, newURL, enabled) ==
    /\ Request(h)
    /\ Unlocked
    /\ IndexOf(a, url) # 0
    /\ newURL # url => ~filterExists(newURL)
    /\ LET i   == IndexOf(a, url)
           flt == lists[a][i]
           res == SetProperties(flt, newURL, enabled)
       IN  /\ lists' = [lists EXCEPT ![a][i] = res.flt]
           /\ files' = res.files
           /\ saved' = IF res.err THEN saved ELSE WriteDiskConfig(lists')
           /\ job' = [job EXCEPT ![h] = IF res.restart THEN [pc |-> "enable"] ELSE Idle]
           /\ excused' = excused
                \cup (IF InFlight(flt.id) THEN {"edited"} ELSE {})
                \cup (IF enabled /\ ~flt.enabled /\ ~res.err /\ ~res.restart THEN {"blank"} ELSE {})
    /\ UNCHANGED <<rules, on, engine, chan, nextID, env>>

\* The user's rules are assigned without a lock.
handleFilteringSetRules(h) ==
    /\ Request(h)
    /\ rules' = rules + 1
    /\ job' = [job EXCEPT ![h] = [pc |-> "enable"]]
    /\ UNCHANGED <<lists, on, saved, files, engine, chan, nextID, env, excused>>

handleFilteringConfig(h) ==
    /\ Request(h)
    /\ Unlocked
    /\ on' = ~on
    /\ job' = [job EXCEPT ![h] = [pc |-> "enable"]]
    /\ UNCHANGED <<lists, rules, saved, files, engine, chan, nextID, env, excused>>

-----------------------------------------------------------------------------
(* Refreshing.                                                             *)

\* refreshLock is held until the engine is rebuilt; nobody waits for it.
Refreshable == Unlocked /\ \A q \in Procs : job[q].pc \notin {"snapshot", "download"}

\* A refresh that has these arrays to go.
Snapshot(arrays, force, updated, netErr) ==
    [pc |-> "snapshot", arrays |-> arrays, force |-> force, updated |-> updated, netErr |-> netErr]

tryRefreshFilters(p, arrays, force) ==
    /\ Refreshable
    /\ job' = [job EXCEPT ![p] = Snapshot(arrays, force, 0, FALSE)]

handleFilteringRefresh(h, a) ==
    /\ Request(h)
    /\ tryRefreshFilters(h, <<a>>, TRUE)
    /\ UNCHANGED <<conf, files, engine, chan, nextID, env, excused>>

\* Mutant: the timer is not set again.
PeriodicNoReset ==
    /\ job["loop"].pc = "idle"
    /\ timer
    /\ tryRefreshFilters("loop", <<"block", "allow">>, FALSE) \/ (~Refreshable /\ job' = job)
    /\ UNCHANGED <<conf, files, engine, chan, nextID, requests, env, excused>>

\* The timer of the updates loop starts a refresh of both arrays, unless
\* another refresh is running, and is set again to at least some seconds.
periodicallyRefreshFilters ==
    /\ job["loop"].pc = "idle"
    /\ timer
    /\ timer' = FALSE
    /\ tryRefreshFilters("loop", <<"block", "allow">>, FALSE) \/ (~Refreshable /\ job' = job)
    /\ UNCHANGED <<conf, files, engine, chan, nextID, requests, remote, outages, excused>>

\* The lists are copied under the lock: the enabled ones that are due.  A
\* copy keeps the index of its list.
Due(a, force) ==
    {i \in DOMAIN lists[a] : lists[a][i].enabled /\ (force \/ ~lists[a][i].fresh)}

\* The copies of the first of j's arrays, and the results so far.
Downloading(j, copies, results) ==
    [pc |-> "download", arrays |-> j.arrays, force |-> j.force, updated |-> j.updated,
     netErr |-> j.netErr, lists |-> copies, results |-> results]

listsToUpdate(p) ==
    LET j == job[p] IN
    /\ j.pc = "snapshot"
    /\ j.arrays # <<>>
    /\ LET a   == Head(j.arrays)
           due == Due(a, j.force)
       IN  job' = [job EXCEPT ![p] =
             IF due = {} THEN Snapshot(Tail(j.arrays), j.force, j.updated, j.netErr)
             ELSE Downloading(j, [i \in due |-> lists[a][i]], <<>>)]
    /\ UNCHANGED <<conf, files, engine, chan, nextID, requests, env, excused>>

\* One list of the copy is downloaded, the first of the rest.
Outcome(flt) ==
    IF Updated(flt) THEN "updated" ELSE IF reader(flt.url).err THEN "failed" ELSE "same"

Download(p) ==
    LET j    == job[p]
        rest == DOMAIN j.lists \ DOMAIN j.results
        n    == Min(rest)
        flt  == j.lists[n]
    IN  /\ j.pc = "download"
        /\ rest # {}
        /\ files' = finalizeUpdate(flt)
        /\ job' = [job EXCEPT ![p] = Downloading(j, [j.lists EXCEPT ![n] = update(flt)],
                [m \in DOMAIN j.results \cup {n} |-> IF m = n THEN Outcome(flt) ELSE j.results[m]])]
        /\ UNCHANGED <<conf, engine, chan, nextID, requests, env, excused>>

\* A list takes the results of the copy with its ID and URL.
Merge(flt, p) ==
    LET same == {n \in DOMAIN job[p].lists :
                    job[p].lists[n].id = flt.id /\ job[p].lists[n].url = flt.url}
    IN  IF same = {} THEN flt
        ELSE LET n == CHOOSE n \in same : TRUE
             IN  [flt EXCEPT !.fresh = TRUE,
                             !.sum   = IF job[p].results[n] = "updated" THEN job[p].lists[n].sum ELSE @]

\* Mutant: the array is replaced by its refreshed copy.
MergeCopy(a, p) == SetToSeq({job[p].lists[n] : n \in DOMAIN job[p].lists})

MergeArray(a, p) == [i \in DOMAIN lists[a] |-> Merge(lists[a][i], p)]

\* How many lists the merge updates.
UpdateCount(p) ==
    Cardinality({n \in DOMAIN job[p].lists :
        /\ job[p].results[n] = "updated"
        /\ \E i \in DOMAIN lists[Head(job[p].arrays)] :
              /\ lists[Head(job[p].arrays)][i].id  = job[p].lists[n].id
              /\ lists[Head(job[p].arrays)][i].url = job[p].lists[n].url})

refreshFiltersArray(p) ==
    LET j      == job[p]
        a      == Head(j.arrays)
        failed == \A n \in DOMAIN j.results : j.results[n] = "failed"
    IN  /\ j.pc = "download"
        /\ DOMAIN j.results = DOMAIN j.lists
        /\ \/ /\ failed
              /\ job' = [job EXCEPT ![p] = Snapshot(Tail(j.arrays), j.force, j.updated, TRUE)]
              /\ lists' = lists
           \/ /\ ~failed
              /\ Unlocked
              /\ lists' = [lists EXCEPT ![a] = MergeArray(a, p)]
              /\ job' = [job EXCEPT
                    ![p] = Snapshot(Tail(j.arrays), j.force, j.updated + UpdateCount(p), j.netErr)]
        /\ UNCHANGED <<rules, on, saved, files, engine, chan, nextID, requests, env, excused>>

\* The end: after a network error in either array, or when nothing was
\* updated, the engine stays as it is.  Else this process rebuilds it.
refreshFiltersIntl(p) ==
    /\ job[p].pc = "snapshot"
    /\ job[p].arrays = <<>>
    /\ IF job[p].netErr \/ job[p].updated = 0
       THEN job' = [job EXCEPT ![p] = Idle]
       ELSE job' = Opening(p, Params, TRUE)
    /\ excused' = IF job[p].netErr /\ job[p].updated # 0 THEN excused \cup {"network"} ELSE excused
    /\ UNCHANGED <<conf, files, engine, chan, nextID, requests, env>>

-----------------------------------------------------------------------------
(* The environment, crashes and the start.                                 *)

RemoteChanges(url, doc) ==
    /\ outages < MaxRemote
    /\ outages' = outages + 1
    /\ doc # remote[url]
    /\ remote' = [remote EXCEPT ![url] = doc]
    /\ UNCHANGED <<conf, files, engine, chan, job, timer, nextID, requests, excused>>

\* Every list is due for an update, and the timer fires.
TimePasses ==
    /\ ~timer
    /\ timer' = TRUE
    /\ outages < MaxRemote
    /\ outages' = outages + 1
    /\ lists' = [a \in Arrays |-> [i \in DOMAIN lists[a] |-> [lists[a][i] EXCEPT !.fresh = FALSE]]]
    /\ UNCHANGED <<rules, on, saved, files, remote, engine, chan, job, nextID, requests, excused>>

\* The program is killed and started again: New loads the lists from the
\* configuration file and their checksums from the files, and the engine is
\* built before the updates loop starts.
New ==
    /\ outages < MaxRemote
    /\ outages' = outages + 1
    /\ LET new == Loaded(saved.lists, nextID) IN
       /\ lists' = new.lists
       /\ nextID' = new.next
       /\ engine' = Opened([rules |-> saved.rules, block |-> EnabledIDs(new.lists["block"]),
                            allow |-> EnabledIDs(new.lists["allow"])])
       /\ excused' = IF new.fixed THEN {"fixed"} ELSE {}
    /\ rules' = saved.rules
    /\ on' = saved.on
    /\ chan' = <<>>
    /\ job' = [p \in Procs |-> Idle]
    /\ timer' = TRUE
    /\ UNCHANGED <<saved, files, remote, requests>>

Init ==
    /\ files = <<>>
    /\ lists = Loaded(FirstLists, FirstID).lists
    /\ nextID = Loaded(FirstLists, FirstID).next
    /\ rules = 0
    /\ on = TRUE
    /\ saved = [lists |-> FirstLists, rules |-> 0, on |-> TRUE]
    /\ remote = FirstRemote
    /\ engine = [rules |-> 0, block |-> {}, allow |-> {}]
    /\ chan = <<>>
    /\ job = [p \in Procs |-> Idle]
    /\ timer = TRUE
    /\ requests = 0 /\ outages = 0
    /\ excused = {}

RefreshStep(p) ==
    listsToUpdate(p) \/ Download(p) \/ refreshFiltersArray(p) \/ refreshFiltersIntl(p)

HandlerStep(h) == AddDownload(h) \/ filterAdd(h) \/ Enable(h) \/ RefreshStep(h) \/ initFiltering(h)

LoopStep == updatesLoop \/ periodicallyRefreshFilters \/ RefreshStep("loop") \/ initFiltering("loop")

Edit(h) ==
    \/ \E a \in Arrays, url \in Urls :
          \/ handleFilteringAddURL(h, a, url)
          \/ handleFilteringRemoveURL(h, a, url)
          \/ \E new \in NewUrl[url], enabled \in BOOLEAN :
                handleFilteringSetURL(h, a, url, new, enabled)
    \/ handleFilteringSetRules(h)
    \/ handleFilteringConfig(h)
    \/ \E a \in Arrays : handleFilteringRefresh(h, a)

Next ==
    \/ \E h \in Handlers : Edit(h) \/ HandlerStep(h)
    \/ LoopStep
    \/ \E o \in Outages : RemoteChanges(o[1], o[2])
    \/ TimePasses
    \/ New

\* Handlers and the updates loop go on with what they have begun.
Fairness ==
    /\ \A h \in Handlers : WF_vars(HandlerStep(h))
    /\ WF_vars(LoopStep)

Spec == Init /\ [][Next]_vars /\ Fairness
-----------------------------------------------------------------------------
(* Properties.                                                             *)

AllLists == UNION {{lists[a][i] : i \in DOMAIN lists[a]} : a \in Arrays}

\* Nobody is working and no task is pending.
Quiet == chan = <<>> /\ \A p \in Procs : job[p].pc = "idle"

\* Two lists, of one kind or of both, never share a URL or, through their
\* ID, a file: neither when the configuration file gives a list twice or
\* without an ID, nor after additions, changes of URLs and restarts in any
\* order (filter.go:129, filter.go:202).
SourcesUnique ==
    \A a, b \in Arrays : \A i \in DOMAIN lists[a], j \in DOMAIN lists[b] :
        (lists[a][i].url = lists[b][j].url \/ lists[a][i].id = lists[b][j].id) => a = b /\ i = j

\* Once everybody is done the checksum in memory is the one of the file, so
\* that a refresh which sees no change leaves nothing behind, except after a
\* list was edited while a refresh was downloading it (filter.go:322), and
\* after a list took the checksum of another one with its ID (filter.go:233).
ChecksumIsFile ==
    Quiet /\ excused \cap {"edited", "fixed"} = {} =>
        \A flt \in AllLists : flt.enabled /\ flt.sum # <<>> =>
            flt.id \in DOMAIN files /\ files[flt.id] = flt.sum

\* Once everybody is done the engine holds the user's rules and the contents
\* of exactly the enabled lists.  Four things may leave it out of date: a
\* list edited while it is refreshed, a network error in the other array
\* (filter.go:412), a blank list that gets enabled (filter.go:148), and a
\* rebuild that overtakes another one (filtering.go:827).
EngineCurrent == Quiet /\ excused \subseteq {"fixed"} => engine = Opened(Params)

\* Whatever races happen, a list that is removed or disabled is not used any
\* more once everybody is done (http.go:187, filter.go:156).
DisabledNotApplied ==
    Quiet =>
        \A a \in Arrays : \A e \in engine[a] : e[1] \in FilterIDs(a)

\* A refresh that finishes after a list was removed doesn't bring it back
\* (filter.go:347).
RemovedStaysRemoved ==
    [][\A id \in 1..(nextID - 1) :
          /\ \A flt \in AllLists : flt.id # id
          /\ \A h \in Handlers : job[h].pc \in {"add", "insert"} => job[h].flt.id # id
          => New \/ \A flt \in AllLists' : flt.id # id]_vars

\* Every change reaches the engine: the channel and all the work in progress
\* drain again and again (filtering.go:1124).
WorkDrains == []<>Quiet
=============================================================================
