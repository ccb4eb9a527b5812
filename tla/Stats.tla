-------------------------------- MODULE Stats --------------------------------
(***************************************************************************)
(* The statistics (internal/stats): the unit of the current hour, counted  *)
(* in memory, and the database with the units of the previous hours.  DNS  *)
(* handlers call Update, periodicFlush moves the unit to the database when *)
(* the hour changes, HTTP handlers read and clear the statistics and       *)
(* change their configuration, and the main goroutine closes them.         *)
(*                                                                         *)
(* A unit is the set of the entries counted in it.  A bbolt database is an *)
(* object: after os.Remove a new file with the same name is another one,   *)
(* and the old one lives on in those who hold it.  controlLock (package    *)
(* home) admits one modifying HTTP request at a time: the Admin.           *)
(***************************************************************************)
EXTENDS Integers

CONSTANTS
    Entries,      \* the DNS requests to be counted
    Readers,      \* goroutines that serve GET /control/stats
    Flusher,      \* the goroutine of periodicFlush
    Main,         \* the goroutine that calls Close
    Admin,        \* the goroutine that holds controlLock
    None,         \* the nil pointer, and no owner of a lock
    Limits,       \* the retention limits in use, in hours
    MaxHour,      \* bound: the clock stops here
    MaxClears,    \* bound: number of clears
    MaxReads,     \* bound: number of GET requests
    MaxConfs,     \* bound: number of configuration changes
    MaxFails,     \* bound: number of database errors
    MaxRestarts   \* bound: number of starts after the first

ASSUME ConstantsAssumption ==
    /\ Limits # {} /\ Limits \subseteq Nat \ {0}
    /\ {MaxHour, MaxClears, MaxReads, MaxConfs, MaxFails, MaxRestarts}
          \subseteq Nat
    /\ Flusher # Main /\ Flusher # Admin /\ Main # Admin
    /\ None \notin Readers \cup {Flusher, Main, Admin} \cup 1..(1 + MaxClears + MaxRestarts)
    /\ Readers \cap {Flusher, Main, Admin} = {}

VARIABLES
    hour,      \* unitIDGen(): the number of the current hour
    conf,      \* enabled and limit
    confMu,    \* the holders of confMu: [w |-> writer, r |-> readers]
    currMu,    \* the holder of currMu for writing
    curr,      \* the current unit: [id |-> hour, set |-> entries]
    db,        \* the database s.db points to, or None
    path,      \* the database the file name stands for, or None
    files,     \* files[k]: its units by hour, whether it is open, its writer
    flusher,   \* where periodicFlush is: [pc, id, h]
    closer,    \* where Close is: [pc, h]
    clearer,   \* where clear is: [pc, h, locked]
    reader,    \* where every GET is, and what it has read
    idle,      \* the entries that have not come yet
    at,        \* history: the unit in which each entry was counted
    due,       \* history: the counted entries that must still be there
    cleared,   \* history: what the running or last clear has to remove
    spoiled,   \* history: the unit was saved while that clear ran, or it failed
    stale,     \* history: a flush has replaced a unit by one of an older hour
    saved,     \* history: Close has saved the unit
    used       \* how often the bounded events have happened

memVars   == <<hour, conf, confMu, currMu>>
storeVars == <<curr, db, path, files>>
procVars  == <<flusher, closer, clearer, reader>>
histVars  == <<idle, at, due, cleared, spoiled, stale, saved>>
vars == <<memVars, storeVars, procVars, histVars, used>>

Hours == 0..MaxHour
Free == [w |-> None, r |-> {}]
NewFile == [units |-> [h \in Hours |-> {}], open |-> TRUE, tx |-> None]
Ids == 1..(1 + MaxClears + MaxRestarts)

(* An empty unit.                                                           *)
newUnit(id) == [id |-> id, set |-> {}]

NotFlushing == [pc |-> "idle", id |-> 0, h |-> None]
NotClosing  == [pc |-> "idle", h |-> None]
NotClearing == [pc |-> "idle", h |-> None, locked |-> FALSE]
NotReading  == [pc |-> "idle", h |-> None, must |-> {}, seen |-> {}]

Count(what, bound) ==
    used[what] < bound /\ used' = [used EXCEPT ![what] = @ + 1]

Init ==
    /\ hour = 0
    /\ conf \in [enabled : BOOLEAN, limit : Limits]
    /\ confMu = Free /\ currMu = None
    /\ curr = newUnit(0)
    /\ db = 1 /\ path = 1
    /\ files = [k \in Ids |-> [NewFile EXCEPT !.open = (k = 1)]]
    /\ flusher = NotFlushing /\ closer = NotClosing /\ clearer = NotClearing
    /\ reader = [r \in Readers |-> NotReading]
    /\ idle = Entries /\ at = [e \in Entries |-> 0] /\ due = {}
    /\ cleared = {}
    /\ spoiled = FALSE /\ stale = FALSE /\ saved = FALSE
    /\ used = [clear |-> 0, read |-> 0, conf |-> 0, fail |-> 0, restart |-> 0,
               file |-> 1]

-----------------------------------------------------------------------------
(* sync.RWMutex and bbolt, from how the code uses them.  What holds currMu *)
(* for reading does not wait while it does.                                *)

LockConf(p) == confMu = Free /\ confMu' = [confMu EXCEPT !.w = p]
UnlockConf == confMu' = [confMu EXCEPT !.w = None]
RLockConf(p) == confMu.w = None /\ confMu' = [confMu EXCEPT !.r = @ \cup {p}]
RUnlockConf(p) == confMu' = [confMu EXCEPT !.r = @ \ {p}]

(* db.Begin(true) waits for the writer; it fails on a closed database.     *)
Begin(k, p) ==
    /\ files[k].open /\ files[k].tx = None
    /\ files' = [files EXCEPT ![k].tx = p]

(* db.Close waits for the writer.                                          *)
CloseFile(k) ==
    /\ files[k].tx = None
    /\ files' = [files EXCEPT ![k].open = FALSE]

(* bbolt.Open without a timeout creates the file if there is none, and     *)
(* waits for whoever has it open.                                          *)
Open(p, fs, n) ==
    IF p = None THEN [path |-> n + 1, files |-> [fs EXCEPT ![n + 1] = NewFile],
                      n |-> n + 1]
    ELSE [path |-> p, files |-> [fs EXCEPT ![p].open = TRUE], n |-> n]

-----------------------------------------------------------------------------
(* Update locks confMu and then currMu; whoever holds currMu does not ask  *)
(* for confMu, so that both locks are taken in one step here.  The DNS     *)
(* server, which calls Update, is closed before the statistics.            *)
Update(e) ==
    /\ e \in idle
    /\ closer.pc = "idle"
    /\ confMu = Free /\ currMu = None
    /\ idle' = idle \ {e}
    /\ at' = [at EXCEPT ![e] = curr.id]
    /\ curr' = IF conf.enabled THEN [curr EXCEPT !.set = @ \cup {e}] ELSE curr
    /\ due' = IF conf.enabled /\ clearer.pc = "idle" THEN due \cup {e} ELSE due
    /\ UNCHANGED <<memVars, db, path, files, procVars, cleared, spoiled, stale,
                   saved, used>>

-----------------------------------------------------------------------------
(* periodicFlush.                                                          *)

notFlushVars == <<hour, conf, db, path, closer, clearer, reader, idle, at,
                  cleared, saved>>

Flushing(pc) == flusher' = [flusher EXCEPT !.pc = pc]

(* The hour is read before the locks are taken.                            *)
flush ==
    /\ flusher.pc = "idle"
    /\ flusher' = [pc |-> "conf", id |-> hour, h |-> None]
    /\ UNCHANGED <<notFlushVars, confMu, currMu, curr, files, due, spoiled,
                   stale, used>>

FlushLockConf ==
    /\ flusher.pc = "conf"
    /\ LockConf(Flusher)
    /\ Flushing("curr")
    /\ UNCHANGED <<notFlushVars, currMu, curr, files, due, spoiled, stale, used>>

FlushLockCurr ==
    /\ flusher.pc = "curr"
    /\ currMu = None /\ currMu' = Flusher
    /\ Flushing("check")
    /\ UNCHANGED <<notFlushVars, confMu, curr, files, due, spoiled, stale, used>>

FlushReturn == UnlockConf /\ currMu' = None /\ flusher' = NotFlushing

FlushNothing ==
    /\ flusher.pc = "check"
    /\ curr.id = flusher.id \/ db = None
    /\ FlushReturn
    /\ UNCHANGED <<notFlushVars, curr, files, due, spoiled, stale, used>>

(* flushDB loads the database, begins a transaction ...                    *)
FlushLoad ==
    /\ flusher.pc = "check"
    /\ curr.id # flusher.id /\ db # None
    /\ flusher' = [flusher EXCEPT !.pc = "begin", !.h = db]
    /\ UNCHANGED <<notFlushVars, confMu, currMu, curr, files, due, spoiled,
                   stale, used>>

FlushBegin ==
    /\ flusher.pc = "begin"
    /\ Begin(flusher.h, Flusher)
    /\ Flushing("write")
    /\ UNCHANGED <<notFlushVars, confMu, currMu, curr, due, spoiled, stale, used>>

FlushBeginFails ==
    /\ flusher.pc = "begin"
    /\ ~files[flusher.h].open
    /\ FlushReturn
    /\ UNCHANGED <<notFlushVars, curr, files, due, spoiled, stale, used>>

(* ... puts the unit into the database and deletes the bucket that is      *)
(* limit hours old, or, in the faulty variant, one that is younger.        *)
FlushedEarly(units, u, id) ==
    [[units EXCEPT ![u.id] = u.set] EXCEPT ![id - conf.limit + 1] = {}]

Flushed(units, u, id) ==
    [h \in Hours |-> IF h = id - conf.limit THEN {}
                     ELSE IF h = u.id THEN u.set ELSE units[h]]

(* The end of flushDB, where the entries of lost leave the statistics.     *)
FlushEnd(lost) ==
    /\ due' = {e \in due \ lost : at[e] > flusher.id - conf.limit}
    /\ spoiled' = (spoiled \/ clearer.pc # "idle")
    /\ stale' = (stale \/ curr.id > flusher.id)
    /\ FlushReturn
    /\ UNCHANGED notFlushVars

(* Faulty: goes on with the old counters.                                  *)
FlushKeepsCounters ==
    /\ flusher.pc = "write"
    /\ curr' = [curr EXCEPT !.id = flusher.id]
    /\ files' = [files EXCEPT ![flusher.h].units = Flushed(@, curr, flusher.id),
                              ![flusher.h].tx = None]
    /\ FlushEnd({})
    /\ UNCHANGED used

flushDB ==
    /\ flusher.pc = "write"
    /\ curr' = newUnit(flusher.id)
    /\ files' = [files EXCEPT ![flusher.h].units = Flushed(@, curr, flusher.id),
                              ![flusher.h].tx = None]
    /\ FlushEnd({})
    /\ UNCHANGED used

(* An error rolls the transaction back after the unit has been replaced:   *)
(* what it counted is lost.                                                *)
FlushFails ==
    /\ flusher.pc = "write"
    /\ Count("fail", MaxFails)
    /\ curr' = newUnit(flusher.id)
    /\ files' = [files EXCEPT ![flusher.h].tx = None]
    /\ FlushEnd(curr.set)

-----------------------------------------------------------------------------
(* Close.                                                                  *)

notCloseVars == <<hour, conf, confMu, currMu, curr, path, flusher, clearer,
                  reader, idle, at, due, cleared, stale, used>>

Close ==
    /\ closer.pc = "idle"
    /\ closer' = [pc |-> IF db = None THEN "closed" ELSE "begin", h |-> db]
    /\ db' = None
    /\ UNCHANGED <<notCloseVars, files, spoiled, saved>>

CloseBegin ==
    /\ closer.pc = "begin"
    /\ Begin(closer.h, Main)
    /\ closer' = [closer EXCEPT !.pc = "put"]
    /\ UNCHANGED <<notCloseVars, db, spoiled, saved>>

(* The unit is put under currMu.RLock, the transaction ends afterwards.    *)
ClosePut ==
    /\ closer.pc = "put"
    /\ currMu = None
    /\ files' = [files EXCEPT ![closer.h].units[curr.id] = curr.set,
                              ![closer.h].tx = None]
    /\ closer' = [closer EXCEPT !.pc = "close"]
    /\ saved' = TRUE
    /\ spoiled' = (spoiled \/ clearer.pc # "idle")
    /\ UNCHANGED <<notCloseVars, db>>

CloseDB ==
    /\ closer.pc = "close"
    /\ CloseFile(closer.h)
    /\ closer' = [closer EXCEPT !.pc = "closed"]
    /\ UNCHANGED <<notCloseVars, db, spoiled, saved>>

-----------------------------------------------------------------------------
(* clear: stats_reset calls it without a lock, setLimit(0) under confMu.   *)

notClearVars == <<hour, flusher, closer, reader, idle, at, stale, saved>>

Clearing(pc) == clearer' = [clearer EXCEPT !.pc = pc]

(* From here on nothing counted before is owed to anybody.                 *)
clear(locked) ==
    /\ clearer.pc = "idle"
    /\ Count("clear", MaxClears)
    /\ clearer' = [pc |-> "close", h |-> db, locked |-> locked]
    /\ db' = None
    /\ due' = {}
    /\ cleared' = Entries \ idle /\ spoiled' = FALSE
    /\ UNCHANGED <<notClearVars, currMu, curr, path, files>>

handleStatsReset == clear(FALSE) /\ UNCHANGED <<conf, confMu>>

(* Begin and Rollback only wait for the writer, and so does Close.         *)
ClearClose ==
    /\ clearer.pc = "close"
    /\ IF clearer.h = None THEN UNCHANGED files ELSE CloseFile(clearer.h)
    /\ Clearing("remove")
    /\ UNCHANGED <<notClearVars, conf, confMu, currMu, curr, db, path, due,
                   cleared, spoiled, used>>

ClearRemove ==
    /\ clearer.pc = "remove"
    /\ path' = None
    /\ Clearing("open")
    /\ UNCHANGED <<notClearVars, conf, confMu, currMu, curr, db, files, due,
                   cleared, spoiled, used>>

(* The removal fails, which is logged.                                     *)
RemoveFails ==
    /\ clearer.pc = "remove"
    /\ Count("fail", MaxFails)
    /\ Clearing("open")
    /\ spoiled' = TRUE
    /\ UNCHANGED <<notClearVars, conf, confMu, currMu, storeVars, due, cleared>>

openDB ==
    /\ clearer.pc = "open"
    /\ IF path = None THEN TRUE ELSE ~files[path].open
    /\ \E o \in {Open(path, files, used.file)} :
          /\ path' = o.path /\ files' = o.files /\ db' = o.path
          /\ used' = [used EXCEPT !.file = o.n]
    /\ Clearing("reset")
    /\ UNCHANGED <<notClearVars, conf, confMu, currMu, curr, due, cleared,
                   spoiled>>

OpenFails ==
    /\ clearer.pc = "open"
    /\ Count("fail", MaxFails)
    /\ Clearing("reset")
    /\ UNCHANGED <<notClearVars, conf, confMu, currMu, storeVars, due, cleared,
                   spoiled>>

(* The current unit is replaced last.  The faulty variant keeps it.        *)
ClearKeepsUnit ==
    /\ clearer.pc = "reset"
    /\ currMu = None
    /\ clearer' = NotClearing
    /\ IF clearer.locked THEN UnlockConf ELSE UNCHANGED confMu
    /\ UNCHANGED <<notClearVars, conf, currMu, storeVars, due, cleared,
                   spoiled, used>>

ClearReset ==
    /\ clearer.pc = "reset"
    /\ currMu = None
    /\ curr' = newUnit(hour)
    /\ clearer' = NotClearing
    /\ IF clearer.locked THEN UnlockConf ELSE UNCHANGED confMu
    /\ UNCHANGED <<notClearVars, conf, currMu, db, path, files, due, cleared,
                   spoiled, used>>

-----------------------------------------------------------------------------
(* The configuration handlers.                                             *)

SetConf(c) ==
    /\ clearer.pc = "idle"
    /\ confMu = Free
    /\ Count("conf", MaxConfs)
    /\ conf' = c
    /\ UNCHANGED <<hour, confMu, currMu, storeVars, procVars, histVars>>

(* A limit of 0 disables and clears the statistics.                        *)
handleStatsConfig(limit) ==
    \/ limit # 0 /\ SetConf([enabled |-> TRUE, limit |-> limit])
    \/ /\ limit = 0
       /\ LockConf(Admin)
       /\ conf' = [conf EXCEPT !.enabled = FALSE]
       /\ clear(TRUE)

handlePutStatsConfig(on, limit) == SetConf([enabled |-> on, limit |-> limit])

-----------------------------------------------------------------------------
(* GET /control/stats, and likewise TopClientsIP.                          *)

notReadVars == <<hour, conf, currMu, curr, db, path, flusher, closer, clearer,
                 histVars>>

handleStats(r) ==
    /\ reader[r].pc = "idle"
    /\ Count("read", MaxReads)
    /\ RLockConf(r)
    /\ reader' = [reader EXCEPT ![r] = [pc |-> "begin", h |-> db, must |-> due,
                                        seen |-> {}]]
    /\ UNCHANGED <<notReadVars, files>>

ReadBegin(r) ==
    /\ reader[r].pc = "begin" /\ reader[r].h # None
    /\ Begin(reader[r].h, r)
    /\ reader' = [reader EXCEPT ![r].pc = "units"]
    /\ UNCHANGED <<notReadVars, confMu, used>>

ReadFails(r) ==
    /\ reader[r].pc = "begin"
    /\ IF reader[r].h = None THEN TRUE ELSE ~files[reader[r].h].open
    /\ RUnlockConf(r)
    /\ reader' = [reader EXCEPT ![r] = NotReading]
    /\ UNCHANGED <<notReadVars, files, used>>

(* The hours before the current one that a request looks at; the faulty    *)
(* variant starts one hour late.                                           *)
WindowShort(id) == {h \in Hours : id - conf.limit + 1 < h /\ h < id}
Window(id) == {h \in Hours : id - conf.limit < h /\ h < id}

loadUnits(r) ==
    /\ reader[r].pc = "units"
    /\ currMu = None
    /\ reader' = [reader EXCEPT
                    ![r].pc = "read",
                    ![r].seen = curr.set \cup UNION {files[reader[r].h].units[h] :
                                                     h \in Window(curr.id)}]
    /\ files' = [files EXCEPT ![reader[r].h].tx = None]
    /\ UNCHANGED <<notReadVars, confMu, used>>

ReadReturn(r) ==
    /\ reader[r].pc = "read"
    /\ RUnlockConf(r)
    /\ reader' = [reader EXCEPT ![r] = NotReading]
    /\ UNCHANGED <<notReadVars, files, used>>

-----------------------------------------------------------------------------
Tick ==
    /\ hour < MaxHour
    /\ hour' = hour + 1
    /\ UNCHANGED <<conf, confMu, currMu, storeVars, procVars, histVars, used>>

(* New deletes what is more than limit hours old, or, in the faulty        *)
(* variant, what is not, and goes on with the unit of this hour.           *)
deleteNewUnits(units) ==
    [h \in Hours |-> IF h >= hour - conf.limit - 1 THEN {} ELSE units[h]]

deleteOldUnits(units) ==
    [h \in Hours |-> IF h < hour - conf.limit - 1 THEN {} ELSE units[h]]

(* The process ends, after Close or before, and a new one starts.          *)
New ==
    /\ used.restart < MaxRestarts
    /\ \E o \in {Open(path, [k \in Ids |-> [files[k] EXCEPT !.open = FALSE,
                                                            !.tx = None]],
                      used.file)} :
          /\ path' = o.path /\ db' = o.path
          /\ files' = [o.files EXCEPT ![o.path].units = deleteOldUnits(@)]
          /\ curr' = [id |-> hour, set |-> files'[o.path].units[hour]]
          /\ used' = [used EXCEPT !.restart = @ + 1, !.file = o.n]
    /\ confMu' = Free /\ currMu' = None
    /\ flusher' = NotFlushing /\ closer' = NotClosing /\ clearer' = NotClearing
    /\ reader' = [r \in Readers |-> NotReading]
    /\ due' = {e \in due : /\ at[e] > hour - conf.limit
                           /\ saved \/ e \notin curr.set}
    /\ cleared' = {} /\ spoiled' = FALSE /\ saved' = FALSE
    /\ UNCHANGED <<hour, conf, idle, at, stale>>

-----------------------------------------------------------------------------
FlushStep ==
    \/ FlushLockConf \/ FlushLockCurr \/ FlushNothing \/ FlushLoad
    \/ FlushBegin \/ FlushBeginFails \/ flushDB \/ FlushFails
CloseStep == CloseBegin \/ ClosePut \/ CloseDB
ClearStep ==
    \/ ClearClose \/ ClearRemove \/ RemoveFails \/ openDB \/ OpenFails
    \/ ClearReset
ReadStep(r) == ReadBegin(r) \/ ReadFails(r) \/ loadUnits(r) \/ ReadReturn(r)

Next ==
    \/ \E e \in Entries : Update(e)
    \/ flush \/ FlushStep
    \/ Close \/ CloseStep
    \/ handleStatsReset \/ ClearStep
    \/ \E limit \in Limits \cup {0} : handleStatsConfig(limit)
    \/ \E on \in BOOLEAN, limit \in Limits : handlePutStatsConfig(on, limit)
    \/ \E r \in Readers : handleStats(r) \/ ReadStep(r)
    \/ Tick
    \/ New

Spec == Init /\ [][Next]_vars

(* A goroutine that can go on does, and neither a Go mutex nor the writer  *)
(* lock of bbolt, which is one, starves who waits for it.  Requests, ticks *)
(* and restarts need never come.                                           *)
FairSpec ==
    /\ Spec
    /\ SF_vars(FlushStep) /\ SF_vars(CloseStep) /\ SF_vars(ClearStep)
    /\ \A r \in Readers : SF_vars(ReadStep(r))

-----------------------------------------------------------------------------
(* Every variable keeps to its range: the locks, the files and the control *)
(* state of the goroutines.                                                *)
TypeOK ==
    /\ hour \in Hours
    /\ conf \in [enabled : BOOLEAN, limit : Limits]
    /\ confMu \in [w : {None, Flusher, Admin}, r : SUBSET Readers]
    /\ currMu \in {None, Flusher}
    /\ curr \in [id : Hours, set : SUBSET Entries]
    /\ db \in Ids \cup {None} /\ path \in Ids \cup {None}
    /\ files \in [Ids -> [units : [Hours -> SUBSET Entries], open : BOOLEAN,
                          tx : Readers \cup {None, Flusher, Main}]]
    /\ flusher.pc \in {"idle", "conf", "curr", "check", "begin", "write"}
    /\ closer.pc \in {"idle", "begin", "put", "close", "closed"}
    /\ clearer.pc \in {"idle", "close", "remove", "open", "reset"}
    /\ \A r \in Readers : reader[r].pc \in {"idle", "begin", "units", "read"}

(* The units the file holds.                                               *)
Units == IF path = None THEN [h \in Hours |-> {}] ELSE files[path].units
Saved == UNION {Units[h] : h \in Hours}

(* A counted entry is in the current unit or in the database until the     *)
(* retention limit, a clear, a failed transaction or a crash takes it away *)
(* - except when a flush that read the hour before a clear ran has put an  *)
(* older unit in the place of the one the clear made.                      *)
NothingLost == ~stale => due \subseteq curr.set \cup Saved

(* No entry is counted twice: the units of the hours and the current unit, *)
(* whose hour the database may hold from before a restart, are disjoint.   *)
CountedOnce ==
    /\ \A g, h \in Hours : g # h => Units[g] \cap Units[h] = {}
    /\ \A h \in Hours \ {curr.id} : Units[h] \cap curr.set = {}

(* A request sees every entry of its window that was owed when it started  *)
(* and still is, although it takes the database and the current unit one after the *)
(* other: flush cannot move a unit between the two.                        *)
ReadSeesAll ==
    \A r \in Readers :
        reader[r].pc = "read" /\ ~stale =>
            {e \in reader[r].must \cap due : at[e] > curr.id - conf.limit}
                \subseteq reader[r].seen

(* After clear has returned nothing counted before it is left, neither in  *)
(* memory nor in the database, if every step of it succeeded and neither a *)
(* flush nor Close saved the unit meanwhile.                               *)
ResetComplete ==
    clearer.pc = "idle" /\ ~spoiled => cleared \cap (curr.set \cup Saved) = {}

(* What Close saved is what the next process starts from: an orderly       *)
(* restart within the hour changes nothing of the current unit, unless a   *)
(* clear ran at the same time as Close.                                    *)
RestartResumes ==
    [][New /\ saved /\ clearer.pc = "idle" /\ ~spoiled /\ hour = curr.id
       => curr' = curr]_vars

(* Every GET request returns, and so does every clear unless Close has     *)
(* been called: confMu, currMu and the writer lock of the database are     *)
(* taken in an order that lets nobody wait in a circle.                    *)
HandlersReturn ==
    /\ \A r \in Readers : reader[r].pc # "idle" ~> reader[r].pc = "idle"
    /\ clearer.pc # "idle" ~> clearer.pc = "idle" \/ closer.pc # "idle"

(* Close returns, as TestStats_races requires of it while periodicFlush    *)
(* runs.                                                                   *)
CloseReturns == closer.pc = "begin" ~> closer.pc \in {"closed", "idle"}
=============================================================================
