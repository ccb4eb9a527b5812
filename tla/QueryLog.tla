------------------------------ MODULE QueryLog ------------------------------
(***************************************************************************)
(* The query log (internal/querylog): DNS requests add entries to a ring   *)
(* buffer in memory, flushing goroutines move the buffer to the log file,  *)
(* a periodic goroutine renames the log file to its ".1" sibling, and HTTP *)
(* handlers clear, search and reconfigure the log at the same time.        *)
(*                                                                         *)
(* An entry is identified with the request goroutine that adds it; the     *)
(* flushing goroutine started by the Add of entry e is identified with e   *)
(* too, and Main is the goroutine that calls Shutdown.                     *)
(***************************************************************************)
EXTENDS Integers, Sequences, Functions

CONSTANTS
    Entries,      \* the entries ever added
    Main,         \* the goroutine calling Shutdown
    Cleaner,      \* the goroutine serving POST /control/querylog_clear
    Nobody,       \* holder of a free lock
    MemSize,      \* conf.MemSize
    FileEnabled,  \* conf.FileEnabled, which no handler changes
    Ivls,         \* the rotation intervals that validateIvl accepts
    MaxTime,      \* bound: the clock stops here
    MaxClears,    \* bound: number of clear requests
    MaxSearches,  \* bound: number of search requests
    MaxRestarts,  \* bound: number of process restarts
    MaxConfs      \* bound: number of configuration requests

ASSUME ConstantsAssumption ==
    /\ {Main, Cleaner, Nobody} \cap Entries = {}
    /\ Main # Cleaner /\ Main # Nobody /\ Cleaner # Nobody
    /\ MemSize \in Nat
    /\ FileEnabled \in BOOLEAN
    /\ Ivls \subseteq Nat \ {0} /\ Ivls # {}
    /\ {MaxTime, MaxClears, MaxSearches, MaxRestarts, MaxConfs} \subseteq Nat

VARIABLES
    now,            \* the clock
    conf,           \* conf.Enabled and conf.RotationIvl, under confMu
    adder,          \* adder[e]: where the Add call of e is
    stamp,          \* stamp[e]: logEntry.Time
    buffer,         \* l.buffer, oldest entry first, under bufferLock
    flushPending,   \* l.flushPending, under bufferLock
    flusher,        \* flusher[f]: where f's flushLogBuffer call is
    fileFlushLock,  \* the holder of l.fileFlushLock
    data,           \* the encoded entries the lock's holder is writing
    handle,         \* which file the holder's open descriptor refers to now
    logFile,        \* contents of l.logFile
    logExists,      \* whether l.logFile exists
    oldFile,        \* contents of l.logFile + ".1" (empty if absent)
    cleaner,        \* where the clear call is
    rotator,        \* where checkAndRotate is: [pc, ivl, sawFile]
    searcher,       \* where a search call is: [pc, found]
    count,          \* how many clears, searches, restarts and confs there were
    pushes,         \* history: how many entries have been pushed
    ord,            \* history: ord[e] is the position of e's Push, 0 before it
    doomed,         \* history: what the running or last clear has to delete
    undeleted,      \* history: entries of the files a clear failed to remove
    clearRotated,   \* history: a rename ran between the removals of a clear
    searchMust,     \* history: entries stored when the search began
    searchDisturbed \* history: a rename or a clear overlapped the search

addVars    == <<adder, stamp, pushes, ord>>
bufferVars == <<buffer, flushPending>>
flushVars  == <<flusher, fileFlushLock, data, handle>>
fileVars   == <<logFile, logExists, oldFile>>
clearVars  == <<cleaner, doomed, undeleted, clearRotated>>
searchVars == <<searcher, searchMust, searchDisturbed>>

vars == <<now, conf, count, addVars, bufferVars, flushVars, fileVars,
          clearVars, rotator, searchVars>>

Flushers == Entries \cup {Main}

(* newQueryLog makes room for one entry if MemSize is 0.                   *)
Capacity == IF MemSize = 0 THEN 1 ELSE MemSize

(* What a clear or a search has in front of it; entries on their way from  *)
(* the buffer to the file are in nobody's sight.                           *)
Stored == Range(buffer) \cup Range(logFile) \cup Range(oldFile)

NotRotating == [pc |-> "idle", ivl |-> 0, sawFile |-> FALSE]
NotSearching == [pc |-> "idle", found |-> {}]

(* sync.Mutex.Lock on fileFlushLock, and a faulty variant that does not    *)
(* wait for the holder.                                                    *)
LockAnyway(p) == fileFlushLock' = p
Lock(p) == fileFlushLock = Nobody /\ fileFlushLock' = p
Unlock == fileFlushLock' = Nobody

CountUp(what, bound) ==
    /\ count[what] < bound
    /\ count' = [count EXCEPT ![what] = @ + 1]

-----------------------------------------------------------------------------
Init ==
    /\ now = 0
    /\ conf \in [enabled : BOOLEAN, rotationIvl : Ivls]
    /\ count = [w \in {"clear", "search", "restart", "conf"} |-> 0]
    /\ adder = [e \in Entries |-> "new"]
    /\ stamp = [e \in Entries |-> 0]
    /\ ord = [e \in Entries |-> 0] /\ pushes = 0
    /\ buffer = <<>> /\ flushPending = FALSE
    /\ flusher = [f \in Flushers |-> "idle"]
    /\ fileFlushLock = Nobody /\ data = <<>> /\ handle = "none"
    /\ logFile = <<>> /\ logExists = FALSE /\ oldFile = <<>>
    /\ cleaner = "idle" /\ doomed = {} /\ undeleted = {}
    /\ clearRotated = FALSE
    /\ rotator = NotRotating
    /\ searcher = NotSearching /\ searchMust = {} /\ searchDisturbed = FALSE

-----------------------------------------------------------------------------
(* Add.  It reads the configuration under confMu, builds the entry, which  *)
(* takes the time, and only then takes bufferLock: entries can be pushed   *)
(* in another order than the one of their timestamps.                      *)
notAddVars == <<now, conf, count, fileVars, clearVars, rotator, searchVars>>

(* The query log is disabled.                                              *)
AddSkip(e) ==
    /\ adder[e] = "new" /\ ~conf.enabled
    /\ adder' = [adder EXCEPT ![e] = "done"]
    /\ UNCHANGED <<stamp, pushes, ord, bufferVars, flushVars, notAddVars>>

newLogEntry(e) ==
    /\ adder[e] = "new" /\ conf.enabled
    /\ adder' = [adder EXCEPT ![e] = "stamped"]
    /\ stamp' = [stamp EXCEPT ![e] = now]
    /\ UNCHANGED <<pushes, ord, bufferVars, flushVars, notAddVars>>

(* RingBuffer.Push: a full ring loses its oldest entry; in the faulty      *)
(* variant the ring grows.                                                 *)
PushUnbounded(b, e) == Append(b, e)
Push(b, e) == IF Len(b) < Capacity THEN Append(b, e) ELSE Append(Tail(b), e)

Add(e) ==
    LET pushed == Push(buffer, e)
        flush  == ~flushPending /\ FileEnabled /\ Len(pushed) >= MemSize
    IN  /\ adder[e] = "stamped"
        /\ adder' = [adder EXCEPT ![e] = "done"]
        /\ pushes' = pushes + 1
        /\ ord' = [ord EXCEPT ![e] = pushes + 1]
        /\ buffer' = pushed
        /\ flushPending' = (flushPending \/ flush)
        /\ flusher' = IF flush THEN [flusher EXCEPT ![e] = "lock"] ELSE flusher
        /\ UNCHANGED <<stamp, fileFlushLock, data, handle, notAddVars>>

-----------------------------------------------------------------------------
(* flushLogBuffer, called by the goroutines Add starts and by Shutdown.    *)
(* fileWriteLock is only ever taken by the holder of fileFlushLock, so it  *)
(* is not a variable of its own.                                           *)
notFlushVars == <<now, conf, count, addVars, clearVars, rotator, searchVars>>

Goto(f, pc) == flusher' = [flusher EXCEPT ![f] = pc]

Shutdown ==
    /\ FileEnabled
    /\ flusher[Main] = "idle"
    /\ Goto(Main, "lock")
    /\ UNCHANGED <<bufferVars, fileFlushLock, data, handle, fileVars,
                   notFlushVars>>

flushLogBuffer(f) ==
    /\ flusher[f] = "lock"
    /\ Lock(f)
    /\ Goto(f, "encode")
    /\ UNCHANGED <<bufferVars, data, handle, fileVars, notFlushVars>>

(* The return of flushLogBuffer, which runs the deferred unlocks.          *)
FlushReturn(f) ==
    /\ Goto(f, "idle")
    /\ Unlock
    /\ data' = <<>> /\ handle' = "none"

(* What encodeEntries and clear do to the buffer once it is copied, with   *)
(* two faulty variants.                                                    *)
ResetKeepsBuffer  == UNCHANGED buffer /\ flushPending' = FALSE
ResetKeepsPending == buffer' = <<>> /\ UNCHANGED flushPending
ResetBuffer       == buffer' = <<>> /\ flushPending' = FALSE

encodeEntries(f) ==
    /\ flusher[f] = "encode"
    /\ buffer # <<>>
    /\ data' = buffer
    /\ ResetBuffer
    /\ Goto(f, "open")
    /\ UNCHANGED <<fileFlushLock, handle, fileVars, notFlushVars>>

(* Nothing to write: another flush or a clear came first.  (The encoder    *)
(* itself does not fail on the entries that newLogEntry builds.)           *)
NothingToFlush(f) ==
    /\ flusher[f] = "encode"
    /\ buffer = <<>>
    /\ FlushReturn(f)
    /\ UNCHANGED <<bufferVars, fileVars, notFlushVars>>

(* os.OpenFile with O_CREATE and O_APPEND.                                 *)
OpenFile(f) ==
    /\ flusher[f] = "open"
    /\ Goto(f, "write")
    /\ handle' = "log"
    /\ logExists' = TRUE
    /\ UNCHANGED <<bufferVars, fileFlushLock, data, logFile, oldFile,
                   notFlushVars>>

(* The encoded entries are dropped when the file cannot be opened.         *)
OpenFails(f) ==
    /\ flusher[f] = "open"
    /\ FlushReturn(f)
    /\ UNCHANGED <<bufferVars, fileVars, notFlushVars>>

(* The descriptor follows a file that has been renamed since it was        *)
(* opened.                                                                 *)
WriteToFile(b) ==
    /\ logFile' = IF handle = "log" THEN logFile \o b ELSE logFile
    /\ oldFile' = IF handle = "old" THEN oldFile \o b ELSE oldFile
    /\ UNCHANGED logExists

(* A short write leaves a prefix in the file; the rest is dropped.         *)
flushToFile(f) ==
    /\ flusher[f] = "write"
    /\ \E n \in 0..Len(data) : WriteToFile(SubSeq(data, 1, n))
    /\ FlushReturn(f)
    /\ UNCHANGED <<bufferVars, notFlushVars>>

-----------------------------------------------------------------------------
(* clear, in the order of the code: the lock, the buffer, ".1", the log.   *)
(* A removal that fails is logged and skipped.                             *)
notClearVars == <<now, conf, addVars, flusher, data, handle, rotator>>

clear ==
    /\ cleaner = "idle"
    /\ CountUp("clear", MaxClears)
    /\ Lock(Cleaner)
    /\ cleaner' = "buffer"
    /\ doomed' = {} /\ clearRotated' = FALSE
    /\ UNCHANGED <<undeleted, bufferVars, fileVars, searchVars, notClearVars>>

ClearBuffer ==
    /\ cleaner = "buffer"
    /\ cleaner' = "removeOld"
    /\ ResetBuffer
    /\ doomed' = Stored \cup Range(data)
    /\ searchDisturbed' = TRUE
    /\ UNCHANGED <<count, fileFlushLock, fileVars, undeleted, clearRotated,
                   searcher, searchMust, notClearVars>>

(* Faulty variant: the rotated file is forgotten.                          *)
ClearKeepsOld ==
    /\ cleaner = "removeOld"
    /\ cleaner' = "removeLog"
    /\ searchDisturbed' = TRUE
    /\ UNCHANGED <<count, fileFlushLock, bufferVars, fileVars, doomed,
                   undeleted, clearRotated, searcher, searchMust, notClearVars>>

ClearRemoveOld ==
    /\ cleaner = "removeOld"
    /\ cleaner' = "removeLog"
    /\ \/ /\ oldFile' = <<>>
          /\ UNCHANGED undeleted
       \/ /\ UNCHANGED oldFile
          /\ undeleted' = undeleted \cup Range(oldFile)
    /\ searchDisturbed' = TRUE
    /\ UNCHANGED <<count, fileFlushLock, bufferVars, logFile, logExists,
                   doomed, clearRotated, searcher, searchMust, notClearVars>>

ClearRemoveLog ==
    /\ cleaner = "removeLog"
    /\ cleaner' = "idle"
    /\ \/ /\ logFile' = <<>> /\ logExists' = FALSE
          /\ UNCHANGED undeleted
       \/ /\ UNCHANGED <<logFile, logExists>>
          /\ undeleted' = undeleted \cup Range(logFile)
    /\ Unlock
    /\ searchDisturbed' = TRUE
    /\ UNCHANGED <<count, bufferVars, oldFile, doomed, clearRotated, searcher,
                   searchMust, notClearVars>>

-----------------------------------------------------------------------------
(* checkAndRotate, on its own goroutine, which takes none of the locks of  *)
(* the buffer and the files.                                               *)

(* readFileFirstTimeValue fails with EOF on an empty file, and with        *)
(* ErrNotExist, which is not an error here, when there is no file: the     *)
(* zero time it then returns is older than every interval.                 *)
RotationDue(ivl) ==
    \/ ~logExists
    \/ logFile # <<>> /\ stamp[logFile[1]] + ivl <= now

checkAndRotate ==
    /\ rotator.pc = "idle"
    /\ RotationDue(conf.rotationIvl)
    /\ rotator' = [pc |-> "rename", ivl |-> conf.rotationIvl,
                   sawFile |-> logExists]
    /\ UNCHANGED <<now, conf, count, addVars, bufferVars, flushVars, fileVars,
                   clearVars, searchVars>>

rotate ==
    /\ rotator.pc = "rename"
    /\ logExists
    /\ oldFile' = logFile
    /\ logFile' = <<>> /\ logExists' = FALSE
    /\ handle' = IF handle = "log" THEN "old" ELSE handle
    /\ rotator' = NotRotating
    /\ clearRotated' = (clearRotated \/ cleaner # "idle")
    /\ searchDisturbed' = TRUE
    /\ UNCHANGED <<now, conf, count, addVars, bufferVars, flusher,
                   fileFlushLock, data, cleaner, doomed, undeleted, searcher,
                   searchMust>>

(* ErrNotExist, or any other error of the rename.                          *)
RotateFails ==
    /\ rotator.pc = "rename"
    /\ rotator' = NotRotating
    /\ UNCHANGED <<now, conf, count, addVars, bufferVars, flushVars, fileVars,
                   clearVars, searchVars>>

-----------------------------------------------------------------------------
(* search, under confMu: first the buffer, then ".1" and the log are       *)
(* opened, in that order, and read.  The request asks for every entry.     *)
notSearchVars == <<now, conf, addVars, bufferVars, flushVars, fileVars,
                   clearVars, rotator>>

searchMemory == IF MemSize = 0 THEN {} ELSE Range(buffer)

search ==
    /\ searcher.pc = "idle"
    /\ CountUp("search", MaxSearches)
    /\ searcher' = [pc |-> "openOld", found |-> searchMemory]
    /\ searchMust' = searchMemory \cup Range(logFile) \cup Range(oldFile)
    /\ searchDisturbed' = (cleaner # "idle")
    /\ UNCHANGED notSearchVars

SearchOpenOld ==
    /\ searcher.pc = "openOld"
    /\ searcher' = [pc |-> "openLog",
                    found |-> searcher.found \cup Range(oldFile)]
    /\ UNCHANGED <<count, searchMust, searchDisturbed, notSearchVars>>

(* The entries a search has after the log; in the faulty variant the log   *)
(* is only read if nothing has been found before.                          *)
readIfNone(found) == IF found = {} THEN Range(logFile) ELSE found
readEntries(found) == found \cup Range(logFile)

SearchOpenLog ==
    /\ searcher.pc = "openLog"
    /\ searcher' = [pc |-> "found", found |-> readEntries(searcher.found)]
    /\ UNCHANGED <<count, searchMust, searchDisturbed, notSearchVars>>

SearchReturn ==
    /\ searcher.pc = "found"
    /\ searcher' = NotSearching
    /\ searchMust' = {} /\ searchDisturbed' = FALSE
    /\ UNCHANGED <<count, notSearchVars>>

-----------------------------------------------------------------------------
(* The configuration handlers take confMu for writing, which the readers   *)
(* that Shutdown and search are keep locked, and controlLock (package      *)
(* home), which admits one modifying HTTP request at a time.               *)
handleQueryLogConfig ==
    /\ flusher[Main] = "idle" /\ searcher.pc = "idle" /\ cleaner = "idle"
    /\ CountUp("conf", MaxConfs)
    /\ conf' \in [enabled : BOOLEAN, rotationIvl : Ivls]
    /\ UNCHANGED <<now, addVars, bufferVars, flushVars, fileVars, clearVars,
                   rotator, searchVars>>

Tick ==
    /\ now < MaxTime
    /\ now' = now + 1
    /\ UNCHANGED <<conf, count, addVars, bufferVars, flushVars, fileVars,
                   clearVars, rotator, searchVars>>

(* The process ends, gracefully or not, and a new one starts on the files  *)
(* it finds.                                                               *)
Restart ==
    /\ CountUp("restart", MaxRestarts)
    /\ adder' = [e \in Entries |-> IF adder[e] = "stamped" THEN "done"
                                                           ELSE adder[e]]
    /\ ResetBuffer
    /\ flusher' = [f \in Flushers |-> "idle"]
    /\ Unlock /\ data' = <<>> /\ handle' = "none"
    /\ cleaner' = "idle" /\ doomed' = {} /\ clearRotated' = FALSE
    /\ rotator' = NotRotating
    /\ searcher' = NotSearching
    /\ searchMust' = {} /\ searchDisturbed' = FALSE
    /\ UNCHANGED <<now, conf, stamp, pushes, ord, fileVars, undeleted>>

(* The steps of a flushLogBuffer call once it has its lock.                *)
FlushStep(f) ==
    \/ encodeEntries(f) \/ NothingToFlush(f)
    \/ OpenFile(f) \/ OpenFails(f)
    \/ flushToFile(f)

ClearStep == ClearBuffer \/ ClearRemoveOld \/ ClearRemoveLog

SearchStep == SearchOpenOld \/ SearchOpenLog \/ SearchReturn

Next ==
    \/ \E e \in Entries : AddSkip(e) \/ newLogEntry(e) \/ Add(e)
    \/ Shutdown
    \/ \E f \in Flushers : flushLogBuffer(f) \/ FlushStep(f)
    \/ clear \/ ClearStep
    \/ checkAndRotate \/ rotate \/ RotateFails
    \/ search \/ SearchStep
    \/ handleQueryLogConfig
    \/ Tick
    \/ Restart

Spec == Init /\ [][Next]_vars

(* A started goroutine is eventually scheduled, and a Go mutex does not    *)
(* starve a waiter.  Requests, ticks and restarts need never come.         *)
FairSpec ==
    /\ Spec
    /\ \A f \in Flushers : SF_vars(flushLogBuffer(f)) /\ WF_vars(FlushStep(f))
    /\ WF_vars(ClearStep)
    /\ WF_vars(rotate \/ RotateFails)
    /\ WF_vars(SearchStep)

-----------------------------------------------------------------------------
(* Every variable keeps to its range: what each goroutine's control state, *)
(* the lock, the buffer and the files may be.                              *)
TypeOK ==
    /\ now \in Nat
    /\ conf \in [enabled : BOOLEAN, rotationIvl : Ivls]
    /\ adder \in [Entries -> {"new", "stamped", "done"}]
    /\ stamp \in [Entries -> Nat] /\ ord \in [Entries -> Nat] /\ pushes \in Nat
    /\ buffer \in Seq(Entries) /\ Len(buffer) <= Capacity
    /\ flushPending \in BOOLEAN
    /\ flusher \in [Flushers -> {"idle", "lock", "encode", "open", "write"}]
    /\ fileFlushLock \in Flushers \cup {Cleaner, Nobody}
    /\ data \in Seq(Entries)
    /\ handle \in {"none", "log", "old"}
    /\ logFile \in Seq(Entries) /\ oldFile \in Seq(Entries)
    /\ logExists \in BOOLEAN
    /\ cleaner \in {"idle", "buffer", "removeOld", "removeLog"}
    /\ rotator \in [pc : {"idle", "rename"}, ivl : Nat, sawFile : BOOLEAN]
    /\ searcher \in [pc : {"idle", "openOld", "openLog", "found"},
                     found : SUBSET Entries]
    /\ count \in [{"clear", "search", "restart", "conf"} -> Nat]
    /\ doomed \subseteq Entries /\ undeleted \subseteq Entries
    /\ searchMust \subseteq Entries
    /\ clearRotated \in BOOLEAN /\ searchDisturbed \in BOOLEAN

(* s holds entries in the order in which they were pushed, none twice.     *)
Increasing(s) == \A i, j \in 1..Len(s) : i < j => ord[s[i]] < ord[s[j]]

(* Every entry of s was pushed before every entry of t.                    *)
Before(s, t) ==
    \A i \in 1..Len(s), j \in 1..Len(t) : ord[s[i]] < ord[t[j]]

(* From the oldest file to the buffer the entries are in the order of      *)
(* their pushes and none is there twice, whatever flushes, renames, clears *)
(* and restarts run at the same time: the reader's binary search and its   *)
(* newest-first listing depend on it.                                      *)
StoredInOrder ==
    /\ Increasing(oldFile) /\ Increasing(logFile)
    /\ Increasing(data) /\ Increasing(buffer)
    /\ Before(oldFile, logFile) /\ Before(oldFile, data)
    /\ Before(oldFile, buffer)
    /\ Before(logFile, data) /\ Before(logFile, buffer)
    /\ Before(data, buffer)

(* A full buffer always has a flush pending, and a pending flush always    *)
(* has a goroutine that has yet to encode a non-empty buffer: Add starts   *)
(* no other one while flushPending is set.                                 *)
FullBufferHasFlusher ==
    /\ FileEnabled /\ buffer # <<>> /\ Len(buffer) >= MemSize => flushPending
    /\ flushPending =>
          /\ buffer # <<>>
          /\ \E f \in Entries : flusher[f] \in {"lock", "encode"}

(* Once a clear has returned, nothing that was stored when it emptied the  *)
(* buffer is stored or being written any more, save what it could not      *)
(* remove, provided that no rename ran during the clear.                   *)
ClearComplete ==
    cleaner = "idle" /\ ~clearRotated =>
        (doomed \ undeleted) \cap (Stored \cup Range(data)) = {}

(* clear, "Clear memory buffer and remove log files": the same with a      *)
(* rename allowed to run in between.                                       *)
ClearRemovesEverything ==
    cleaner = "idle" => (doomed \ undeleted) \cap Stored = {}

(* A search finds every entry that was in the buffer or in a file when it  *)
(* started, even if flushes move entries while it runs: it reads the       *)
(* buffer first and the files afterwards.                                  *)
SearchMissesNothing ==
    searcher.pc = "found" /\ ~searchDisturbed =>
        searchMust \subseteq searcher.found

(* A rename that deletes entries by replacing ".1", decided on a log file  *)
(* that existed, brings a log whose first entry is older than the          *)
(* interval, although flushes and clears run between decision and rename.  *)
RotationReplacesDue ==
    [][rotate /\ rotator.sawFile /\ ~(Range(oldFile) \subseteq undeleted) =>
          logFile # <<>> /\ stamp[logFile[1]] + rotator.ivl <= now]_vars

(* Config.RotationIvl, "the old log file will be renamed, NOT deleted, so  *)
(* the actual log retention time is twice the interval": at least the      *)
(* interval itself passes before a rotation deletes an entry.              *)
RetainedForInterval ==
    [][rotate => \A e \in Range(oldFile) : stamp[e] + rotator.ivl <= now]_vars

(* An entry in a full buffer is flushed: it leaves the buffer, in which    *)
(* later entries would otherwise overwrite it.                             *)
FullBufferDrains ==
    \A e \in Entries :
        (FileEnabled /\ e \in Range(buffer) /\ Len(buffer) >= MemSize)
            ~> e \notin Range(buffer)
=============================================================================
