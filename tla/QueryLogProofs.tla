--------------------------- MODULE QueryLogProofs ---------------------------
(***************************************************************************)
(* Proofs about QueryLog for every set of entries, every memory size and   *)
(* every bound: the type invariant, the order of the stored entries, the   *)
(* pairing of a full buffer with a goroutine that flushes it, what a clear *)
(* leaves, what a search finds and what a rotation deletes.                *)
(***************************************************************************)
EXTENDS QueryLog, TLAPS

(* Where a flushLogBuffer call is while it holds fileFlushLock.            *)
Holding == {"encode", "open", "write"}

(* fileFlushLock excludes: whoever is in its critical section holds it.    *)
(* An Add that has not returned has not started its goroutine.             *)
LockInv ==
    /\ \A f \in Flushers : flusher[f] \in Holding <=> fileFlushLock = f
    /\ cleaner # "idle" <=> fileFlushLock = Cleaner
    /\ \A e \in Entries : adder[e] # "done" => flusher[e] = "idle"

(* Encoded entries and an open descriptor belong to the lock's holder, and *)
(* a descriptor that refers to ".1" means that there is no log file.       *)
DataInv ==
    /\ fileFlushLock \notin Flushers => data = <<>> /\ handle = "none"
    /\ \A f \in Flushers :
          /\ flusher[f] = "encode" => data = <<>> /\ handle = "none"
          /\ flusher[f] = "open" => handle = "none"
    /\ ~logExists => logFile = <<>>
    /\ handle = "old" => ~logExists
    /\ handle = "log" => logExists

(* What a sequence holds has been pushed.                                  *)
Pushed(s) ==
    \A i \in 1..Len(s) : adder[s[i]] = "done" /\ ord[s[i]] <= pushes

PushedInv ==
    Pushed(oldFile) /\ Pushed(logFile) /\ Pushed(data) /\ Pushed(buffer)

OrderInv == TypeOK /\ LockInv /\ DataInv /\ PushedInv /\ StoredInOrder

-----------------------------------------------------------------------------
(* Facts about prefixes and concatenations of sequences of entries.        *)
LEMMA PrefixFacts ==
    ASSUME NEW s \in Seq(Entries), NEW n \in 0..Len(s)
    PROVE  /\ SubSeq(s, 1, n) \in Seq(Entries)
           /\ Len(SubSeq(s, 1, n)) = n
           /\ \A i \in 1..n : SubSeq(s, 1, n)[i] = s[i]
OBVIOUS

(* Where the elements of a concatenation come from.                        *)
LEMMA ConcatFacts ==
    ASSUME NEW s \in Seq(Entries), NEW t \in Seq(Entries)
    PROVE  /\ s \o t \in Seq(Entries)
           /\ Len(s \o t) = Len(s) + Len(t)
           /\ \A i \in 1..Len(s) : (s \o t)[i] = s[i]
           /\ \A i \in Len(s)+1..Len(s)+Len(t) : (s \o t)[i] = t[i - Len(s)]
OBVIOUS

(* The tail of a sequence is the sequence shifted by one.                  *)
LEMMA TailFacts ==
    ASSUME NEW s \in Seq(Entries), s # <<>>
    PROVE  /\ Tail(s) \in Seq(Entries)
           /\ Len(Tail(s)) = Len(s) - 1
           /\ \A i \in 1..Len(s)-1 : Tail(s)[i] = s[i + 1]
OBVIOUS

(* The ring buffer has room for at least one entry: newQueryLog takes 1    *)
(* for a MemSize of 0.                                                     *)
LEMMA CapacityType == Capacity \in Nat \ {0}
BY ConstantsAssumption DEF Capacity

(* RingBuffer.Push keeps within the capacity, ends with the new entry, and *)
(* what comes before it is the old buffer or its tail.                     *)
LEMMA PushFacts ==
    ASSUME NEW b \in Seq(Entries), NEW e \in Entries, Len(b) <= Capacity
    PROVE  /\ Push(b, e) \in Seq(Entries)
           /\ Len(Push(b, e)) \in 1..Capacity
           /\ Push(b, e)[Len(Push(b, e))] = e
           /\ \E k \in {0, 1} :
                 /\ Len(Push(b, e)) = Len(b) + 1 - k
                 /\ \A i \in 1..Len(Push(b, e))-1 : i + k \in 1..Len(b) /\ Push(b, e)[i] = b[i + k]
           /\ Len(Push(b, e)) >= Len(b)
<1>1. CASE Len(b) < Capacity
  BY <1>1, CapacityType DEF Push
<1>2. CASE Len(b) >= Capacity
  <2>1. b # <<>> /\ Len(b) = Capacity
    BY <1>2, CapacityType
  <2>2. /\ Tail(b) \in Seq(Entries)
        /\ Len(Tail(b)) = Len(b) - 1
        /\ \A i \in 1..Len(b)-1 : Tail(b)[i] = b[i + 1]
    BY <2>1, TailFacts
  <2>3. Push(b, e) = Append(Tail(b), e)
    BY <1>2, CapacityType DEF Push
  <2> QED
    BY <2>1, <2>2, <2>3, CapacityType
<1> QED
  BY <1>1, <1>2, CapacityType

(* The empty sequence fits in the buffer and in the files.                 *)
LEMMA EmptyFacts ==
    <<>> \in Seq(Entries) /\ Len(<<>>) = 0 /\ Len(<<>>) <= Capacity
BY CapacityType

RotatorType == [pc : {"idle", "rename"}, ivl : Nat, sawFile : BOOLEAN]
SearcherType == [pc : {"idle", "openOld", "openLog", "found"},
                 found : SUBSET Entries]

(* The records of an idle rotation and of an idle search are well typed.   *)
LEMMA RecordFacts == NotRotating \in RotatorType /\ NotSearching \in SearcherType
BY DEF NotRotating, NotSearching, RotatorType, SearcherType

(* Counting up keeps the type of the counters.                             *)
LEMMA CountUpFacts ==
    ASSUME TypeOK, NEW w \in {"clear", "search", "restart", "conf"},
           NEW b, CountUp(w, b)
    PROVE  count' \in [{"clear", "search", "restart", "conf"} -> Nat]
BY DEF TypeOK, CountUp

(* What a sequence of entries contains are entries.                        *)
LEMMA RangeFacts ==
    ASSUME NEW s \in Seq(Entries)
    PROVE  Range(s) \subseteq Entries
BY DEF Range

-----------------------------------------------------------------------------
(* The invariants only look at a few of the variables, so each is carried  *)
(* through a step by the variables the step leaves alone.                  *)

(* newQueryLog starts from a well-typed state.                             *)
LEMMA TypeOKInit == Init => TypeOK
<1> SUFFICES ASSUME Init PROVE TypeOK
  OBVIOUS
<1>1. /\ adder \in [Entries -> {"new", "stamped", "done"}]
      /\ stamp \in [Entries -> Nat] /\ ord \in [Entries -> Nat]
      /\ count \in [{"clear", "search", "restart", "conf"} -> Nat]
  BY DEF Init
<1>2. flusher \in [Flushers -> {"idle", "lock", "encode", "open", "write"}]
  BY DEF Init
<1>3. /\ buffer \in Seq(Entries) /\ Len(buffer) <= Capacity
      /\ {data, logFile, oldFile} \subseteq Seq(Entries)
  BY EmptyFacts DEF Init
<1> QED
  BY <1>1, <1>2, <1>3, RecordFacts
  DEF Init, TypeOK, RotatorType, SearcherType

(* Every step keeps the types, one case for each action.                   *)
LEMMA TypeOKNext == TypeOK /\ [Next]_vars => TypeOK'
<1> SUFFICES ASSUME TypeOK, [Next]_vars PROVE TypeOK'
  OBVIOUS
<1> USE DEF TypeOK
<1>1. ASSUME NEW e \in Entries, AddSkip(e) PROVE TypeOK'
  BY SMTT(30), <1>1 DEF AddSkip, notAddVars, bufferVars, flushVars, fileVars, clearVars,
              searchVars
<1>2. ASSUME NEW e \in Entries, newLogEntry(e) PROVE TypeOK'
  BY SMTT(30), <1>2 DEF newLogEntry, notAddVars, bufferVars, flushVars, fileVars,
              clearVars, searchVars
<1>3. ASSUME NEW e \in Entries, Add(e) PROVE TypeOK'
  <2>1. buffer' \in Seq(Entries) /\ Len(buffer') <= Capacity
    BY <1>3, PushFacts, CapacityType DEF Add
  <2>2. flusher' \in [Flushers -> {"idle", "lock", "encode", "open", "write"}]
    BY <1>3 DEF Add, Flushers
  <2>3. flushPending' \in BOOLEAN
    BY <1>3 DEF Add
  <2> QED
    BY SMTT(30), <1>3, <2>1, <2>2, <2>3 DEF Add, notAddVars, fileVars, clearVars,
              searchVars
<1>4. CASE Shutdown
  BY <1>4 DEF Shutdown, Goto, Flushers, notFlushVars, bufferVars, fileVars,
              addVars, clearVars, searchVars
<1>5. ASSUME NEW f \in Flushers, flushLogBuffer(f) PROVE TypeOK'
  BY <1>5 DEF flushLogBuffer, Goto, Lock, notFlushVars, bufferVars, fileVars,
              addVars, clearVars, searchVars
<1>6. ASSUME NEW f \in Flushers, encodeEntries(f) PROVE TypeOK'
  <2>1. /\ buffer' \in Seq(Entries) /\ Len(buffer') <= Capacity
        /\ flushPending' \in BOOLEAN
    BY <1>6, EmptyFacts DEF encodeEntries, ResetBuffer
  <2> QED
    BY SMTT(30), <1>6, <2>1
    DEF encodeEntries, Goto, notFlushVars, fileVars,
              addVars, clearVars, searchVars
<1>7. ASSUME NEW f \in Flushers, NothingToFlush(f) PROVE TypeOK'
  BY <1>7 DEF NothingToFlush, FlushReturn, Goto, Unlock, notFlushVars,
              bufferVars, fileVars, addVars, clearVars, searchVars
<1>8. ASSUME NEW f \in Flushers, OpenFile(f) PROVE TypeOK'
  BY <1>8 DEF OpenFile, Goto, notFlushVars, bufferVars, addVars,
              clearVars, searchVars
<1>9. ASSUME NEW f \in Flushers, OpenFails(f) PROVE TypeOK'
  BY <1>9 DEF OpenFails, FlushReturn, Goto, Unlock, notFlushVars,
              bufferVars, fileVars, addVars, clearVars, searchVars
<1>10. ASSUME NEW f \in Flushers, flushToFile(f) PROVE TypeOK'
  <2>1. PICK n \in 0..Len(data) : WriteToFile(SubSeq(data, 1, n))
    BY <1>10 DEF flushToFile
  <2>2. SubSeq(data, 1, n) \in Seq(Entries)
    BY PrefixFacts
  <2>3. logFile' \in Seq(Entries) /\ oldFile' \in Seq(Entries)
    BY <2>1, <2>2, ConcatFacts DEF WriteToFile
  <2>4. logExists' = logExists
    BY <2>1 DEF WriteToFile
  <2> QED
    BY SMTT(30), <1>10, <2>3, <2>4, EmptyFacts
    DEF flushToFile, FlushReturn, Goto, Unlock, notFlushVars,
        bufferVars, addVars, clearVars, searchVars
<1>11. CASE clear
  BY ZenonT(30), <1>11, CountUpFacts DEF clear, Lock, bufferVars, fileVars, searchVars,
               notClearVars, addVars
<1>12. CASE ClearBuffer
  BY ZenonT(30), <1>12, RangeFacts, EmptyFacts
  DEF ClearBuffer, ResetBuffer, Stored, fileVars, notClearVars, addVars
<1>13. CASE ClearRemoveOld
  <2>1. /\ oldFile' \in Seq(Entries) /\ undeleted' \subseteq Entries
        /\ cleaner' = "removeLog" /\ searchDisturbed' = TRUE
    BY <1>13, RangeFacts, EmptyFacts DEF ClearRemoveOld
  <2>2. UNCHANGED <<count, fileFlushLock, bufferVars, logFile, logExists,
                    doomed, clearRotated, searcher, searchMust, notClearVars>>
    BY <1>13 DEF ClearRemoveOld
  <2> QED
    BY <2>1, <2>2 DEF bufferVars, notClearVars, addVars
<1>14. CASE ClearRemoveLog
  <2>1. /\ logFile' \in Seq(Entries) /\ logExists' \in BOOLEAN /\ undeleted' \subseteq Entries
        /\ cleaner' = "idle" /\ fileFlushLock' = Nobody /\ searchDisturbed' = TRUE
    BY <1>14, RangeFacts, EmptyFacts DEF ClearRemoveLog, Unlock
  <2>2. UNCHANGED <<count, bufferVars, oldFile, doomed, clearRotated, searcher,
                    searchMust, notClearVars>>
    BY <1>14 DEF ClearRemoveLog
  <2> QED
    BY <2>1, <2>2 DEF bufferVars, notClearVars, addVars
<1>15. CASE checkAndRotate
  <2>1. rotator' \in RotatorType
    BY <1>15, ConstantsAssumption DEF checkAndRotate, RotatorType
  <2> QED
    BY <1>15, <2>1
    DEF checkAndRotate, RotatorType, addVars, bufferVars, flushVars, fileVars, clearVars,
      searchVars
<1>16. CASE rotate
  <2>1. clearRotated' \in BOOLEAN
    BY <1>16 DEF rotate
  <2> QED
    BY ZenonT(30), <1>16, <2>1, EmptyFacts, RecordFacts
    DEF rotate, RotatorType, addVars, bufferVars
<1>17. CASE RotateFails
  BY <1>17, RecordFacts
  DEF RotateFails, RotatorType, addVars, bufferVars, flushVars,
               fileVars, clearVars, searchVars
<1>18. CASE search
  <2>1. searchMemory \subseteq Entries
    BY RangeFacts DEF searchMemory
  <2>2. searcher' \in SearcherType
    BY <1>18, <2>1 DEF search, SearcherType
  <2>3. searchDisturbed' \in BOOLEAN
    BY <1>18 DEF search
  <2>4. searchMust' \subseteq Entries
    BY <1>18, <2>1, RangeFacts DEF search
  <2>5. count' \in [{"clear", "search", "restart", "conf"} -> Nat]
    BY <1>18, CountUpFacts DEF search
  <2>6. UNCHANGED notSearchVars
    BY <1>18 DEF search
  <2> QED
    BY SMTT(30), <2>2, <2>3, <2>4, <2>5, <2>6
    DEF SearcherType, notSearchVars, addVars, bufferVars, flushVars, fileVars, clearVars
<1>19. CASE SearchStep
  <2>1. searcher' \in SearcherType
    BY <1>19, RangeFacts, RecordFacts
    DEF SearchStep, SearchOpenOld, SearchOpenLog, SearchReturn, readEntries,
        SearcherType
  <2> QED
    BY ZenonT(30), <1>19, <2>1
    DEF SearchStep, SearchOpenOld, SearchOpenLog, SearchReturn, SearcherType,
      notSearchVars, addVars, bufferVars, flushVars, fileVars,
      clearVars
<1>20. CASE handleQueryLogConfig
  BY SMTT(30), <1>20, CountUpFacts
  DEF handleQueryLogConfig, addVars, bufferVars, flushVars,
               fileVars, clearVars, searchVars
<1>21. CASE Tick
  BY <1>21 DEF Tick, addVars, bufferVars, flushVars, fileVars, clearVars,
               searchVars
<1>22. CASE Restart
  <2>1. adder' \in [Entries -> {"new", "stamped", "done"}]
    BY <1>22 DEF Restart
  <2>2. flusher' \in [Flushers -> {"idle", "lock", "encode", "open", "write"}]
    BY <1>22 DEF Restart
  <2> QED
    BY <1>22, <2>1, <2>2, EmptyFacts, RecordFacts, CountUpFacts
    DEF Restart, ResetBuffer, Unlock, RotatorType, SearcherType, fileVars
<1>23. CASE UNCHANGED vars
  BY <1>23 DEF vars, addVars, bufferVars, flushVars, fileVars, clearVars,
               searchVars
<1> QED
  BY <1>1, <1>2, <1>3, <1>4, <1>5, <1>6, <1>7, <1>8, <1>9, <1>10, <1>11,
     <1>12, <1>13, <1>14, <1>15, <1>16, <1>17, <1>18, <1>19, <1>20, <1>21,
     <1>22, <1>23
  DEF Next, FlushStep, ClearStep

(* Every reachable state has the types of TypeOK: in particular the ring   *)
(* buffer never exceeds its capacity.                                      *)
THEOREM TypeCorrect == Spec => []TypeOK
<1>1. Init => TypeOK
  BY TypeOKInit
<1>2. TypeOK /\ [Next]_vars => TypeOK'
  BY TypeOKNext
<1> QED
  BY <1>1, <1>2, PTL DEF Spec

-----------------------------------------------------------------------------
(* The lock and the descriptor.                                            *)
LockDataInv == LockInv /\ DataInv

(* At the start no lock is held and nothing is encoded.                    *)
LEMMA LockDataInit == Init => LockDataInv
BY ConstantsAssumption
DEF Init, LockDataInv, LockInv, DataInv, Flushers, Holding

(* Every step keeps the correspondence of locks and program counters, and  *)
(* what the encoded data says of the files and the flushers.               *)
LEMMA LockDataNext == TypeOK /\ LockDataInv /\ [Next]_vars => LockDataInv'
<1> SUFFICES ASSUME TypeOK, LockDataInv, [Next]_vars PROVE LockDataInv'
  OBVIOUS
<1> USE ConstantsAssumption DEF LockDataInv, LockInv, DataInv, Holding
<1>1. ASSUME NEW e \in Entries, AddSkip(e) \/ newLogEntry(e)
      PROVE  LockDataInv'
  <2>1. UNCHANGED <<flushVars, fileVars, clearVars>>
    BY <1>1 DEF AddSkip, newLogEntry, notAddVars
  <2>2. \A d \in Entries : adder'[d] # "done" => adder[d] # "done"
    BY <1>1 DEF AddSkip, newLogEntry, TypeOK
  <2> QED
    BY <2>1, <2>2 DEF flushVars, fileVars, clearVars
<1>2. ASSUME NEW e \in Entries, Add(e) PROVE LockDataInv'
  <2>1. UNCHANGED <<fileFlushLock, data, handle, logExists, logFile, cleaner>>
    BY <1>2 DEF Add, notAddVars, fileVars, clearVars
  <2>2. CASE flusher' = flusher
    BY <1>2, <2>1, <2>2 DEF Add, TypeOK
  <2>3. CASE flusher' = [flusher EXCEPT ![e] = "lock"] /\ ~flushPending
    BY ZenonT(30), <1>2, <2>1, <2>3 DEF Add, TypeOK, Flushers
  <2> QED
    BY <1>2, <2>2, <2>3 DEF Add
<1>3. CASE Shutdown
  BY <1>3
  DEF Shutdown, Goto, Flushers, TypeOK, notFlushVars, addVars, fileVars, clearVars
<1>4. ASSUME NEW f \in Flushers, flushLogBuffer(f) PROVE LockDataInv'
  BY <1>4
  DEF flushLogBuffer, Lock, Goto, Flushers, TypeOK, notFlushVars, addVars, fileVars,
      clearVars
<1>5. ASSUME NEW f \in Flushers, encodeEntries(f) PROVE LockDataInv'
  <2>1. fileFlushLock = f /\ \A g \in Flushers \ {f} : flusher[g] \notin Holding
    BY <1>5 DEF encodeEntries
  <2>2. LockInv'
    BY <1>5, <2>1
    DEF encodeEntries, Goto, Flushers, TypeOK, notFlushVars, addVars, clearVars
  <2>3. DataInv'
    BY <1>5, <2>1
    DEF encodeEntries, Goto, Flushers, TypeOK, fileVars, notFlushVars
  <2> QED
    BY <2>2, <2>3
<1>6. ASSUME NEW f \in Flushers, NothingToFlush(f) \/ OpenFails(f)
      PROVE  LockDataInv'
  <2>1. fileFlushLock = f /\ \A g \in Flushers \ {f} : flusher[g] \notin Holding
    BY <1>6 DEF NothingToFlush, OpenFails
  <2>2. FlushReturn(f) /\ UNCHANGED <<fileVars, adder, cleaner>>
    BY <1>6 DEF NothingToFlush, OpenFails, notFlushVars, addVars, clearVars
  <2>3. LockInv'
    BY <2>1, <2>2 DEF FlushReturn, Unlock, Goto, Flushers, TypeOK
  <2>4. DataInv'
    BY <2>1, <2>2 DEF FlushReturn, Unlock, Goto, Flushers, TypeOK, fileVars
  <2> QED
    BY <2>3, <2>4
<1>7. ASSUME NEW f \in Flushers, OpenFile(f) PROVE LockDataInv'
  <2>1. fileFlushLock = f /\ \A g \in Flushers \ {f} : flusher[g] \notin Holding
    BY <1>7 DEF OpenFile
  <2>2. LockInv'
    BY <1>7, <2>1
    DEF OpenFile, Goto, Flushers, TypeOK, notFlushVars, addVars, clearVars
  <2>3. DataInv'
    BY <1>7, <2>1
    DEF OpenFile, Goto, Flushers, TypeOK, notFlushVars
  <2> QED
    BY <2>2, <2>3
<1>8. ASSUME NEW f \in Flushers, flushToFile(f) PROVE LockDataInv'
  <2>1. fileFlushLock = f /\ \A g \in Flushers \ {f} : flusher[g] \notin Holding
    BY <1>8 DEF flushToFile
  <2>2. LockInv'
    BY <1>8, <2>1
    DEF flushToFile, FlushReturn, Unlock, Goto, Flushers, TypeOK,
        notFlushVars, addVars, clearVars
  <2>3. logExists' = logExists /\ (handle # "log" => logFile' = logFile)
    BY <1>8 DEF flushToFile, WriteToFile
  <2>4. DataInv'
    BY <1>8, <2>1, <2>3
    DEF flushToFile, FlushReturn, Unlock, Goto, Flushers, TypeOK
  <2> QED
    BY <2>2, <2>4
<1>9. CASE clear
  BY <1>9 DEF clear, Lock, Flushers, TypeOK, notClearVars, addVars, fileVars
<1>10. CASE ClearBuffer
  BY <1>10 DEF ClearBuffer, TypeOK, notClearVars, addVars, fileVars
<1>11. CASE ClearRemoveOld
  BY <1>11 DEF ClearRemoveOld, TypeOK, notClearVars, addVars
<1>12. CASE ClearRemoveLog
  BY <1>12 DEF ClearRemoveLog, Unlock, Flushers, TypeOK, notClearVars, addVars
<1>13. CASE rotate
  BY <1>13 DEF rotate, Flushers, TypeOK, addVars
<1>14. CASE checkAndRotate \/ RotateFails
  BY <1>14 DEF checkAndRotate, RotateFails, addVars, flushVars,
               fileVars, clearVars
<1>15. CASE search \/ SearchStep
  BY <1>15
  DEF search, SearchStep, SearchOpenOld, SearchOpenLog, SearchReturn,
      notSearchVars, addVars, flushVars, fileVars, clearVars
<1>16. CASE handleQueryLogConfig \/ Tick
  BY <1>16 DEF handleQueryLogConfig, Tick, addVars, flushVars, fileVars,
               clearVars
<1>17. CASE Restart
  BY <1>17 DEF Restart, Unlock, Flushers, TypeOK, fileVars
<1>18. CASE UNCHANGED vars
  BY <1>18 DEF vars, addVars, flushVars, fileVars, clearVars
<1> QED
  BY <1>1, <1>2, <1>3, <1>4, <1>5, <1>6, <1>7, <1>8, <1>9, <1>10, <1>11,
     <1>12, <1>13, <1>14, <1>15, <1>16, <1>17, <1>18
  DEF Next, FlushStep, ClearStep

-----------------------------------------------------------------------------
(* The order of the entries.                                               *)
storeVars == <<oldFile, logFile, data, buffer>>

(* At the start nothing is stored.                                         *)
LEMMA OrderInit == Init => PushedInv /\ StoredInOrder
BY DEF Init, PushedInv, Pushed, StoredInOrder, Increasing, Before

(* Pushing an entry that was never pushed before: it comes last.           *)
LEMMA AddKeepsOrder ==
    ASSUME OrderInv, NEW e \in Entries, Add(e)
    PROVE  PushedInv' /\ StoredInOrder'
<1>1. /\ UNCHANGED <<oldFile, logFile, data>>
      /\ buffer' = Push(buffer, e)
      /\ adder[e] = "stamped" /\ adder' = [adder EXCEPT ![e] = "done"]
      /\ pushes' = pushes + 1 /\ ord' = [ord EXCEPT ![e] = pushes + 1]
  BY DEF Add, notAddVars, fileVars
<1>2. /\ adder \in [Entries -> {"new", "stamped", "done"}]
      /\ ord \in [Entries -> Nat] /\ pushes \in Nat
      /\ {oldFile, logFile, data, buffer} \subseteq Seq(Entries)
      /\ Len(buffer) <= Capacity
  BY DEF OrderInv, TypeOK
<1>3. ASSUME NEW s \in Seq(Entries), Pushed(s), NEW i \in 1..Len(s)
      PROVE  /\ s[i] \in Entries /\ s[i] # e
             /\ adder'[s[i]] = "done"
             /\ ord'[s[i]] = ord[s[i]] /\ ord[s[i]] < ord'[e]
  BY <1>1, <1>2, <1>3 DEF Pushed
<1>4. PICK k \in {0, 1} :
         /\ Len(buffer') = Len(buffer) + 1 - k
         /\ \A i \in 1..Len(buffer')-1 :
               i + k \in 1..Len(buffer) /\ buffer'[i] = buffer[i + k]
  BY <1>1, <1>2, PushFacts
<1>5. /\ buffer' \in Seq(Entries) /\ Len(buffer') \in Nat \ {0}
      /\ buffer'[Len(buffer')] = e
  <2>1. /\ Push(buffer, e) \in Seq(Entries)
        /\ Len(Push(buffer, e)) \in 1..Capacity
        /\ Push(buffer, e)[Len(Push(buffer, e))] = e
    BY <1>2, PushFacts
  <2>2. Len(Push(buffer, e)) \in Nat \ {0}
    BY <2>1, CapacityType
  <2> QED
    BY <1>1, <2>1, <2>2
<1>6. Pushed(oldFile) /\ Pushed(logFile) /\ Pushed(data) /\ Pushed(buffer)
  BY DEF OrderInv, PushedInv
<1>7. PushedInv'
  <2>1. Pushed(oldFile)' /\ Pushed(logFile)' /\ Pushed(data)'
    BY SMTT(30), <1>1, <1>2, <1>3, <1>6 DEF Pushed
  <2>2. ASSUME NEW i \in 1..Len(buffer')
        PROVE  adder'[buffer'[i]] = "done" /\ ord'[buffer'[i]] <= pushes'
    <3>1. CASE i = Len(buffer')
      BY <1>1, <1>2, <1>5, <3>1
    <3>2. CASE i # Len(buffer')
      <4>1. i + k \in 1..Len(buffer) /\ buffer'[i] = buffer[i + k]
        BY <1>4, <1>5, <3>2
      <4> QED
        BY <1>1, <1>2, <1>3, <1>6, <4>1 DEF Pushed
    <3> QED
      BY <3>1, <3>2
  <2> QED
    BY <2>1, <2>2 DEF PushedInv, Pushed
<1>8. ASSUME NEW s \in Seq(Entries), Pushed(s), Increasing(s)
      PROVE  \A i, j \in 1..Len(s) : i < j => ord'[s[i]] < ord'[s[j]]
  BY <1>2, <1>3, <1>8 DEF Increasing
<1>9. ASSUME NEW s \in Seq(Entries), NEW t \in Seq(Entries),
             Pushed(s), Pushed(t), Before(s, t)
      PROVE  \A i \in 1..Len(s), j \in 1..Len(t) : ord'[s[i]] < ord'[t[j]]
  BY <1>2, <1>3, <1>9 DEF Before
<1>10. ASSUME NEW s \in Seq(Entries), Pushed(s), Before(s, buffer)
       PROVE  \A i \in 1..Len(s), j \in 1..Len(buffer') :
                 ord'[s[i]] < ord'[buffer'[j]]
  <2> SUFFICES ASSUME NEW i \in 1..Len(s), NEW j \in 1..Len(buffer')
               PROVE  ord'[s[i]] < ord'[buffer'[j]]
    OBVIOUS
  <2>1. CASE j = Len(buffer')
    BY <1>3, <1>5, <1>10, <2>1
  <2>2. CASE j # Len(buffer')
    <3>1. j + k \in 1..Len(buffer) /\ buffer'[j] = buffer[j + k]
      BY <1>4, <1>5, <2>2
    <3> QED
      BY <1>2, <1>6, <1>9, <1>10, <3>1
  <2> QED
    BY <2>1, <2>2
<1>11. Increasing(buffer)'
  <2> SUFFICES ASSUME NEW i \in 1..Len(buffer'), NEW j \in 1..Len(buffer'),
                      i < j
               PROVE  ord'[buffer'[i]] < ord'[buffer'[j]]
    BY DEF Increasing
  <2>1. i + k \in 1..Len(buffer) /\ buffer'[i] = buffer[i + k]
    BY <1>4, <1>5
  <2>2. CASE j = Len(buffer')
    BY SMTT(30), <1>2, <1>3, <1>5, <1>6, <2>1, <2>2
  <2>3. CASE j # Len(buffer')
    <3>1. j \in 1..Len(buffer')-1
      BY <1>5, <2>3
    <3>2. j + k \in 1..Len(buffer) /\ buffer'[j] = buffer[j + k]
      BY <1>4, <3>1
    <3>3. Increasing(buffer)
      BY DEF OrderInv, StoredInOrder
    <3>4. i + k < j + k
      BY <1>5
    <3>5. buffer \in Seq(Entries)
      BY <1>2
    <3> QED
      BY <1>6, <1>8, <2>1, <3>2, <3>3, <3>4, <3>5
  <2> QED
    BY <2>2, <2>3
<1>12. StoredInOrder'
  <2>1. (Increasing(oldFile) /\ Increasing(logFile) /\ Increasing(data))'
    BY <1>1, <1>2, <1>6, <1>8 DEF OrderInv, StoredInOrder, Increasing
  <2>2. (Before(oldFile, logFile) /\ Before(oldFile, data)
           /\ Before(logFile, data))'
    BY <1>1, <1>2, <1>6, <1>9 DEF OrderInv, StoredInOrder, Before
  <2>3. (Before(oldFile, buffer) /\ Before(logFile, buffer)
           /\ Before(data, buffer))'
    BY <1>1, <1>2, <1>6, <1>10 DEF OrderInv, StoredInOrder, Before
  <2> QED
    BY <1>11, <2>1, <2>2, <2>3 DEF StoredInOrder
<1> QED
  BY <1>7, <1>12

(* Most steps leave each sequence as it is or empty it.                    *)
LEMMA DroppingKeepsOrder ==
    ASSUME OrderInv,
           oldFile' \in {oldFile, <<>>}, logFile' \in {logFile, <<>>},
           data' \in {data, <<>>}, buffer' \in {buffer, <<>>},
           UNCHANGED <<ord, pushes>>,
           \A e \in Entries : adder[e] = "done" => adder'[e] = "done"
    PROVE  PushedInv' /\ StoredInOrder'
<1>1. {oldFile, logFile, data, buffer} \subseteq Seq(Entries)
  BY DEF OrderInv, TypeOK
<1>2. ASSUME NEW s \in Seq(Entries), NEW s1 \in {s, <<>>}, Pushed(s)
      PROVE  \A i \in 1..Len(s1) :
                adder'[s1[i]] = "done" /\ ord'[s1[i]] <= pushes'
  BY <1>2 DEF Pushed
<1>3. ASSUME NEW s \in Seq(Entries), NEW s1 \in {s, <<>>}, Increasing(s)
      PROVE  \A i, j \in 1..Len(s1) : i < j => ord'[s1[i]] < ord'[s1[j]]
  BY <1>3 DEF Increasing
<1>4. ASSUME NEW s \in Seq(Entries), NEW s1 \in {s, <<>>},
             NEW t \in Seq(Entries), NEW t1 \in {t, <<>>}, Before(s, t)
      PROVE  \A i \in 1..Len(s1), j \in 1..Len(t1) : ord'[s1[i]] < ord'[t1[j]]
  BY <1>4 DEF Before
<1>5. PushedInv'
  BY SMTT(30), <1>1, <1>2 DEF OrderInv, PushedInv, Pushed
<1>6. (Increasing(oldFile) /\ Increasing(logFile) /\ Increasing(data)
         /\ Increasing(buffer))'
  BY <1>1, <1>3 DEF OrderInv, StoredInOrder, Increasing
<1>7. (Before(oldFile, logFile) /\ Before(oldFile, data)
         /\ Before(oldFile, buffer) /\ Before(logFile, data)
         /\ Before(logFile, buffer) /\ Before(data, buffer))'
  BY <1>1, <1>4 DEF OrderInv, StoredInOrder, Before
<1> QED
  BY <1>5, <1>6, <1>7 DEF StoredInOrder

(* A write appends a prefix of the encoded entries to the file the         *)
(* descriptor refers to: the log, or ".1" if there is no log any more.     *)
LEMMA WriteKeepsOrder ==
    ASSUME OrderInv, NEW f \in Flushers, flushToFile(f)
    PROVE  PushedInv' /\ StoredInOrder'
<1>1. PICK n \in 0..Len(data) : WriteToFile(SubSeq(data, 1, n))
  BY DEF flushToFile
<1> DEFINE b == SubSeq(data, 1, n)
<1>2. /\ data' = <<>>
      /\ UNCHANGED <<buffer, adder, ord, pushes>>
  BY DEF flushToFile, FlushReturn, bufferVars, notFlushVars, addVars
<1>3. {oldFile, logFile, data, buffer} \subseteq Seq(Entries)
  BY DEF OrderInv, TypeOK
<1>4. /\ b \in Seq(Entries) /\ Len(b) = n
      /\ \A i \in 1..n : i \in 1..Len(data) /\ b[i] = data[i]
  BY <1>3, PrefixFacts
<1> HIDE DEF b
<1>5. Pushed(b) /\ Increasing(b) /\ Before(b, buffer)
      /\ Before(oldFile, b) /\ Before(logFile, b)
  BY <1>3, <1>4 DEF OrderInv, PushedInv, Pushed, StoredInOrder, Increasing, Before
<1>6. ASSUME NEW s \in Seq(Entries), Pushed(s), Increasing(s), Before(s, b),
             Before(s, buffer)
      PROVE  Pushed(s \o b) /\ Increasing(s \o b) /\ Before(s \o b, buffer)
  <2>1. \A i \in 1..Len(s \o b) :
           \/ i \in 1..Len(s) /\ (s \o b)[i] = s[i]
           \/ i - Len(s) \in 1..Len(b) /\ (s \o b)[i] = b[i - Len(s)]
    BY <1>4, ConcatFacts
  <2>2. Pushed(s \o b)
    BY <1>5, <1>6, <2>1 DEF Pushed
  <2>3. Before(s \o b, buffer)
    BY <1>5, <1>6, <2>1 DEF Before
  <2>4. ASSUME NEW i \in 1..Len(s \o b), NEW j \in 1..Len(s \o b), i < j
        PROVE  ord[(s \o b)[i]] < ord[(s \o b)[j]]
    <3>1. CASE i \in 1..Len(s) /\ j \in 1..Len(s)
      BY <1>4, <1>6, <2>4, <3>1, ConcatFacts DEF Increasing
    <3>2. CASE i \in 1..Len(s) /\ j \notin 1..Len(s)
      <4>1. /\ (s \o b)[i] = s[i] /\ (s \o b)[j] = b[j - Len(s)]
            /\ j - Len(s) \in 1..Len(b)
        BY <1>4, <3>2, ConcatFacts
      <4> QED
        BY <1>6, <3>2, <4>1 DEF Before
    <3>3. CASE i \notin 1..Len(s)
      <4>1. /\ (s \o b)[i] = b[i - Len(s)] /\ (s \o b)[j] = b[j - Len(s)]
            /\ i - Len(s) \in 1..Len(b) /\ j - Len(s) \in 1..Len(b)
            /\ i - Len(s) < j - Len(s)
        BY <1>4, <2>4, <3>3, ConcatFacts
      <4> QED
        BY <1>5, <4>1 DEF Increasing
    <3> QED
      BY <3>1, <3>2, <3>3
  <2> QED
    BY <2>2, <2>3, <2>4 DEF Increasing
<1>7. CASE handle = "log"
  <2>1. logFile' = logFile \o b /\ oldFile' = oldFile
    BY <1>1, <1>7 DEF WriteToFile, b
  <2>2. Pushed(logFile \o b) /\ Increasing(logFile \o b)
        /\ Before(logFile \o b, buffer)
    BY <1>3, <1>5, <1>6 DEF OrderInv, PushedInv, StoredInOrder
  <2>3. Before(oldFile, logFile \o b)
    <3>1. \A i \in 1..Len(logFile \o b) :
             \/ i \in 1..Len(logFile) /\ (logFile \o b)[i] = logFile[i]
             \/ /\ i - Len(logFile) \in 1..Len(b)
                /\ (logFile \o b)[i] = b[i - Len(logFile)]
      BY <1>3, <1>4, ConcatFacts
    <3> QED
      BY <1>5, <3>1 DEF OrderInv, StoredInOrder, Before
  <2>4. PushedInv'
    BY <1>2, <2>1, <2>2 DEF OrderInv, PushedInv, Pushed
  <2>5. StoredInOrder'
    BY <1>2, <2>1, <2>2, <2>3
    DEF OrderInv, StoredInOrder, Increasing, Before
  <2> QED
    BY <2>4, <2>5
<1>8. CASE handle = "old"
  <2>1. oldFile' = oldFile \o b /\ logFile' = logFile
    BY <1>1, <1>8 DEF WriteToFile, b
  <2>2. Pushed(oldFile \o b) /\ Increasing(oldFile \o b)
        /\ Before(oldFile \o b, buffer)
    BY <1>3, <1>5, <1>6 DEF OrderInv, PushedInv, StoredInOrder
  <2>3. logFile = <<>>
    BY <1>8 DEF OrderInv, DataInv
  <2>4. PushedInv'
    BY <1>2, <2>1, <2>2 DEF OrderInv, PushedInv, Pushed
  <2>5. StoredInOrder'
    BY SMTT(30), <1>2, <2>1, <2>2, <2>3
    DEF OrderInv, StoredInOrder, Increasing, Before
  <2> QED
    BY <2>4, <2>5
<1>9. CASE handle = "none"
  <2>1. oldFile' = oldFile /\ logFile' = logFile
    BY <1>1, <1>9 DEF WriteToFile
  <2> QED
    BY <1>2, <2>1, DroppingKeepsOrder
<1> QED
  BY <1>7, <1>8, <1>9 DEF OrderInv, TypeOK

(* Every step keeps the stored entries in order, one case for each action. *)
LEMMA OrderNext == OrderInv /\ [Next]_vars => PushedInv' /\ StoredInOrder'
<1> SUFFICES ASSUME OrderInv, [Next]_vars PROVE PushedInv' /\ StoredInOrder'
  OBVIOUS
<1> DEFINE Goal == PushedInv' /\ StoredInOrder'
<1> USE DEF addVars, bufferVars, fileVars, flushVars
<1>1. ASSUME NEW e \in Entries, AddSkip(e) \/ newLogEntry(e) PROVE Goal
  <2>1. UNCHANGED <<storeVars, ord, pushes>>
    BY <1>1 DEF AddSkip, newLogEntry, notAddVars, storeVars
  <2>2. \A d \in Entries : adder[d] = "done" => adder'[d] = "done"
    BY <1>1 DEF AddSkip, newLogEntry, OrderInv, TypeOK
  <2> QED
    BY <2>1, <2>2, DroppingKeepsOrder DEF storeVars
<1>2. ASSUME NEW e \in Entries, Add(e) PROVE Goal
  BY <1>2, AddKeepsOrder
<1>3. CASE Shutdown
  BY <1>3, DroppingKeepsOrder DEF Shutdown, notFlushVars
<1>4. ASSUME NEW f \in Flushers, flushLogBuffer(f) PROVE Goal
  BY <1>4, DroppingKeepsOrder DEF flushLogBuffer, notFlushVars
<1>5. ASSUME NEW f \in Flushers, encodeEntries(f) PROVE Goal
  <2>1. /\ data' = buffer /\ buffer' = <<>>
        /\ UNCHANGED <<oldFile, logFile, adder, ord, pushes>>
    BY <1>5 DEF encodeEntries, ResetBuffer, notFlushVars
  <2>2. PushedInv'
    BY <2>1 DEF OrderInv, PushedInv, Pushed
  <2>3. StoredInOrder'
    BY <2>1 DEF OrderInv, StoredInOrder, Increasing, Before
  <2> QED
    BY <2>2, <2>3
<1>6. ASSUME NEW f \in Flushers, NothingToFlush(f) \/ OpenFails(f) PROVE Goal
  BY <1>6, DroppingKeepsOrder
  DEF NothingToFlush, OpenFails, FlushReturn, notFlushVars
<1>7. ASSUME NEW f \in Flushers, OpenFile(f) PROVE Goal
  BY <1>7, DroppingKeepsOrder DEF OpenFile, notFlushVars
<1>8. ASSUME NEW f \in Flushers, flushToFile(f) PROVE Goal
  BY <1>8, WriteKeepsOrder
<1>9. CASE clear
  BY <1>9, DroppingKeepsOrder DEF clear, notClearVars
<1>10. CASE ClearStep
  BY <1>10, DroppingKeepsOrder
  DEF ClearStep, ClearBuffer, ClearRemoveOld, ClearRemoveLog, ResetBuffer,
      notClearVars
<1>11. CASE rotate
  <2>1. /\ oldFile' = logFile /\ logFile' = <<>>
        /\ UNCHANGED <<data, buffer, adder, ord, pushes>>
    BY <1>11 DEF rotate
  <2>2. PushedInv'
    BY <2>1 DEF OrderInv, PushedInv, Pushed
  <2>3. StoredInOrder'
    BY <2>1 DEF OrderInv, StoredInOrder, Increasing, Before
  <2> QED
    BY <2>2, <2>3
<1>12. CASE checkAndRotate \/ RotateFails
  BY <1>12, DroppingKeepsOrder DEF checkAndRotate, RotateFails
<1>13. CASE search \/ SearchStep
  BY <1>13, DroppingKeepsOrder
  DEF search, SearchStep, SearchOpenOld, SearchOpenLog, SearchReturn,
      notSearchVars
<1>14. CASE handleQueryLogConfig \/ Tick
  BY <1>14, DroppingKeepsOrder DEF handleQueryLogConfig, Tick
<1>15. CASE Restart
  <2>1. /\ buffer' = <<>> /\ data' = <<>>
        /\ UNCHANGED <<oldFile, logFile, ord, pushes>>
    BY <1>15 DEF Restart, ResetBuffer
  <2>2. \A d \in Entries : adder[d] = "done" => adder'[d] = "done"
    BY <1>15 DEF Restart
  <2> QED
    BY <2>1, <2>2, DroppingKeepsOrder
<1>16. CASE UNCHANGED vars
  BY <1>16, DroppingKeepsOrder DEF vars
<1> QED
  BY <1>1, <1>2, <1>3, <1>4, <1>5, <1>6, <1>7, <1>8, <1>9, <1>10, <1>11,
     <1>12, <1>13, <1>14, <1>15, <1>16
  DEF Next, FlushStep, ClearStep

(* However adds, flushes, renames, clears, failures and restarts           *)
(* interleave, the entries from ".1" to the buffer are in the order of     *)
(* their pushes and no entry is stored twice.                              *)
THEOREM InOrder == Spec => []StoredInOrder
<1>1. Init => OrderInv
  BY TypeOKInit, LockDataInit, OrderInit DEF OrderInv, LockDataInv
<1>2. OrderInv /\ [Next]_vars => OrderInv'
  BY TypeOKNext, LockDataNext, OrderNext DEF OrderInv, LockDataInv
<1>3. OrderInv => StoredInOrder
  BY DEF OrderInv
<1> QED
  BY <1>1, <1>2, <1>3, PTL DEF Spec

-----------------------------------------------------------------------------
(* The full buffer and its flusher.                                        *)
Flushing == \E f \in Entries : flusher[f] \in {"lock", "encode"}

(* Every step keeps a flusher for a full buffer and for a set flag.        *)
LEMMA FlusherNext ==
    TypeOK /\ FullBufferHasFlusher /\ [Next]_vars => FullBufferHasFlusher'
<1> SUFFICES ASSUME TypeOK, FullBufferHasFlusher, [Next]_vars
             PROVE  FullBufferHasFlusher'
  OBVIOUS
<1> USE DEF bufferVars, flushVars
<1>1. ASSUME UNCHANGED <<buffer, flushPending>>, Flushing => Flushing'
      PROVE  FullBufferHasFlusher'
  BY <1>1 DEF FullBufferHasFlusher, Flushing
<1>2. ASSUME buffer' = <<>>, flushPending' = FALSE
      PROVE  FullBufferHasFlusher'
  BY <1>2 DEF FullBufferHasFlusher
<1>3. ASSUME NEW e \in Entries, AddSkip(e) \/ newLogEntry(e)
      PROVE  FullBufferHasFlusher'
  BY <1>1, <1>3 DEF AddSkip, newLogEntry, Flushing
<1>4. ASSUME NEW e \in Entries, Add(e) PROVE FullBufferHasFlusher'
  <2>1. buffer' # <<>>
    BY <1>4, PushFacts, CapacityType DEF Add, TypeOK
  <2>2. FileEnabled /\ Len(buffer') >= MemSize => flushPending'
    BY <1>4 DEF Add
  <2>3. flushPending' => Flushing'
    <3>1. CASE flushPending
      BY <1>4, <3>1 DEF Add, FullBufferHasFlusher, Flushing
    <3>2. CASE ~flushPending /\ flushPending'
      BY <1>4, <3>2 DEF Add, Flushing, TypeOK, Flushers
    <3> QED
      BY <3>1, <3>2 DEF TypeOK
  <2> QED
    BY <2>1, <2>2, <2>3 DEF FullBufferHasFlusher, Flushing
<1>5. ASSUME NEW f \in Flushers,
             flushLogBuffer(f) \/ OpenFile(f) \/ OpenFails(f) \/ flushToFile(f)
      PROVE  FullBufferHasFlusher'
  BY <1>1, <1>5
  DEF flushLogBuffer, OpenFile, OpenFails, flushToFile, FlushReturn, Goto,
      Flushing, TypeOK, Flushers
<1>6. ASSUME NEW f \in Flushers, encodeEntries(f) PROVE FullBufferHasFlusher'
  BY <1>2, <1>6 DEF encodeEntries, ResetBuffer
<1>7. ASSUME NEW f \in Flushers, NothingToFlush(f) PROVE FullBufferHasFlusher'
  BY <1>7 DEF NothingToFlush, FullBufferHasFlusher
<1>8. CASE Shutdown
  BY <1>1, <1>8, ConstantsAssumption DEF Shutdown, Goto, Flushing, TypeOK, Flushers
<1>9. CASE clear \/ ClearRemoveOld \/ ClearRemoveLog
  BY <1>1, <1>9
  DEF clear, ClearRemoveOld, ClearRemoveLog, notClearVars, Flushing
<1>10. CASE ClearBuffer
  BY <1>2, <1>10 DEF ClearBuffer, ResetBuffer
<1>11. CASE checkAndRotate \/ rotate \/ RotateFails
  BY <1>1, <1>11 DEF checkAndRotate, rotate, RotateFails, Flushing
<1>12. CASE search \/ SearchStep
  BY <1>1, <1>12
  DEF search, SearchStep, SearchOpenOld, SearchOpenLog, SearchReturn,
      notSearchVars, Flushing
<1>13. CASE handleQueryLogConfig \/ Tick
  BY <1>1, <1>13 DEF handleQueryLogConfig, Tick, Flushing
<1>14. CASE Restart
  BY <1>2, <1>14 DEF Restart, ResetBuffer
<1>15. CASE UNCHANGED vars
  BY <1>1, <1>15 DEF vars, Flushing
<1> QED
  BY <1>3, <1>4, <1>5, <1>6, <1>7, <1>8, <1>9, <1>10, <1>11, <1>12, <1>13,
     <1>14, <1>15
  DEF Next, FlushStep, ClearStep

(* A buffer that has reached MemSize always has a flush pending, and a     *)
(* pending flush always has a goroutine that is going to encode it: the    *)
(* flag that keeps Add from starting another goroutine is never left set   *)
(* without one.                                                            *)
THEOREM FullBufferFlushed == Spec => []FullBufferHasFlusher
<1>1. Init => TypeOK /\ FullBufferHasFlusher
  <2>1. Init => FullBufferHasFlusher
    BY DEF Init, FullBufferHasFlusher
  <2> QED
    BY <2>1, TypeOKInit
<1>2. TypeOK /\ FullBufferHasFlusher /\ [Next]_vars
        => TypeOK' /\ FullBufferHasFlusher'
  BY TypeOKNext, FlusherNext
<1> QED
  BY <1>1, <1>2, PTL DEF Spec

-----------------------------------------------------------------------------
(* What clears, searches and rotations find.                               *)

(* The entries a clear has to delete are no longer on their way to the     *)
(* files, and those it could not delete in ".1" and in the log are known,  *)
(* unless a rename has moved the log past it.                              *)
ClearInv ==
    /\ \A e \in doomed : adder[e] = "done"
    /\ doomed \cap (Range(buffer) \cup Range(data)) = {}
    /\ cleaner = "removeLog" /\ ~clearRotated =>
          doomed \cap Range(oldFile) \subseteq undeleted
    /\ cleaner = "idle" /\ ~clearRotated =>
          doomed \cap (Range(oldFile) \cup Range(logFile)) \subseteq undeleted

(* What an undisturbed search has not found yet is in a file it has still  *)
(* to open.                                                                *)
SearchInv ==
    ~searchDisturbed =>
        /\ searcher.pc = "openOld" =>
              searchMust \subseteq searcher.found \cup Range(oldFile) \cup Range(logFile)
        /\ searcher.pc = "openLog" =>
              searchMust \subseteq searcher.found \cup Range(logFile)
        /\ searcher.pc = "found" => searchMust \subseteq searcher.found

(* The log that a rename has been decided on is still due, or a clear has  *)
(* removed it, which then has already removed ".1" or failed to.           *)
RotateInv ==
    /\ cleaner = "removeLog" /\ logExists => Range(oldFile) \subseteq undeleted
    /\ rotator.pc = "rename" /\ rotator.sawFile =>
          \/ logFile # <<>> /\ stamp[logFile[1]] + rotator.ivl <= now
          \/ Range(oldFile) \subseteq undeleted /\ handle # "old"

(* The entries of prefixes, concatenations and of a pushed buffer.         *)
LEMMA RangeOf ==
    ASSUME NEW s \in Seq(Entries), NEW t \in Seq(Entries)
    PROVE  /\ Range(<<>>) = {}
           /\ Range(s \o t) = Range(s) \cup Range(t)
           /\ \A n \in 0..Len(t) : Range(SubSeq(t, 1, n)) \subseteq Range(t)
<1>1. Range(<<>>) = {}
  BY DEF Range
<1>2. ASSUME NEW n \in 0..Len(t) PROVE Range(SubSeq(t, 1, n)) \subseteq Range(t)
  <2> DEFINE p == SubSeq(t, 1, n)
  <2>1. p \in Seq(Entries) /\ Len(p) = n /\ \A i \in 1..n : p[i] = t[i]
    BY PrefixFacts
  <2> HIDE DEF p
  <2>2. DOMAIN p = 1..n /\ DOMAIN t = 1..Len(t)
    BY <2>1
  <2> QED BY <2>1, <2>2 DEF Range, p
<1>3. Range(s \o t) = Range(s) \cup Range(t)
  <2> DEFINE c == s \o t
  <2>1. /\ c \in Seq(Entries) /\ Len(c) = Len(s) + Len(t)
        /\ \A i \in 1..Len(s) : c[i] = s[i]
        /\ \A i \in Len(s)+1..Len(s)+Len(t) : c[i] = t[i - Len(s)]
    BY ConcatFacts
  <2> HIDE DEF c
  <2>2. DOMAIN c = 1..Len(c) /\ DOMAIN s = 1..Len(s) /\ DOMAIN t = 1..Len(t)
        /\ Len(s) \in Nat /\ Len(t) \in Nat
    BY <2>1
  <2>3. Range(c) \subseteq Range(s) \cup Range(t)
    <3> SUFFICES ASSUME NEW i \in 1..Len(c) PROVE c[i] \in Range(s) \cup Range(t)
      BY <2>2 DEF Range
    <3>1. CASE i <= Len(s)
      BY SMTT(30), <2>1, <2>2, <3>1 DEF Range
    <3>2. CASE i > Len(s)
      <4>1. i \in Len(s)+1..Len(s)+Len(t) /\ i - Len(s) \in DOMAIN t
        BY <2>1, <2>2, <3>2
      <4> QED BY <2>1, <4>1 DEF Range
    <3> QED BY <2>2, <3>1, <3>2
  <2>4. Range(s) \subseteq Range(c)
    BY <2>1, <2>2 DEF Range
  <2>5. Range(t) \subseteq Range(c)
    <3> SUFFICES ASSUME NEW i \in 1..Len(t) PROVE t[i] \in Range(c)
      BY <2>2 DEF Range
    <3>1. i + Len(s) \in Len(s)+1..Len(s)+Len(t) /\ (i + Len(s)) - Len(s) = i
      BY <2>2
    <3>2. c[i + Len(s)] = t[i] /\ i + Len(s) \in DOMAIN c
      BY <2>1, <2>2, <3>1
    <3> QED BY <3>2 DEF Range
  <2> QED BY <2>3, <2>4, <2>5 DEF c
<1> QED BY <1>1, <1>2, <1>3

(* A push brings one entry.                                                *)
LEMMA PushRange ==
    ASSUME NEW b \in Seq(Entries), NEW e \in Entries, Len(b) <= Capacity
    PROVE  Range(Push(b, e)) \subseteq Range(b) \cup {e}
<1> DEFINE p == Push(b, e)
<1>1. /\ p \in Seq(Entries) /\ p[Len(p)] = e
      /\ \E k \in {0, 1} : \A i \in 1..Len(p)-1 : i + k \in 1..Len(b) /\ p[i] = b[i + k]
  BY PushFacts
<1> HIDE DEF p
<1>2. DOMAIN p = 1..Len(p) /\ DOMAIN b = 1..Len(b) /\ Len(p) \in Nat
  BY <1>1
<1>3. ASSUME NEW i \in 1..Len(p) PROVE p[i] \in Range(b) \cup {e}
  BY SMTT(30), <1>1, <1>2 DEF Range
<1> QED BY <1>2, <1>3 DEF Range, p

(* What is in a file, in the buffer or on its way has been pushed.         *)
LEMMA PushedRange ==
    ASSUME OrderInv
    PROVE  \A e \in Stored \cup Range(data) : adder[e] = "done"
<1>1. /\ DOMAIN oldFile = 1..Len(oldFile) /\ DOMAIN logFile = 1..Len(logFile)
      /\ DOMAIN data = 1..Len(data) /\ DOMAIN buffer = 1..Len(buffer)
  BY DEF OrderInv, TypeOK
<1> QED BY <1>1 DEF OrderInv, PushedInv, Pushed, Stored, Range

(* A write adds some of the data to the log or to ".1", for a flush that   *)
(* has the lock, so that no clear is running.                              *)
LEMMA WriteRange ==
    ASSUME OrderInv, NEW f \in Flushers, flushToFile(f)
    PROVE  /\ Range(logFile) \subseteq Range(logFile') /\ Range(oldFile) \subseteq Range(oldFile')
           /\ Range(logFile') \subseteq Range(logFile) \cup Range(data)
           /\ Range(oldFile') \subseteq Range(oldFile) \cup Range(data)
           /\ handle # "old" => oldFile' = oldFile
           /\ logFile # <<>> => logFile' # <<>> /\ logFile'[1] = logFile[1]
           /\ cleaner = "idle" /\ data' = <<>> /\ handle' = "none"
<1>0. /\ logFile \in Seq(Entries) /\ oldFile \in Seq(Entries) /\ data \in Seq(Entries)
      /\ fileFlushLock = f /\ f # Cleaner
  BY ConstantsAssumption DEF OrderInv, TypeOK, LockInv, Holding, flushToFile, Flushers
<1>1. PICK n \in 0..Len(data) : WriteToFile(SubSeq(data, 1, n))
  BY DEF flushToFile
<1> DEFINE b == SubSeq(data, 1, n)
<1>2. b \in Seq(Entries) /\ Range(b) \subseteq Range(data)
  BY <1>0, PrefixFacts, RangeOf
<1>3. /\ logFile' = IF handle = "log" THEN logFile \o b ELSE logFile
      /\ oldFile' = IF handle = "old" THEN oldFile \o b ELSE oldFile
  BY <1>1 DEF WriteToFile
<1> HIDE DEF b
<1>4. /\ Range(logFile \o b) = Range(logFile) \cup Range(b)
      /\ Range(oldFile \o b) = Range(oldFile) \cup Range(b)
  BY <1>0, <1>2, RangeOf
<1>5. logFile # <<>> => logFile \o b # <<>> /\ (logFile \o b)[1] = logFile[1]
  <2> SUFFICES ASSUME logFile # <<>> PROVE logFile \o b # <<>> /\ (logFile \o b)[1] = logFile[1]
    OBVIOUS
  <2>1. Len(logFile) \in Nat \ {0} /\ Len(b) \in Nat
    BY <1>0, <1>2
  <2>2. Len(logFile \o b) # 0 /\ (logFile \o b)[1] = logFile[1]
    BY <1>0, <1>2, <2>1, ConcatFacts
  <2> QED BY <2>2
<1>6. cleaner = "idle"
  BY <1>0 DEF OrderInv, LockInv
<1> QED BY <1>2, <1>3, <1>4, <1>5, <1>6 DEF flushToFile, FlushReturn

(* A step that deletes nothing and brings the doomed entries nowhere new.  *)
LEMMA ClearKept ==
    ASSUME ClearInv, UNCHANGED <<doomed, cleaner>>, undeleted' = undeleted,
           clearRotated' = clearRotated \/ (clearRotated' = TRUE /\ cleaner # "idle"),
           \A e \in doomed : adder[e] = "done" => adder'[e] = "done",
           \A e \in Range(buffer') : e \in Range(buffer) \/ adder[e] # "done",
           Range(data') \subseteq Range(data) \cup Range(buffer),
           cleaner # "idle" /\ ~clearRotated' => UNCHANGED <<oldFile, logFile>>,
           Range(oldFile') \cup Range(logFile')
               \subseteq Range(oldFile) \cup Range(logFile) \cup Range(data)
    PROVE  ClearInv'
<1>1. \A e \in doomed' : adder'[e] = "done"
  BY DEF ClearInv
<1>2. doomed' \cap (Range(buffer') \cup Range(data')) = {}
  BY DEF ClearInv
<1>3. cleaner' = "removeLog" /\ ~clearRotated' => doomed' \cap Range(oldFile') \subseteq undeleted'
  BY DEF ClearInv
<1>4. cleaner' = "idle" /\ ~clearRotated' =>
        doomed' \cap (Range(oldFile') \cup Range(logFile')) \subseteq undeleted'
  BY DEF ClearInv
<1> QED BY <1>1, <1>2, <1>3, <1>4 DEF ClearInv

(* Every step keeps what a clear has established.                          *)
LEMMA ClearNext == OrderInv /\ ClearInv /\ [Next]_vars => ClearInv'
<1> SUFFICES ASSUME OrderInv, ClearInv, [Next]_vars PROVE ClearInv'
  OBVIOUS
<1> USE DEF addVars, bufferVars, flushVars, fileVars, clearVars
<1>0. /\ buffer \in Seq(Entries) /\ data \in Seq(Entries) /\ Len(buffer) <= Capacity
      /\ adder \in [Entries -> {"new", "stamped", "done"}] /\ Range(<<>>) = {}
      /\ doomed \subseteq Entries /\ clearRotated \in BOOLEAN
  BY EmptyFacts, RangeOf DEF OrderInv, TypeOK
<1>1. ASSUME NEW e \in Entries, AddSkip(e) \/ newLogEntry(e) PROVE ClearInv'
  <2>1. UNCHANGED <<bufferVars, data, fileVars, clearVars>>
    BY <1>1 DEF AddSkip, newLogEntry, notAddVars
  <2>2. adder[e] = "new" /\ \A d \in Entries : adder[d] = "done" => adder'[d] = "done"
    BY <1>0, <1>1 DEF AddSkip, newLogEntry
  <2> QED BY <1>0, <2>1, <2>2, ClearKept
<1>2. ASSUME NEW e \in Entries, Add(e) PROVE ClearInv'
  <2>1. UNCHANGED <<data, fileVars, clearVars>> /\ adder[e] = "stamped" /\ buffer' = Push(buffer, e)
    BY <1>2 DEF Add, notAddVars
  <2>2. \A d \in Entries : adder[d] = "done" => adder'[d] = "done"
    BY <1>0, <1>2 DEF Add
  <2>3. Range(buffer') \subseteq Range(buffer) \cup {e}
    BY <1>0, <2>1, PushRange
  <2>4. \A d \in Range(buffer') : d \in Range(buffer) \/ adder[d] # "done"
    BY <2>1, <2>3
  <2> QED BY <1>0, <2>1, <2>2, <2>4, ClearKept
<1>3. ASSUME NEW f \in Flushers, flushLogBuffer(f) \/ NothingToFlush(f) \/ OpenFile(f) \/ OpenFails(f)
      PROVE  ClearInv'
  <2>1. UNCHANGED <<buffer, oldFile, logFile, clearVars, adder>> /\ data' \in {data, <<>>}
    BY <1>3 DEF flushLogBuffer, NothingToFlush, OpenFile, OpenFails, FlushReturn, notFlushVars
  <2> QED BY <1>0, <2>1, ClearKept
<1>4. ASSUME NEW f \in Flushers, encodeEntries(f) PROVE ClearInv'
  <2>1. UNCHANGED <<oldFile, logFile, clearVars, adder>> /\ data' = buffer /\ buffer' = <<>>
    BY <1>4 DEF encodeEntries, ResetBuffer, notFlushVars
  <2> QED BY <1>0, <2>1, ClearKept
<1>5. ASSUME NEW f \in Flushers, flushToFile(f) PROVE ClearInv'
  <2>1. UNCHANGED <<buffer, clearVars, adder>> /\ data' = <<>>
    BY <1>5 DEF flushToFile, FlushReturn, notFlushVars
  <2>2. /\ Range(logFile') \subseteq Range(logFile) \cup Range(data)
        /\ Range(oldFile') \subseteq Range(oldFile) \cup Range(data)
        /\ cleaner = "idle"
    BY <1>5, WriteRange
  <2> QED BY <1>0, <2>1, <2>2, ClearKept
<1>6. CASE clear
  BY <1>6 DEF clear, ClearInv
<1>7. CASE ClearBuffer
  <2>1. data = <<>>
    BY <1>7, ConstantsAssumption DEF ClearBuffer, OrderInv, LockInv, DataInv, Flushers
  <2>2. /\ cleaner' = "removeOld" /\ buffer' = <<>> /\ doomed' = Stored \cup Range(data)
        /\ UNCHANGED <<data, adder>>
    BY <1>7 DEF ClearBuffer, ResetBuffer, notClearVars
  <2> QED BY <1>0, <2>1, <2>2, PushedRange DEF ClearInv
<1>8. CASE ClearRemoveOld
  <2>1. /\ cleaner' = "removeLog" /\ UNCHANGED <<buffer, data, doomed, adder>>
        /\ \/ oldFile' = <<>>
           \/ oldFile' = oldFile /\ undeleted' = undeleted \cup Range(oldFile)
    BY <1>8 DEF ClearRemoveOld, notClearVars
  <2>2. doomed' \cap Range(oldFile') \subseteq undeleted'
    BY <1>0, <2>1
  <2> QED BY <2>1, <2>2 DEF ClearInv
<1>9. CASE ClearRemoveLog
  <2>1. /\ cleaner = "removeLog" /\ cleaner' = "idle"
        /\ UNCHANGED <<buffer, data, doomed, adder, oldFile, clearRotated>>
        /\ \/ logFile' = <<>> /\ undeleted' = undeleted
           \/ logFile' = logFile /\ undeleted' = undeleted \cup Range(logFile)
    BY <1>9 DEF ClearRemoveLog, notClearVars
  <2>2. doomed' \cap Range(logFile') \subseteq undeleted' /\ undeleted \subseteq undeleted'
    BY <1>0, <2>1
  <2> QED BY <2>1, <2>2 DEF ClearInv
<1>10. CASE rotate
  <2>1. /\ oldFile' = logFile /\ logFile' = <<>> /\ clearRotated' = (clearRotated \/ cleaner # "idle")
        /\ UNCHANGED <<buffer, data, adder, cleaner, doomed, undeleted>>
    BY <1>10 DEF rotate
  <2> QED BY <1>0, <2>1, ClearKept
<1>11. CASE Restart
  BY <1>0, <1>11 DEF Restart, ResetBuffer, ClearInv
<1>12. CASE \/ Shutdown \/ checkAndRotate \/ RotateFails \/ search \/ SearchStep
            \/ handleQueryLogConfig \/ Tick \/ UNCHANGED vars
  <2>1. UNCHANGED <<buffer, data, fileVars, clearVars, adder>>
    BY <1>12 DEF Shutdown, checkAndRotate, RotateFails, search, SearchStep, SearchOpenOld,
       SearchOpenLog, SearchReturn, handleQueryLogConfig, Tick, vars, notSearchVars, notFlushVars
  <2> QED BY <1>0, <2>1, ClearKept
<1> QED
  BY <1>1, <1>2, <1>3, <1>4, <1>5, <1>6, <1>7, <1>8, <1>9, <1>10, <1>11, <1>12
  DEF Next, FlushStep, ClearStep

(* For every buffer size and any number of requests: once a clear has      *)
(* returned, nothing that was stored when it emptied the buffer is stored  *)
(* or being written any more, save what it could not remove, provided that *)
(* no rename ran meanwhile: a flush that had already copied the buffer is  *)
(* kept out by fileFlushLock (querylogfile.go, qlog.go clear).             *)
THEOREM ClearDeletes == Spec => []ClearComplete
<1>1. Init => OrderInv /\ ClearInv
  <2>1. Init => ClearInv
    BY DEF Init, ClearInv
  <2> QED BY <2>1, TypeOKInit, LockDataInit, OrderInit DEF OrderInv, LockDataInv
<1>2. OrderInv /\ ClearInv /\ [Next]_vars => (OrderInv /\ ClearInv)'
  BY TypeOKNext, LockDataNext, OrderNext, ClearNext DEF OrderInv, LockDataInv
<1>3. ClearInv => ClearComplete
  BY DEF ClearInv, ClearComplete, Stored
<1> QED BY <1>1, <1>2, <1>3, PTL DEF Spec

(* Every step keeps what a search has found or has still to find.          *)
LEMMA SearchNext == OrderInv /\ SearchInv /\ [Next]_vars => SearchInv'
<1> SUFFICES ASSUME OrderInv, SearchInv, [Next]_vars PROVE SearchInv'
  OBVIOUS
<1> USE DEF addVars, bufferVars, flushVars, fileVars, clearVars, searchVars
<1>0. searcher \in SearcherType
  BY DEF OrderInv, TypeOK, SearcherType
<1>1. ASSUME UNCHANGED searchVars, Range(oldFile) \subseteq Range(oldFile'),
             Range(logFile) \subseteq Range(logFile')
      PROVE  SearchInv'
  BY <1>1 DEF SearchInv
<1>2. ASSUME NEW f \in Flushers, flushToFile(f) PROVE SearchInv'
  BY <1>1, <1>2, WriteRange DEF flushToFile, notFlushVars
<1>3. CASE \/ \E e \in Entries : AddSkip(e) \/ newLogEntry(e) \/ Add(e)
           \/ Shutdown \/ clear \/ checkAndRotate \/ RotateFails \/ handleQueryLogConfig \/ Tick
           \/ UNCHANGED vars
  <2>1. UNCHANGED <<searchVars, oldFile, logFile>>
    BY <1>3 DEF AddSkip, newLogEntry, Add, notAddVars, Shutdown, notFlushVars, clear, checkAndRotate,
       RotateFails, handleQueryLogConfig, Tick, vars
  <2> QED BY <1>1, <2>1
<1>4. ASSUME NEW f \in Flushers,
             flushLogBuffer(f) \/ encodeEntries(f) \/ NothingToFlush(f) \/ OpenFile(f) \/ OpenFails(f)
      PROVE  SearchInv'
  <2>1. UNCHANGED <<searchVars, oldFile, logFile>>
    BY <1>4 DEF flushLogBuffer, encodeEntries, NothingToFlush, OpenFile, OpenFails, FlushReturn, notFlushVars
  <2> QED BY <1>1, <2>1
<1>5. CASE ClearStep \/ rotate
  BY <1>5 DEF ClearStep, ClearBuffer, ClearRemoveOld, ClearRemoveLog, rotate, SearchInv
<1>6. CASE search
  <2>1. /\ searcher'.pc = "openOld" /\ searcher'.found = searchMemory
        /\ searchMust' = searchMemory \cup Range(logFile) \cup Range(oldFile)
        /\ UNCHANGED <<oldFile, logFile>>
    BY <1>6 DEF search, notSearchVars
  <2> QED BY <2>1 DEF SearchInv
<1>7. CASE SearchOpenOld
  <2>1. /\ searcher.pc = "openOld" /\ searcher'.pc = "openLog"
        /\ searcher'.found = searcher.found \cup Range(oldFile)
        /\ UNCHANGED <<searchMust, searchDisturbed, oldFile, logFile>>
    BY <1>7 DEF SearchOpenOld, notSearchVars
  <2> QED BY <2>1 DEF SearchInv
<1>8. CASE SearchOpenLog
  <2>1. /\ searcher.pc = "openLog" /\ searcher'.pc = "found"
        /\ searcher'.found = searcher.found \cup Range(logFile)
        /\ UNCHANGED <<searchMust, searchDisturbed, oldFile, logFile>>
    BY <1>8 DEF SearchOpenLog, readEntries, notSearchVars
  <2> QED BY <2>1 DEF SearchInv
<1>9. CASE SearchReturn \/ Restart
  <2>1. searcher'.pc = "idle"
    BY <1>9 DEF SearchReturn, Restart, NotSearching
  <2> QED BY <2>1 DEF SearchInv
<1> QED
  BY <1>2, <1>3, <1>4, <1>5, <1>6, <1>7, <1>8, <1>9 DEF Next, FlushStep, SearchStep

(* For every buffer size: a search that no rename and no clear overlaps    *)
(* finds every entry that was stored when it began, though flushes move    *)
(* entries from the buffer to the log while it runs: it reads the buffer   *)
(* first, then ".1" and the log (search.go).                               *)
THEOREM SearchFindsAll == Spec => []SearchMissesNothing
<1>1. Init => OrderInv /\ SearchInv
  <2>1. Init => SearchInv
    BY DEF Init, SearchInv, NotSearching
  <2> QED BY <2>1, TypeOKInit, LockDataInit, OrderInit DEF OrderInv, LockDataInv
<1>2. OrderInv /\ SearchInv /\ [Next]_vars => (OrderInv /\ SearchInv)'
  BY TypeOKNext, LockDataNext, OrderNext, SearchNext DEF OrderInv, LockDataInv
<1>3. SearchInv => SearchMissesNothing
  BY DEF SearchInv, SearchMissesNothing
<1> QED BY <1>1, <1>2, <1>3, PTL DEF Spec

(* A step between the decision and the rename.                             *)
LEMMA RotateKept ==
    ASSUME OrderInv, RotateInv, UNCHANGED rotator,
           cleaner' = "removeLog" /\ logExists' => Range(oldFile') \subseteq undeleted',
           now' \in Nat, now <= now', undeleted \subseteq undeleted', handle' = "old" => handle = "old",
           oldFile' \in {oldFile, <<>>} \/ handle = "old",
           logFile # <<>> =>
              \/ logFile' # <<>> /\ logFile'[1] = logFile[1] /\ stamp'[logFile[1]] = stamp[logFile[1]]
              \/ Range(oldFile') \subseteq undeleted' /\ handle' # "old"
    PROVE  RotateInv'
<1>1. /\ now \in Nat /\ rotator.ivl \in Nat /\ Range(<<>>) = {}
      /\ logFile # <<>> => stamp[logFile[1]] \in Nat
  BY EmptyFacts, RangeOf DEF OrderInv, TypeOK
<1>2. ASSUME rotator.pc = "rename", rotator.sawFile
      PROVE  \/ logFile' # <<>> /\ stamp'[logFile'[1]] + rotator.ivl <= now'
             \/ Range(oldFile') \subseteq undeleted' /\ handle' # "old"
  <2>1. CASE logFile # <<>> /\ stamp[logFile[1]] + rotator.ivl <= now
    BY <1>1, <2>1
  <2>2. CASE Range(oldFile) \subseteq undeleted /\ handle # "old"
    BY <1>1, <2>2
  <2> QED BY <1>2, <2>1, <2>2 DEF RotateInv
<1> QED BY <1>2 DEF RotateInv

(* Every step keeps what the rename relies on.                             *)
LEMMA RotateNext == OrderInv /\ RotateInv /\ [Next]_vars => RotateInv'
<1> SUFFICES ASSUME OrderInv, RotateInv, [Next]_vars PROVE RotateInv'
  OBVIOUS
<1> USE DEF addVars, bufferVars, flushVars, fileVars, clearVars, searchVars
<1>0. /\ now \in Nat /\ Range(<<>>) = {} /\ (~logExists => logFile = <<>>)
      /\ (handle = "old" => ~logExists) /\ (logFile # <<>> => adder[logFile[1]] = "done")
      /\ (cleaner # "idle" => handle = "none") /\ logExists \in BOOLEAN
      /\ adder \in [Entries -> {"new", "stamped", "done"}]
      /\ rotator \in RotatorType /\ stamp \in [Entries -> Nat]
  <2>1. logFile # <<>> => adder[logFile[1]] = "done"
    BY DEF OrderInv, TypeOK, PushedInv, Pushed
  <2>2. cleaner # "idle" => handle = "none"
    BY ConstantsAssumption DEF OrderInv, LockInv, DataInv, Flushers
  <2> QED BY <2>1, <2>2, EmptyFacts, RangeOf DEF OrderInv, TypeOK, DataInv, RotatorType
<1>1. ASSUME UNCHANGED <<rotator, cleaner, logExists, oldFile, undeleted, logFile, handle, stamp>>,
             now' \in Nat, now <= now'
      PROVE  RotateInv'
  BY <1>0, <1>1, RotateKept DEF RotateInv
<1>2. ASSUME NEW e \in Entries, AddSkip(e) \/ Add(e) PROVE RotateInv'
  <2>1. UNCHANGED <<rotator, cleaner, logExists, oldFile, undeleted, logFile, handle, stamp, now>>
    BY <1>2 DEF AddSkip, Add, notAddVars
  <2> QED BY <1>0, <1>1, <2>1
<1>3. ASSUME NEW e \in Entries, newLogEntry(e) PROVE RotateInv'
  <2>1. UNCHANGED <<rotator, cleaner, logExists, oldFile, undeleted, logFile, handle, now>>
    BY <1>3 DEF newLogEntry, notAddVars
  <2>2. adder[e] = "new" /\ stamp' = [stamp EXCEPT ![e] = now]
    BY <1>3 DEF newLogEntry
  <2>3. logFile # <<>> => stamp'[logFile[1]] = stamp[logFile[1]]
    BY <1>0, <2>2
  <2> QED BY <1>0, <2>1, <2>3, RotateKept DEF RotateInv
<1>4. ASSUME NEW f \in Flushers, flushLogBuffer(f) \/ encodeEntries(f) \/ NothingToFlush(f) \/ OpenFails(f)
      PROVE  RotateInv'
  <2>1. UNCHANGED <<rotator, cleaner, logExists, oldFile, undeleted, logFile, stamp, now>>
        /\ handle' \in {handle, "none"}
    BY <1>4 DEF flushLogBuffer, encodeEntries, NothingToFlush, OpenFails, FlushReturn, notFlushVars
  <2> QED BY <1>0, <2>1, RotateKept DEF RotateInv
<1>5. ASSUME NEW f \in Flushers, OpenFile(f) PROVE RotateInv'
  <2>1. UNCHANGED <<rotator, cleaner, oldFile, undeleted, logFile, stamp, now>> /\ handle' = "log"
    BY <1>5 DEF OpenFile, notFlushVars
  <2>2. cleaner = "idle"
    BY <1>5, ConstantsAssumption DEF OpenFile, OrderInv, LockInv, Holding, Flushers
  <2> QED BY <1>0, <2>1, <2>2, RotateKept
<1>6. ASSUME NEW f \in Flushers, flushToFile(f) PROVE RotateInv'
  <2>1. UNCHANGED <<rotator, cleaner, undeleted, logExists, stamp, now>>
    BY <1>6 DEF flushToFile, WriteToFile, notFlushVars
  <2>2. /\ handle # "old" => oldFile' = oldFile
        /\ logFile # <<>> => logFile' # <<>> /\ logFile'[1] = logFile[1]
        /\ cleaner = "idle" /\ handle' = "none"
    BY <1>6, WriteRange
  <2> QED BY <1>0, <2>1, <2>2, RotateKept
<1>7. CASE clear \/ ClearBuffer
  <2>1. UNCHANGED <<rotator, oldFile, undeleted, logFile, handle, stamp, now>>
        /\ cleaner' \in {"buffer", "removeOld"}
    BY <1>7 DEF clear, ClearBuffer, notClearVars
  <2> QED BY <1>0, <2>1, RotateKept
<1>8. CASE ClearRemoveOld
  <2>1. /\ UNCHANGED <<rotator, logFile, handle, stamp, now>> /\ undeleted \subseteq undeleted'
        /\ cleaner = "removeOld" /\ oldFile' \in {oldFile, <<>>}
        /\ \/ oldFile' = <<>>
           \/ oldFile' = oldFile /\ undeleted' = undeleted \cup Range(oldFile)
    BY <1>8 DEF ClearRemoveOld, notClearVars
  <2>2. Range(oldFile') \subseteq undeleted'
    BY <1>0, <2>1
  <2> QED BY <1>0, <2>1, <2>2, RotateKept
<1>9. CASE ClearRemoveLog
  <2>1. /\ UNCHANGED <<rotator, oldFile, handle, stamp, now>> /\ undeleted \subseteq undeleted'
        /\ cleaner = "removeLog" /\ cleaner' = "idle" /\ handle = "none"
    BY <1>0, <1>9 DEF ClearRemoveLog, notClearVars
  <2>2. logFile # <<>> => Range(oldFile) \subseteq undeleted'
    BY <1>0, <2>1 DEF RotateInv
  <2> QED BY <1>0, <2>1, <2>2, RotateKept
<1>10. CASE checkAndRotate
  <2>1. /\ UNCHANGED <<cleaner, logExists, oldFile, undeleted, logFile, handle, stamp, now>>
        /\ rotator'.ivl = conf.rotationIvl /\ rotator'.sawFile = logExists
        /\ RotationDue(conf.rotationIvl)
    BY <1>10 DEF checkAndRotate
  <2> QED BY <1>0, <2>1 DEF RotateInv, RotationDue
<1>11. CASE rotate
  <2>1. rotator'.pc = "idle" /\ ~logExists'
    BY <1>11 DEF rotate, NotRotating
  <2> QED BY <2>1 DEF RotateInv
<1>12. CASE RotateFails
  <2>1. rotator'.pc = "idle" /\ UNCHANGED <<cleaner, logExists, oldFile, undeleted>>
    BY <1>12 DEF RotateFails, NotRotating
  <2> QED BY <2>1 DEF RotateInv
<1>13. CASE Restart
  <2>1. rotator'.pc = "idle" /\ cleaner' = "idle"
    BY <1>13 DEF Restart, NotRotating
  <2> QED BY <2>1 DEF RotateInv
<1>14. CASE Tick
  BY <1>0, <1>1, <1>14 DEF Tick
<1>15. CASE Shutdown \/ search \/ SearchStep \/ handleQueryLogConfig \/ UNCHANGED vars
  <2>1. UNCHANGED <<rotator, cleaner, logExists, oldFile, undeleted, logFile, handle, stamp, now>>
    BY <1>15 DEF Shutdown, search, SearchStep, SearchOpenOld, SearchOpenLog, SearchReturn,
       handleQueryLogConfig, vars, notSearchVars, notFlushVars
  <2> QED BY <1>0, <1>1, <2>1
<1> QED
  BY <1>2, <1>3, <1>4, <1>5, <1>6, <1>7, <1>8, <1>9, <1>10, <1>11, <1>12, <1>13, <1>14, <1>15
  DEF Next, FlushStep, ClearStep

(* For any interval: a rename that deletes entries by replacing ".1" and   *)
(* was decided on a log file that existed brings a log whose first entry   *)
(* is older than the interval, although checkAndRotate takes no lock and   *)
(* flushes and clears run between the decision and the rename.             *)
THEOREM RotationDeletesDue == Spec => RotationReplacesDue
<1>1. Init => OrderInv /\ RotateInv
  <2>1. Init => RotateInv
    BY DEF Init, RotateInv, NotRotating
  <2> QED BY <2>1, TypeOKInit, LockDataInit, OrderInit DEF OrderInv, LockDataInv
<1>2. OrderInv /\ RotateInv /\ [Next]_vars => (OrderInv /\ RotateInv)'
  BY TypeOKNext, LockDataNext, OrderNext, RotateNext DEF OrderInv, LockDataInv
<1>3. OrderInv /\ RotateInv /\ [Next]_vars =>
        [rotate /\ rotator.sawFile /\ ~(Range(oldFile) \subseteq undeleted) =>
           logFile # <<>> /\ stamp[logFile[1]] + rotator.ivl <= now]_vars
  BY DEF rotate, RotateInv
<1> QED BY <1>1, <1>2, <1>3, PTL DEF Spec, RotationReplacesDue
=============================================================================
