----------------------------- MODULE StatsProofs -----------------------------
(***************************************************************************)
(* Proofs about Stats for any number of requests, readers, hours, clears,  *)
(* failures and restarts: nothing is lost, nothing is counted twice, a     *)
(* reader sees what it must, a clear leaves nothing, and an orderly restart*)
(* goes on where the last process ended.                                   *)
(***************************************************************************)
EXTENDS Stats, TLAPS

(* The types of Go's fields and of the control states.                     *)
ConfType == [enabled : BOOLEAN, limit : Limits]
MuType == [w : {None, Flusher, Admin}, r : SUBSET Readers]
UnitType == [id : Hours, set : SUBSET Entries]
UnitsType == [Hours -> SUBSET Entries]
File == [units : UnitsType, open : BOOLEAN, tx : Readers \cup {None, Flusher, Main}]
FlusherType == [pc : {"idle", "conf", "curr", "check", "begin", "write"},
                id : Hours, h : Ids \cup {None}]
CloserType == [pc : {"idle", "begin", "put", "close", "closed"}, h : Ids \cup {None}]
ClearerType == [pc : {"idle", "close", "remove", "open", "reset"},
                h : Ids \cup {None}, locked : BOOLEAN]
Reading == [pc : {"idle", "begin", "units", "read"}, h : Ids \cup {None},
            must : SUBSET Entries, seen : SUBSET Entries]
UsedType == [clear : 0..MaxClears, read : Nat, conf : Nat, fail : Nat,
             restart : 0..MaxRestarts, file : Nat \ {0}]

TypeInv ==
    /\ hour \in Hours
    /\ conf \in ConfType
    /\ confMu \in MuType
    /\ currMu \in {None, Flusher}
    /\ curr \in UnitType
    /\ db \in Ids \cup {None} /\ path \in Ids \cup {None}
    /\ files \in [Ids -> File]
    /\ flusher \in FlusherType
    /\ closer \in CloserType
    /\ clearer \in ClearerType
    /\ reader \in [Readers -> Reading]
    /\ idle \in SUBSET Entries /\ at \in [Entries -> Hours]
    /\ due \in SUBSET Entries /\ cleared \in SUBSET Entries
    /\ spoiled \in BOOLEAN /\ stale \in BOOLEAN /\ saved \in BOOLEAN
    /\ used \in UsedType

(* Whoever works on a database has one, and every file made belongs to the *)
(* first start, a clear or a restart.                                      *)
HandleInv ==
    /\ flusher.pc \in {"begin", "write"} => flusher.h \in Ids
    /\ closer.pc \in {"begin", "put", "close"} => closer.h \in Ids
    /\ \A r \in Readers : reader[r].pc = "units" => reader[r].h \in Ids
    /\ used.file + (IF clearer.pc \in {"close", "remove", "open"} THEN 1 ELSE 0)
        <= 1 + used.clear + used.restart

(* What confMu and currMu exclude: nobody reads while a flush is under way,*)
(* and a clear cannot end while the flush has the current unit.            *)
LockInv ==
    /\ flusher.pc \in {"curr", "check", "begin", "write"} => confMu.w = Flusher
    /\ flusher.pc \in {"check", "begin", "write"} => currMu = Flusher
    /\ clearer.pc # "idle" /\ clearer.locked => confMu.w = Admin
    /\ confMu.w # None => confMu.r = {}
    /\ \A r \in Readers : reader[r].pc # "idle" => r \in confMu.r

(* What the pointer, the file name and those who hold a database have to   *)
(* do with each other: s.db is nil or the file, and a goroutine that still *)
(* has a removed file has nothing in it that is owed to anybody.           *)
StoreInv ==
    /\ due \cap idle = {}
    /\ db # None => db = path
    /\ clearer.pc \in {"close", "remove", "open"} => db = None
    /\ clearer.pc # "idle" => due = {}
    /\ flusher.pc \in {"begin", "write"} =>
        flusher.h = path \/ clearer.pc \in {"open", "reset"}
    /\ closer.pc \in {"begin", "put"} => closer.h = path \/ due = {}
    /\ \A r \in Readers :
        /\ reader[r].must \cap idle = {}
        /\ reader[r].pc \in {"begin", "units"} =>
            \/ reader[r].h \in {None, path}
            \/ reader[r].must \cap due = {}
    /\ saved => closer.pc \in {"close", "closed"}

(* An entry is in the unit of the hour it was counted in, and only once.   *)
UnitsInv ==
    /\ \A h \in Hours : \A e \in Units[h] : at[e] = h /\ e \notin idle
    /\ \A e \in curr.set : at[e] = curr.id /\ e \notin idle
    /\ cleared \cap idle = {}
    /\ curr.id <= hour /\ flusher.id <= hour
    /\ flusher.pc \in {"begin", "write"} => curr.id # flusher.id

(* Unless a flush has gone back in time, the database has nothing of later *)
(* hours, and nothing of this one that is owed and not in memory; and what *)
(* is owed is in memory or in the database.                                *)
DueInv ==
    ~stale =>
        /\ \A h \in Hours : h > curr.id => Units[h] = {}
        /\ Units[curr.id] \cap due \subseteq curr.set
        /\ \A e \in due : e \in curr.set \/ e \in Units[at[e]]
        /\ saved => \A e \in due : e \in Units[at[e]]

Nothing == curr.set = {} /\ \A h \in Hours : Units[h] = {}

(* A clear that nothing interfered with has emptied the database before it *)
(* empties the current unit; after that, whoever has closed the statistics *)
(* finds nothing to save.                                                  *)
ClearInv ==
    ~spoiled =>
        /\ clearer.pc = "open" => path = None
        /\ clearer.pc = "reset" => \A h \in Hours : Units[h] = {}
        /\ clearer.pc = "idle" =>
            /\ cleared \cap curr.set = {} /\ \A h \in Hours : cleared \cap Units[h] = {}
            /\ (closer.pc # "idle" /\ db # None) => Nothing
            /\ (closer.pc \in {"begin", "put"} /\ closer.h # path) => Nothing
            /\ (saved /\ flusher.pc \in {"begin", "write"}) => Nothing
            /\ saved => Units[curr.id] = curr.set

StatsInv ==
    /\ TypeInv /\ HandleInv /\ LockInv /\ StoreInv
    /\ UnitsInv /\ DueInv /\ ClearInv /\ ReadSeesAll

-----------------------------------------------------------------------------
(* The control states of those who do nothing.                             *)
LEMMA IdleFacts ==
    /\ 0 \in Hours /\ Hours \subseteq Nat
    /\ NotFlushing \in FlusherType /\ NotClosing \in CloserType
    /\ NotClearing \in ClearerType /\ NotReading \in Reading /\ Free \in MuType
<1>1. 0 \in Hours /\ Hours \subseteq Nat
  BY ConstantsAssumption DEF Hours
<1>2. NotFlushing \in FlusherType
  BY <1>1 DEF NotFlushing, FlusherType
<1>3. NotClosing \in CloserType
  BY DEF NotClosing, CloserType
<1>4. NotClearing \in ClearerType
  BY DEF NotClearing, ClearerType
<1>5. NotReading \in Reading
  BY DEF NotReading, Reading
<1>6. Free \in MuType
  BY DEF Free, MuType
<1> QED
  BY <1>1, <1>2, <1>3, <1>4, <1>5, <1>6

(* A file stays one when its writer, its state or its units change.        *)
LEMMA FileFacts ==
    ASSUME NEW fs \in [Ids -> File], NEW k \in Ids
    PROVE  /\ fs[k].units \in UnitsType /\ fs[k].open \in BOOLEAN
           /\ \A p \in Readers \cup {None, Flusher, Main} :
                [fs EXCEPT ![k].tx = p] \in [Ids -> File]
           /\ \A b \in BOOLEAN : [fs EXCEPT ![k].open = b] \in [Ids -> File]
           /\ \A us \in UnitsType :
                /\ [fs EXCEPT ![k].units = us] \in [Ids -> File]
                /\ [fs EXCEPT ![k].units = us, ![k].tx = None] \in [Ids -> File]
<1>1. fs[k] \in File
  OBVIOUS
<1>2. \A p \in Readers \cup {None, Flusher, Main} : [fs[k] EXCEPT !.tx = p] \in File
  BY <1>1 DEF File
<1>3. \A b \in BOOLEAN : [fs[k] EXCEPT !.open = b] \in File
  BY <1>1 DEF File
<1>4. \A us \in UnitsType : /\ [fs[k] EXCEPT !.units = us] \in File
                            /\ [fs[k] EXCEPT !.units = us, !.tx = None] \in File
  BY <1>1 DEF File
<1>5. fs[k].units \in UnitsType /\ fs[k].open \in BOOLEAN
  BY <1>1 DEF File
<1> QED
  BY <1>2, <1>3, <1>4, <1>5

(* What the three ways to rewrite the units of a file make of them.        *)
LEMMA UnitsFacts ==
    ASSUME NEW us \in UnitsType, TypeInv
    PROVE  /\ NewFile \in File /\ [h \in Hours |-> {}] \in UnitsType
           /\ \A u \in UnitType, id \in Hours : Flushed(us, u, id) \in UnitsType
           /\ deleteOldUnits(us) \in UnitsType
           /\ \A u \in UnitType : [us EXCEPT ![u.id] = u.set] \in UnitsType
<1>1. [h \in Hours |-> {}] \in UnitsType
  BY DEF UnitsType
<1>2. NewFile \in File
  BY <1>1 DEF NewFile, File
<1>3. \A u \in UnitType, id \in Hours : Flushed(us, u, id) \in UnitsType
  BY DEF UnitsType, UnitType, Flushed
<1>4. deleteOldUnits(us) \in UnitsType
  BY DEF UnitsType, deleteOldUnits
<1>5. \A u \in UnitType : [us EXCEPT ![u.id] = u.set] \in UnitsType
  BY DEF UnitsType, UnitType
<1> QED
  BY <1>1, <1>2, <1>3, <1>4, <1>5

(* A file without units.                                                  *)
NoUnits == [h \in Hours |-> {}]

(* bbolt.Open: a file under the name, created if there was none.           *)
LEMMA OpenFacts ==
    ASSUME NEW fs \in [Ids -> File], NEW p \in Ids \cup {None},
           NEW n \in Nat \ {0}, p = None => n + 1 \in Ids, NEW o, o = Open(p, fs, n)
    PROVE  /\ o.path \in Ids /\ o.files \in [Ids -> File] /\ o.n \in Nat \ {0}
           /\ p = None => o.files[o.path].units = NoUnits
           /\ p # None => o.files[o.path].units = fs[p].units
<1>1. CASE p = None
  <2>1. o = [path |-> n + 1, files |-> [fs EXCEPT ![n + 1] = NewFile], n |-> n + 1]
    BY <1>1 DEF Open
  <2>2. NewFile \in File /\ NewFile.units = NoUnits
    BY DEF NewFile, File, UnitsType, NoUnits
  <2>3. o.path = n + 1 /\ o.files = [fs EXCEPT ![n + 1] = NewFile] /\ o.n = n + 1
    BY <2>1
  <2>4. n + 1 \in Ids /\ o.files[n + 1] = NewFile /\ o.files \in [Ids -> File]
    BY <1>1, <2>2, <2>3
  <2> QED
    BY <1>1, <2>2, <2>3, <2>4
<1>2. CASE p # None
  <2>1. o = [path |-> p, files |-> [fs EXCEPT ![p].open = TRUE], n |-> n]
    BY <1>2 DEF Open
  <2>2. p \in Ids /\ [fs EXCEPT ![p].open = TRUE] \in [Ids -> File]
    BY <1>2, FileFacts
  <2>3. [fs EXCEPT ![p].open = TRUE][p].units = fs[p].units
    BY <2>2
  <2> QED
    BY <1>2, <2>1, <2>2, <2>3
<1> QED
  BY <1>1, <1>2

(* The next file has a number.                                             *)
LEMMA FreshFile ==
    ASSUME TypeInv, HandleInv
    PROVE  /\ used.file \in Nat \ {0}
           /\ clearer.pc = "open" => used.file + 1 \in Ids
           /\ used.restart < MaxRestarts => used.file + 1 \in Ids
<1>1. /\ used.file \in Nat \ {0} /\ used.clear \in 0..MaxClears
      /\ used.restart \in 0..MaxRestarts /\ MaxClears \in Nat /\ MaxRestarts \in Nat
  BY ConstantsAssumption DEF TypeInv, UsedType
<1>2. CASE clearer.pc = "open"
  <2>1. used.file + 1 <= 1 + used.clear + used.restart
    BY <1>2 DEF HandleInv
  <2> QED
    BY <1>1, <1>2, <2>1 DEF Ids
<1>3. CASE clearer.pc # "open" /\ used.restart < MaxRestarts
  <2>1. used.file <= 1 + used.clear + used.restart
    BY <1>1 DEF HandleInv
  <2> QED
    BY <1>1, <1>3, <2>1 DEF Ids
<1> QED
  <2>1. used.restart < MaxRestarts => used.file <= 1 + used.clear + used.restart
    BY <1>1 DEF HandleInv
  <2> QED
    BY <1>1, <1>2, <1>3, <2>1 DEF Ids

-----------------------------------------------------------------------------
(* Every step keeps the types.                                             *)
LEMMA TypeStep ==
    ASSUME TypeInv, HandleInv, [Next]_vars
    PROVE  TypeInv'
<1> USE DEF TypeInv, memVars, storeVars, procVars, histVars, notFlushVars, notCloseVars,
            notClearVars, notReadVars
<1>1. ASSUME NEW e \in Entries, Update(e) PROVE TypeInv'
  BY <1>1 DEF Update, UnitType
<1>2. ASSUME flush PROVE TypeInv'
  BY <1>2 DEF flush, FlusherType
<1>3. ASSUME FlushLockConf PROVE TypeInv'
  BY <1>3 DEF FlushLockConf, LockConf, Flushing, FlusherType, MuType
<1>4. ASSUME FlushLockCurr PROVE TypeInv'
  BY <1>4 DEF FlushLockCurr, Flushing, FlusherType
<1>5. ASSUME FlushReturn, UNCHANGED <<notFlushVars, curr, files, due, spoiled, stale, used>>
      PROVE  TypeInv'
  BY <1>5, IdleFacts DEF FlushReturn, UnlockConf, MuType
<1>6. ASSUME FlushLoad PROVE TypeInv'
  BY <1>6 DEF FlushLoad, FlusherType
<1>7. ASSUME FlushBegin PROVE TypeInv'
  BY <1>7, FileFacts DEF FlushBegin, Begin, Flushing, FlusherType, HandleInv
<1>8. ASSUME flusher.pc = "write", curr' = newUnit(flusher.id), files' \in [Ids -> File],
             used' \in UsedType, FlushEnd({}) \/ FlushEnd(curr.set)
      PROVE  TypeInv'
  <2>1. confMu' \in MuType /\ currMu' \in {None, Flusher} /\ flusher' \in FlusherType
    BY <1>8, IdleFacts DEF FlushEnd, FlushReturn, UnlockConf, MuType
  <2>2. curr' \in UnitType
    BY <1>8 DEF newUnit, UnitType, FlusherType
  <2>3. due' \subseteq Entries /\ spoiled' \in BOOLEAN /\ stale' \in BOOLEAN
    BY <1>8 DEF FlushEnd
  <2> QED
    BY <1>8, <2>1, <2>2, <2>3 DEF FlushEnd
<1>9. ASSUME flushDB PROVE TypeInv'
  <2>1. flusher.h \in Ids /\ flusher.id \in Hours
    BY <1>9 DEF flushDB, HandleInv, FlusherType
  <2>2. Flushed(files[flusher.h].units, curr, flusher.id) \in UnitsType
    BY <2>1, FileFacts, UnitsFacts
  <2>3. files' = [files EXCEPT ![flusher.h].units
                                = Flushed(files[flusher.h].units, curr, flusher.id),
                               ![flusher.h].tx = None]
    BY <1>9 DEF flushDB
  <2>4. files' \in [Ids -> File]
    BY <2>1, <2>2, <2>3, FileFacts
  <2>5. flusher.pc = "write" /\ curr' = newUnit(flusher.id) /\ FlushEnd({}) /\ used' = used
    BY <1>9 DEF flushDB
  <2> QED
    BY <1>8, <2>4, <2>5
<1>10. ASSUME FlushFails PROVE TypeInv'
  <2>1. flusher.h \in Ids
    BY <1>10 DEF FlushFails, HandleInv
  <2>2. files' \in [Ids -> File]
    BY <1>10, <2>1, FileFacts DEF FlushFails
  <2>3. used' \in UsedType
    BY <1>10 DEF FlushFails, Count, UsedType
  <2>4. flusher.pc = "write" /\ curr' = newUnit(flusher.id) /\ FlushEnd(curr.set)
    BY <1>10 DEF FlushFails
  <2> QED
    BY <1>8, <2>2, <2>3, <2>4
<1>11. ASSUME Close PROVE TypeInv'
  BY <1>11 DEF Close, CloserType
<1>12. ASSUME CloseBegin PROVE TypeInv'
  <2>1. closer.h \in Ids
    BY <1>12 DEF CloseBegin, HandleInv
  <2>2. files' \in [Ids -> File]
    BY <1>12, <2>1, FileFacts DEF CloseBegin, Begin
  <2> QED
    BY <1>12, <2>2 DEF CloseBegin, CloserType
<1>13. ASSUME ClosePut PROVE TypeInv'
  <2>1. closer.h \in Ids
    BY <1>13 DEF ClosePut, HandleInv
  <2>2. [files[closer.h].units EXCEPT ![curr.id] = curr.set] \in UnitsType
    BY <2>1, FileFacts, UnitsFacts
  <2>3. files' = [files EXCEPT
                    ![closer.h].units = [files[closer.h].units EXCEPT ![curr.id] = curr.set],
                    ![closer.h].tx = None]
    BY <1>13, <2>1 DEF ClosePut
  <2>4. files' \in [Ids -> File]
    BY <2>1, <2>2, <2>3, FileFacts
  <2> QED
    BY <1>13, <2>4 DEF ClosePut, CloserType
<1>14. ASSUME CloseDB PROVE TypeInv'
  <2>1. closer.h \in Ids
    BY <1>14 DEF CloseDB, HandleInv
  <2>2. files' \in [Ids -> File]
    BY <1>14, <2>1, FileFacts DEF CloseDB, CloseFile
  <2> QED
    BY <1>14, <2>2 DEF CloseDB, CloserType
<1>15. ASSUME NEW locked \in BOOLEAN, clear(locked), conf' \in ConfType, confMu' \in MuType
       PROVE  TypeInv'
  <2>1. used' \in UsedType
    <3>1. used.clear < MaxClears /\ used' = [used EXCEPT !.clear = @ + 1]
      BY <1>15 DEF clear, Count
    <3> QED
      BY <3>1, ConstantsAssumption DEF UsedType
  <2>2. clearer' \in ClearerType
    BY <1>15 DEF clear, ClearerType
  <2> QED
    BY <1>15, <2>1, <2>2 DEF clear
<1>16. ASSUME ClearClose PROVE TypeInv'
  <2>1. clearer.h \in Ids \cup {None}
    BY DEF ClearerType
  <2>2. files' \in [Ids -> File]
    <3>1. CASE clearer.h = None
      BY <1>16, <3>1 DEF ClearClose
    <3>2. CASE clearer.h # None
      <4>1. clearer.h \in Ids /\ files' = [files EXCEPT ![clearer.h].open = FALSE]
        BY <1>16, <2>1, <3>2 DEF ClearClose, CloseFile
      <4> QED
        BY <4>1, FileFacts
    <3> QED
      BY <3>1, <3>2
  <2> QED
    BY <1>16, <2>2 DEF ClearClose, Clearing, ClearerType
<1>17. ASSUME ClearRemove PROVE TypeInv'
  BY <1>17 DEF ClearRemove, Clearing, ClearerType
<1>18. ASSUME RemoveFails \/ OpenFails PROVE TypeInv'
  <2>1. used' \in UsedType
    <3>1. used' = [used EXCEPT !.fail = @ + 1]
      BY <1>18 DEF RemoveFails, OpenFails, Count
    <3> QED
      BY <3>1 DEF UsedType
  <2>2. clearer' \in ClearerType
    BY <1>18 DEF RemoveFails, OpenFails, Clearing, ClearerType
  <2>3. spoiled' \in BOOLEAN
    BY <1>18 DEF RemoveFails, OpenFails
  <2> QED
    BY <1>18, <2>1, <2>2, <2>3 DEF RemoveFails, OpenFails
<1>19. ASSUME openDB PROVE TypeInv'
  <2> DEFINE o == Open(path, files, used.file)
  <2>1. /\ clearer.pc = "open" /\ path' = o.path /\ files' = o.files /\ db' = o.path
        /\ used' = [used EXCEPT !.file = o.n] /\ clearer' = [clearer EXCEPT !.pc = "reset"]
    BY <1>19 DEF openDB, Clearing
  <2>o. o = Open(path, files, used.file)
    OBVIOUS
  <2> HIDE DEF o
  <2>2. o.path \in Ids /\ o.files \in [Ids -> File] /\ o.n \in Nat \ {0}
    BY <2>o, <2>1, FreshFile, OpenFacts
  <2>3. used' \in UsedType /\ clearer' \in ClearerType
    BY <2>1, <2>2 DEF UsedType, ClearerType
  <2> QED
    BY <1>19, <2>1, <2>2, <2>3 DEF openDB
<1>20. ASSUME ClearReset PROVE TypeInv'
  BY <1>20 DEF ClearReset, UnlockConf, ClearerType, NotClearing, MuType, UnitType, newUnit
<1>21. ASSUME NEW c \in ConfType, SetConf(c) PROVE TypeInv'
  BY <1>21 DEF SetConf, Count, UsedType
<1>22. ASSUME NEW limit \in Limits \cup {0}, handleStatsConfig(limit) PROVE TypeInv'
  <2>1. CASE limit # 0 /\ SetConf([enabled |-> TRUE, limit |-> limit])
    <3>1. [enabled |-> TRUE, limit |-> limit] \in ConfType
      BY <2>1 DEF ConfType
    <3> QED
      BY <1>21, <2>1, <3>1
  <2>2. CASE LockConf(Admin) /\ conf' = [conf EXCEPT !.enabled = FALSE] /\ clear(TRUE)
    <3>1. conf' \in ConfType /\ confMu' \in MuType
      BY <2>2 DEF LockConf, ConfType, MuType
    <3> QED
      BY <1>15, <2>2, <3>1
  <2> QED
    BY <1>22, <2>1, <2>2 DEF handleStatsConfig
<1>23. ASSUME NEW on \in BOOLEAN, NEW limit \in Limits, handlePutStatsConfig(on, limit)
       PROVE  TypeInv'
  BY <1>21, <1>23 DEF handlePutStatsConfig, ConfType
<1>24. ASSUME NEW r \in Readers, handleStats(r) PROVE TypeInv'
  BY <1>24 DEF handleStats, RLockConf, Count, Reading, UsedType, MuType
<1>25. ASSUME NEW r \in Readers, ReadBegin(r) PROVE TypeInv'
  <2>1. reader[r].h \in Ids
    BY <1>25 DEF ReadBegin, Reading
  <2>2. files' \in [Ids -> File]
    BY <1>25, <2>1, FileFacts DEF ReadBegin, Begin
  <2> QED
    BY <1>25, <2>2 DEF ReadBegin, Reading
<1>26. ASSUME NEW r \in Readers, ReadFails(r) \/ ReadReturn(r) PROVE TypeInv'
  BY <1>26 DEF ReadFails, ReadReturn, RUnlockConf, Reading, MuType, NotReading
<1>27. ASSUME NEW r \in Readers, loadUnits(r) PROVE TypeInv'
  <2> DEFINE seen == curr.set \cup UNION {files[reader[r].h].units[h] : h \in Window(curr.id)}
  <2>1. reader[r].h \in Ids
    BY <1>27 DEF loadUnits, HandleInv
  <2>2. files' \in [Ids -> File]
    BY <1>27, <2>1, FileFacts DEF loadUnits
  <2>3. seen \subseteq Entries
    <3>1. files[reader[r].h].units \in UnitsType
      BY <2>1, FileFacts
    <3>2. \A h \in Window(curr.id) : files[reader[r].h].units[h] \subseteq Entries
      BY <3>1 DEF UnitsType, Window
    <3>3. curr.set \subseteq Entries
      BY DEF UnitType
    <3>4. \A e \in seen : e \in curr.set \/ \E h \in Window(curr.id) :
                                                e \in files[reader[r].h].units[h]
      OBVIOUS
    <3> HIDE DEF seen
    <3> QED
      BY <3>2, <3>3, <3>4
  <2>4. reader' = [reader EXCEPT ![r].pc = "read", ![r].seen = seen]
    BY <1>27 DEF loadUnits
  <2> HIDE DEF seen
  <2>5. reader' \in [Readers -> Reading]
    BY ZenonT(30), <2>3, <2>4 DEF Reading
  <2> QED
    BY <1>27, <2>2, <2>5 DEF loadUnits
<1>28. ASSUME Tick PROVE TypeInv'
  BY <1>28, ConstantsAssumption DEF Tick, Hours
<1>29. ASSUME New PROVE TypeInv'
  <2> DEFINE fs == [k \in Ids |-> [files[k] EXCEPT !.open = FALSE, !.tx = None]]
             o == Open(path, fs, used.file)
  <2>1. fs \in [Ids -> File]
    BY DEF File
  <2>2. /\ path' = o.path /\ db' = o.path
        /\ files' = [o.files EXCEPT ![o.path].units = deleteOldUnits(@)]
        /\ curr' = [id |-> hour, set |-> files'[o.path].units[hour]]
        /\ used' = [used EXCEPT !.restart = @ + 1, !.file = o.n]
        /\ used.restart < MaxRestarts
    BY <1>29 DEF New
  <2>o. o = Open(path, fs, used.file)
    OBVIOUS
  <2> HIDE DEF o, fs
  <2>3. o.path \in Ids /\ o.files \in [Ids -> File] /\ o.n \in Nat \ {0}
    BY <2>o, <2>1, <2>2, FreshFile, OpenFacts
  <2>4. files' = [o.files EXCEPT ![o.path].units = deleteOldUnits(o.files[o.path].units)]
    BY <2>2, <2>3
  <2>5. deleteOldUnits(o.files[o.path].units) \in UnitsType
    BY <2>3, FileFacts, UnitsFacts
  <2>6. files' \in [Ids -> File]
    BY <2>3, <2>4, <2>5, FileFacts
  <2>7. curr' \in UnitType
    <3>1. files'[o.path].units \in UnitsType
      BY <2>3, <2>6, FileFacts
    <3> QED
      BY <2>2, <3>1 DEF UnitType, UnitsType
  <2>8. used' \in UsedType
    <3>1. used.restart + 1 \in 0..MaxRestarts
      BY <2>2, ConstantsAssumption DEF UsedType
    <3> QED
      BY <2>2, <2>3, <3>1 DEF UsedType
  <2>9. /\ confMu' \in MuType /\ flusher' \in FlusherType /\ closer' \in CloserType
        /\ clearer' \in ClearerType /\ reader' \in [Readers -> Reading]
    BY <1>29, IdleFacts DEF New
  <2> QED
    BY <1>29, <2>2, <2>3, <2>6, <2>7, <2>8, <2>9 DEF New
<1>30. ASSUME UNCHANGED vars PROVE TypeInv'
  BY <1>30 DEF vars
<1>31. handleStatsReset => TypeInv'
  BY <1>15 DEF handleStatsReset
<1>32. FlushNothing \/ FlushBeginFails => TypeInv'
  BY <1>5 DEF FlushNothing, FlushBeginFails
<1> QED
  BY <1>1, <1>2, <1>3, <1>4, <1>6, <1>7, <1>9, <1>10, <1>11, <1>12, <1>13, <1>14, <1>16,
     <1>17, <1>18, <1>19, <1>20, <1>22, <1>23, <1>24, <1>25, <1>26, <1>27, <1>28, <1>29,
     <1>30, <1>31, <1>32
  DEF Next, FlushStep, CloseStep, ClearStep, ReadStep

(* A database is open before it is used, and files do not outnumber opens. *)
LEMMA HandleInvStep ==
    ASSUME TypeInv, HandleInv, [Next]_vars
    PROVE  HandleInv'
<1> USE ConstantsAssumption DEF TypeInv, HandleInv, memVars, storeVars, procVars,
            histVars, notFlushVars, notCloseVars, notClearVars, notReadVars
<1>1. ASSUME NEW e \in Entries, Update(e) PROVE HandleInv'
  BY <1>1 DEF Update, UnitType
<1>2. ASSUME flush PROVE HandleInv'
  BY <1>2 DEF flush, FlusherType
<1>3. ASSUME FlushLockConf PROVE HandleInv'
  BY <1>3 DEF FlushLockConf, LockConf, Flushing, FlusherType, MuType, Free
<1>4. ASSUME FlushLockCurr PROVE HandleInv'
  BY <1>4 DEF FlushLockCurr, Flushing, FlusherType
<1>5. ASSUME FlushNothing PROVE HandleInv'
  BY <1>5 DEF FlushNothing, FlushReturn, UnlockConf, FlusherType, MuType, NotFlushing
<1>6. ASSUME FlushLoad PROVE HandleInv'
  BY <1>6 DEF FlushLoad, FlusherType
<1>7. ASSUME FlushBegin PROVE HandleInv'
  BY <1>7 DEF FlushBegin, Begin, Flushing, FlusherType
<1>8. ASSUME FlushBeginFails PROVE HandleInv'
  BY <1>8 DEF FlushBeginFails, FlushReturn, UnlockConf, FlusherType, MuType, NotFlushing
<1>9. ASSUME flushDB PROVE HandleInv'
  BY <1>9 DEF flushDB, FlushEnd, FlushReturn, UnlockConf, FlusherType, MuType,
     NotFlushing
<1>10. ASSUME FlushFails PROVE HandleInv'
  BY <1>10 DEF FlushFails, FlushEnd, FlushReturn, UnlockConf, Count, FlusherType,
     MuType, NotFlushing, UsedType
<1>11. ASSUME Close PROVE HandleInv'
  BY <1>11 DEF Close, CloserType
<1>12. ASSUME CloseBegin PROVE HandleInv'
  BY <1>12 DEF CloseBegin, Begin, CloserType
<1>13. ASSUME ClosePut PROVE HandleInv'
  BY <1>13 DEF ClosePut, CloserType
<1>14. ASSUME CloseDB PROVE HandleInv'
  BY <1>14 DEF CloseDB, CloseFile, CloserType
<1>15. ASSUME handleStatsReset PROVE HandleInv'
  BY <1>15 DEF handleStatsReset, clear, Count, ClearerType, UsedType
<1>16. ASSUME ClearClose PROVE HandleInv'
  BY <1>16 DEF ClearClose, CloseFile, Clearing, ClearerType
<1>17. ASSUME ClearRemove PROVE HandleInv'
  BY <1>17 DEF ClearRemove, Clearing, ClearerType
<1>18. ASSUME RemoveFails PROVE HandleInv'
  BY <1>18 DEF RemoveFails, Clearing, Count, ClearerType, UsedType
<1>19. ASSUME openDB PROVE HandleInv'
  BY <1>19 DEF openDB, Open, Clearing, ClearerType, UsedType
<1>20. ASSUME OpenFails PROVE HandleInv'
  BY <1>20 DEF OpenFails, Clearing, Count, ClearerType, UsedType
<1>21. ASSUME ClearReset PROVE HandleInv'
  BY <1>21 DEF ClearReset, UnlockConf, ClearerType, NotClearing, MuType
<1>22. ASSUME NEW limit \in Limits \cup {0}, handleStatsConfig(limit) PROVE HandleInv'
  BY <1>22 DEF handleStatsConfig, SetConf, LockConf, clear, Count, ConfType,
     ClearerType, UsedType, MuType, Free
<1>23. ASSUME NEW on \in BOOLEAN, NEW limit \in Limits, handlePutStatsConfig(on, limit)
       PROVE  HandleInv'
  BY <1>23 DEF handlePutStatsConfig, SetConf, Count, ConfType, UsedType
<1>24. ASSUME NEW r \in Readers, handleStats(r) PROVE HandleInv'
  BY <1>24 DEF handleStats, RLockConf, Count, Reading, UsedType, MuType
<1>25. ASSUME NEW r \in Readers, ReadBegin(r) PROVE HandleInv'
  BY <1>25 DEF ReadBegin, Begin, Reading
<1>26. ASSUME NEW r \in Readers, ReadFails(r) PROVE HandleInv'
  BY <1>26 DEF ReadFails, RUnlockConf, Reading, MuType, NotReading
<1>27. ASSUME NEW r \in Readers, loadUnits(r) PROVE HandleInv'
  BY <1>27 DEF loadUnits, Reading
<1>28. ASSUME NEW r \in Readers, ReadReturn(r) PROVE HandleInv'
  BY <1>28 DEF ReadReturn, RUnlockConf, Reading, MuType, NotReading
<1>29. ASSUME Tick PROVE HandleInv'
  BY <1>29 DEF Tick
<1>30. ASSUME New PROVE HandleInv'
  <2> DEFINE o == Open(path, [k \in Ids |-> [files[k] EXCEPT !.open = FALSE, !.tx = None]],
                       used.file)
  <2>0. used' = [used EXCEPT !.restart = @ + 1, !.file = o.n]
    BY <1>30 DEF New
  <2>n. o.n \in {used.file, used.file + 1}
    BY DEF Open
  <2> HIDE DEF o
  <2>1. /\ used'.file \in {used.file, used.file + 1} /\ used'.clear = used.clear
        /\ used'.restart = used.restart + 1
    BY <2>0, <2>n DEF UsedType
  <2>2. used.file \in Nat /\ used.clear \in Nat /\ used.restart \in Nat
    BY DEF UsedType
  <2>3. used.file <= 1 + used.clear + used.restart
    BY <2>2
  <2>4. clearer'.pc = "idle" /\ flusher'.pc = "idle" /\ closer'.pc = "idle"
    BY <1>30 DEF New, NotClearing, NotFlushing, NotClosing
  <2>5. \A r \in Readers : reader'[r].pc = "idle"
    BY <1>30 DEF New, NotReading
  <2> QED
    BY <2>1, <2>2, <2>3, <2>4, <2>5
<1>31. ASSUME UNCHANGED vars PROVE HandleInv'
  BY <1>31 DEF vars
<1> QED
  BY <1>1, <1>2, <1>3, <1>4, <1>5, <1>6, <1>7, <1>8, <1>9, <1>10, <1>11, <1>12, <1>13,
     <1>14, <1>15, <1>16, <1>17, <1>18, <1>19, <1>20, <1>21, <1>22, <1>23, <1>24, <1>25,
     <1>26, <1>27, <1>28, <1>29, <1>30, <1>31
  DEF Next, FlushStep, CloseStep, ClearStep, ReadStep

(* Locks are given back by who has taken them.                             *)
LEMMA LockInvStep ==
    ASSUME TypeInv, LockInv, [Next]_vars
    PROVE  LockInv'
<1> USE ConstantsAssumption DEF TypeInv, LockInv, memVars, storeVars, procVars,
            histVars, notFlushVars, notCloseVars, notClearVars, notReadVars
<1>1. ASSUME NEW e \in Entries, Update(e) PROVE LockInv'
  BY <1>1 DEF Update, UnitType
<1>2. ASSUME flush PROVE LockInv'
  BY <1>2 DEF flush, FlusherType
<1>3. ASSUME FlushLockConf PROVE LockInv'
  BY <1>3 DEF FlushLockConf, LockConf, Flushing, FlusherType, MuType, Free
<1>4. ASSUME FlushLockCurr PROVE LockInv'
  BY <1>4 DEF FlushLockCurr, Flushing, FlusherType
<1>5. ASSUME FlushNothing PROVE LockInv'
  BY <1>5 DEF FlushNothing, FlushReturn, UnlockConf, FlusherType, MuType, NotFlushing
<1>6. ASSUME FlushLoad PROVE LockInv'
  BY <1>6 DEF FlushLoad, FlusherType
<1>7. ASSUME FlushBegin PROVE LockInv'
  BY <1>7 DEF FlushBegin, Begin, Flushing, FlusherType
<1>8. ASSUME FlushBeginFails PROVE LockInv'
  BY <1>8 DEF FlushBeginFails, FlushReturn, UnlockConf, FlusherType, MuType, NotFlushing
<1>9. ASSUME flushDB PROVE LockInv'
  BY <1>9 DEF flushDB, FlushEnd, FlushReturn, UnlockConf, FlusherType, MuType,
     NotFlushing
<1>10. ASSUME FlushFails PROVE LockInv'
  BY <1>10 DEF FlushFails, FlushEnd, FlushReturn, UnlockConf, Count, FlusherType,
     MuType, NotFlushing, UsedType
<1>11. ASSUME Close PROVE LockInv'
  BY <1>11 DEF Close, CloserType
<1>12. ASSUME CloseBegin PROVE LockInv'
  BY <1>12 DEF CloseBegin, Begin, CloserType
<1>13. ASSUME ClosePut PROVE LockInv'
  BY <1>13 DEF ClosePut, CloserType
<1>14. ASSUME CloseDB PROVE LockInv'
  BY <1>14 DEF CloseDB, CloseFile, CloserType
<1>15. ASSUME handleStatsReset PROVE LockInv'
  BY <1>15 DEF handleStatsReset, clear, Count, ClearerType, UsedType
<1>16. ASSUME ClearClose PROVE LockInv'
  BY <1>16 DEF ClearClose, CloseFile, Clearing, ClearerType
<1>17. ASSUME ClearRemove PROVE LockInv'
  BY <1>17 DEF ClearRemove, Clearing, ClearerType
<1>18. ASSUME RemoveFails PROVE LockInv'
  BY <1>18 DEF RemoveFails, Clearing, Count, ClearerType, UsedType
<1>19. ASSUME openDB PROVE LockInv'
  BY <1>19 DEF openDB, Open, Clearing, ClearerType, UsedType
<1>20. ASSUME OpenFails PROVE LockInv'
  BY <1>20 DEF OpenFails, Clearing, Count, ClearerType, UsedType
<1>21. ASSUME ClearReset PROVE LockInv'
  BY <1>21 DEF ClearReset, UnlockConf, ClearerType, NotClearing, MuType
<1>22. ASSUME NEW limit \in Limits \cup {0}, handleStatsConfig(limit) PROVE LockInv'
  BY <1>22 DEF handleStatsConfig, SetConf, LockConf, clear, Count, ConfType,
     ClearerType, UsedType, MuType, Free
<1>23. ASSUME NEW on \in BOOLEAN, NEW limit \in Limits, handlePutStatsConfig(on, limit)
       PROVE  LockInv'
  BY <1>23 DEF handlePutStatsConfig, SetConf, Count, ConfType, UsedType
<1>24. ASSUME NEW r \in Readers, handleStats(r) PROVE LockInv'
  BY <1>24 DEF handleStats, RLockConf, Count, Reading, UsedType, MuType
<1>25. ASSUME NEW r \in Readers, ReadBegin(r) PROVE LockInv'
  BY <1>25 DEF ReadBegin, Begin, Reading
<1>26. ASSUME NEW r \in Readers, ReadFails(r) PROVE LockInv'
  BY <1>26 DEF ReadFails, RUnlockConf, Reading, MuType, NotReading
<1>27. ASSUME NEW r \in Readers, loadUnits(r) PROVE LockInv'
  BY <1>27 DEF loadUnits, Reading
<1>28. ASSUME NEW r \in Readers, ReadReturn(r) PROVE LockInv'
  BY <1>28 DEF ReadReturn, RUnlockConf, Reading, MuType, NotReading
<1>29. ASSUME Tick PROVE LockInv'
  BY <1>29 DEF Tick
<1>30. ASSUME New PROVE LockInv'
  BY <1>30 DEF New, Open, UsedType, NotFlushing, NotClosing, NotClearing, NotReading,
     FlusherType, CloserType, ClearerType, Reading, MuType, Free
<1>31. ASSUME UNCHANGED vars PROVE LockInv'
  BY <1>31 DEF vars
<1> QED
  BY <1>1, <1>2, <1>3, <1>4, <1>5, <1>6, <1>7, <1>8, <1>9, <1>10, <1>11, <1>12, <1>13,
     <1>14, <1>15, <1>16, <1>17, <1>18, <1>19, <1>20, <1>21, <1>22, <1>23, <1>24, <1>25,
     <1>26, <1>27, <1>28, <1>29, <1>30, <1>31
  DEF Next, FlushStep, CloseStep, ClearStep, ReadStep

(* A clear cannot end while a flush has the current unit, and nothing is   *)
(* owed while it runs.                                                     *)
LEMMA StoreInvStep ==
    ASSUME TypeInv, LockInv, StoreInv, [Next]_vars
    PROVE  StoreInv'
<1> USE ConstantsAssumption DEF TypeInv, LockInv, StoreInv, memVars, storeVars,
            procVars, histVars, notFlushVars, notCloseVars, notClearVars, notReadVars
<1>1. ASSUME NEW e \in Entries, Update(e) PROVE StoreInv'
  BY <1>1 DEF Update, UnitType
<1>2. ASSUME flush PROVE StoreInv'
  BY <1>2 DEF flush, FlusherType
<1>3. ASSUME FlushLockConf PROVE StoreInv'
  BY <1>3 DEF FlushLockConf, LockConf, Flushing, FlusherType, MuType, Free
<1>4. ASSUME FlushLockCurr PROVE StoreInv'
  BY <1>4 DEF FlushLockCurr, Flushing, FlusherType
<1>5. ASSUME FlushNothing PROVE StoreInv'
  BY <1>5 DEF FlushNothing, FlushReturn, UnlockConf, FlusherType, MuType, NotFlushing
<1>6. ASSUME FlushLoad PROVE StoreInv'
  BY <1>6 DEF FlushLoad, FlusherType
<1>7. ASSUME FlushBegin PROVE StoreInv'
  BY <1>7 DEF FlushBegin, Begin, Flushing, FlusherType
<1>8. ASSUME FlushBeginFails PROVE StoreInv'
  BY <1>8 DEF FlushBeginFails, FlushReturn, UnlockConf, FlusherType, MuType, NotFlushing
<1>9. ASSUME flushDB PROVE StoreInv'
  BY <1>9 DEF flushDB, FlushEnd, FlushReturn, UnlockConf, FlusherType, MuType,
     NotFlushing
<1>10. ASSUME FlushFails PROVE StoreInv'
  BY <1>10 DEF FlushFails, FlushEnd, FlushReturn, UnlockConf, Count, FlusherType,
     MuType, NotFlushing, UsedType
<1>11. ASSUME Close PROVE StoreInv'
  BY <1>11 DEF Close, CloserType
<1>12. ASSUME CloseBegin PROVE StoreInv'
  BY <1>12 DEF CloseBegin, Begin, CloserType
<1>13. ASSUME ClosePut PROVE StoreInv'
  BY <1>13 DEF ClosePut, CloserType
<1>14. ASSUME CloseDB PROVE StoreInv'
  BY <1>14 DEF CloseDB, CloseFile, CloserType
<1>15. ASSUME handleStatsReset PROVE StoreInv'
  BY <1>15 DEF handleStatsReset, clear, Count, ClearerType, UsedType
<1>16. ASSUME ClearClose PROVE StoreInv'
  BY <1>16 DEF ClearClose, CloseFile, Clearing, ClearerType
<1>17. ASSUME ClearRemove PROVE StoreInv'
  BY <1>17 DEF ClearRemove, Clearing, ClearerType
<1>18. ASSUME RemoveFails PROVE StoreInv'
  BY <1>18 DEF RemoveFails, Clearing, Count, ClearerType, UsedType
<1>19. ASSUME openDB PROVE StoreInv'
  BY <1>19 DEF openDB, Open, Clearing, ClearerType, UsedType
<1>20. ASSUME OpenFails PROVE StoreInv'
  BY <1>20 DEF OpenFails, Clearing, Count, ClearerType, UsedType
<1>21. ASSUME ClearReset PROVE StoreInv'
  BY <1>21 DEF ClearReset, UnlockConf, ClearerType, NotClearing, MuType
<1>22. ASSUME NEW limit \in Limits \cup {0}, handleStatsConfig(limit) PROVE StoreInv'
  BY <1>22 DEF handleStatsConfig, SetConf, LockConf, clear, Count, ConfType,
     ClearerType, UsedType, MuType, Free
<1>23. ASSUME NEW on \in BOOLEAN, NEW limit \in Limits, handlePutStatsConfig(on, limit)
       PROVE  StoreInv'
  BY <1>23 DEF handlePutStatsConfig, SetConf, Count, ConfType, UsedType
<1>24. ASSUME NEW r \in Readers, handleStats(r) PROVE StoreInv'
  <2>1. /\ reader' = [reader EXCEPT ![r] = [pc |-> "begin", h |-> db, must |-> due, seen |-> {}]]
        /\ UNCHANGED <<db, path, flusher, closer, clearer, histVars>>
    BY <1>24 DEF handleStats
  <2>2. reader'[r].must = due /\ reader'[r].h = db
    BY <2>1
  <2>3. \A q \in Readers \ {r} : reader'[q] = reader[q]
    BY <2>1
  <2> QED
    BY <2>1, <2>2, <2>3
<1>25. ASSUME NEW r \in Readers, ReadBegin(r) PROVE StoreInv'
  BY <1>25 DEF ReadBegin, Begin, Reading
<1>26. ASSUME NEW r \in Readers, ReadFails(r) PROVE StoreInv'
  BY <1>26 DEF ReadFails, RUnlockConf, Reading, MuType, NotReading
<1>27. ASSUME NEW r \in Readers, loadUnits(r) PROVE StoreInv'
  BY <1>27 DEF loadUnits, Reading
<1>28. ASSUME NEW r \in Readers, ReadReturn(r) PROVE StoreInv'
  BY <1>28 DEF ReadReturn, RUnlockConf, Reading, MuType, NotReading
<1>29. ASSUME Tick PROVE StoreInv'
  BY <1>29 DEF Tick
<1>30. ASSUME New PROVE StoreInv'
  BY ZenonT(30), <1>30 DEF New, Open, UsedType, NotFlushing, NotClosing, NotClearing, NotReading,
     FlusherType, CloserType, ClearerType, Reading, MuType, Free
<1>31. ASSUME UNCHANGED vars PROVE StoreInv'
  BY <1>31 DEF vars
<1> QED
  BY <1>1, <1>2, <1>3, <1>4, <1>5, <1>6, <1>7, <1>8, <1>9, <1>10, <1>11, <1>12, <1>13,
     <1>14, <1>15, <1>16, <1>17, <1>18, <1>19, <1>20, <1>21, <1>22, <1>23, <1>24, <1>25,
     <1>26, <1>27, <1>28, <1>29, <1>30, <1>31
  DEF Next, FlushStep, CloseStep, ClearStep, ReadStep

-----------------------------------------------------------------------------
(* What a step makes of the units that the file holds: only a flush, Close,*)
(* the removal of the file and a start change them.                        *)
LEMMA UnitsStep ==
    ASSUME TypeInv, HandleInv, [Next]_vars
    PROVE  /\ Units \in UnitsType
           /\ flushDB => Units' = IF flusher.h = path THEN Flushed(Units, curr, flusher.id)
                                  ELSE Units
           /\ ClosePut => Units' = IF closer.h = path THEN [Units EXCEPT ![curr.id] = curr.set]
                                   ELSE Units
           /\ ClearRemove => Units' = NoUnits
           /\ New => Units' = deleteOldUnits(Units) /\ curr' = [id |-> hour, set |-> Units'[hour]]
           /\ flushDB \/ ClosePut \/ ClearRemove \/ New \/ Units' = Units
<1> USE DEF TypeInv
<1>n. None \notin Ids
  BY ConstantsAssumption DEF Ids
<1>e. Units = IF path = None THEN NoUnits ELSE files[path].units
  BY DEF Units, NoUnits
<1>0. Units \in UnitsType
  <2>1. [h \in Hours |-> {}] \in UnitsType
    BY DEF UnitsType
  <2>2. path # None => files[path].units \in UnitsType
    BY FileFacts
  <2> QED
    BY <2>1, <2>2 DEF Units
<1>k. ASSUME path' = path, NEW k \in Ids,
             \/ \E p : files' = [files EXCEPT ![k].tx = p]
             \/ \E b : files' = [files EXCEPT ![k].open = b]
      PROVE  Units' = Units
  <2>1. \A i \in Ids : files'[i].units = files[i].units
    BY <1>k DEF File
  <2> QED
    BY <1>k, <2>1 DEF Units
<1>u. ASSUME path' = path, files' = files
      PROVE  Units' = Units
  BY <1>u DEF Units
<1>w. ASSUME path' = path, NEW k \in Ids, NEW us \in UnitsType,
             files' = [files EXCEPT ![k].units = us, ![k].tx = None]
      PROVE  Units' = IF k = path THEN us ELSE Units
  <2>1. files'[k].units = us /\ \A i \in Ids \ {k} : files'[i] = files[i]
    BY <1>w DEF File
  <2> QED
    BY <1>n, <1>w, <2>1 DEF Units
<1>1. ASSUME flushDB
      PROVE  Units' = IF flusher.h = path THEN Flushed(Units, curr, flusher.id) ELSE Units
  <2>1. PICK k \in Ids : k = flusher.h
    BY <1>1 DEF flushDB, HandleInv
  <2>2. flusher.id \in Hours /\ files[k].units \in UnitsType
    BY FileFacts DEF FlusherType
  <2>3. PICK us \in UnitsType : us = Flushed(files[k].units, curr, flusher.id)
    BY <2>2, UnitsFacts
  <2>4. path' = path /\ files' = [files EXCEPT ![k].units = us, ![k].tx = None]
    BY <1>1, <2>1, <2>3 DEF flushDB, FlushEnd, notFlushVars
  <2>5. Units' = IF k = path THEN us ELSE Units
    BY <1>w, <2>4
  <2> QED
    BY <1>n, <2>1, <2>3, <2>5 DEF Units
<1>2. ASSUME ClosePut
      PROVE  Units' = IF closer.h = path THEN [Units EXCEPT ![curr.id] = curr.set] ELSE Units
  <2>1. PICK k \in Ids : k = closer.h
    BY <1>2 DEF ClosePut, HandleInv
  <2>2. files[k].units \in UnitsType
    BY FileFacts
  <2>3. PICK us \in UnitsType : us = [files[k].units EXCEPT ![curr.id] = curr.set]
    BY <2>2, UnitsFacts
  <2>4. path' = path /\ files' = [files EXCEPT ![k].units = us, ![k].tx = None]
    BY <1>2, <2>1, <2>3 DEF ClosePut, notCloseVars
  <2>5. Units' = IF k = path THEN us ELSE Units
    BY <1>w, <2>4
  <2> QED
    BY <1>n, <2>1, <2>3, <2>5 DEF Units
<1>3. ASSUME ClearRemove
      PROVE  Units' = NoUnits
  BY <1>3 DEF ClearRemove, Units, NoUnits
<1>4. ASSUME openDB
      PROVE  Units' = Units
  <2> DEFINE o == Open(path, files, used.file)
  <2>1. clearer.pc = "open" /\ path' = o.path /\ files' = o.files
    BY <1>4 DEF openDB
  <2>o. o = Open(path, files, used.file)
    OBVIOUS
  <2> HIDE DEF o
  <2>2. /\ o.path \in Ids
        /\ path = None => o.files[o.path].units = NoUnits
        /\ path # None => o.files[o.path].units = files[path].units
    <3>1. /\ used.file \in Nat \ {0} /\ (path = None => used.file + 1 \in Ids)
          /\ path \in Ids \cup {None} /\ files \in [Ids -> File]
      BY <2>1, FreshFile
    <3> QED
      BY <2>o, <3>1, OpenFacts
  <2>3. path' # None /\ files'[path'].units = Units
    BY <1>n, <1>e, <2>1, <2>2
  <2> QED
    BY <2>3 DEF Units
<1>5. ASSUME New
      PROVE  Units' = deleteOldUnits(Units) /\ curr' = [id |-> hour, set |-> Units'[hour]]
  <2> DEFINE fs == [k \in Ids |-> [files[k] EXCEPT !.open = FALSE, !.tx = None]]
             o == Open(path, fs, used.file)
  <2>1. fs \in [Ids -> File] /\ \A k \in Ids : fs[k].units = files[k].units
    BY DEF File
  <2>2. /\ path' = o.path /\ used.restart < MaxRestarts
        /\ files' = [o.files EXCEPT ![o.path].units = deleteOldUnits(@)]
        /\ curr' = [id |-> hour, set |-> files'[o.path].units[hour]]
    BY <1>5 DEF New
  <2>o. o = Open(path, fs, used.file)
    OBVIOUS
  <2> HIDE DEF o, fs
  <2>3. /\ o.path \in Ids /\ o.files \in [Ids -> File]
        /\ path = None => o.files[o.path].units = NoUnits
        /\ path # None => o.files[o.path].units = fs[path].units
    <3>1. /\ used.file \in Nat \ {0} /\ (path = None => used.file + 1 \in Ids)
          /\ path \in Ids \cup {None}
      BY <2>2, FreshFile
    <3> QED
      BY SMTT(30), <2>o, <2>1, <3>1, OpenFacts
  <2>4. o.files[o.path].units = Units
    BY <1>e, <2>1, <2>3
  <2>5. files'[o.path].units = deleteOldUnits(Units)
    BY <2>2, <2>3, <2>4 DEF File
  <2> QED
    BY <1>n, <2>2, <2>3, <2>5 DEF Units
<1>6. ASSUME ~flushDB, ~ClosePut, ~ClearRemove, ~New
      PROVE  Units' = Units
  <2> USE DEF memVars, storeVars, procVars, histVars, notFlushVars, notCloseVars,
              notClearVars, notReadVars
  <2>1. CASE FlushBegin \/ FlushFails
    <3>1. flusher.h \in Ids /\ path' = path /\ \E p : files' = [files EXCEPT ![flusher.h].tx = p]
      BY <2>1 DEF FlushBegin, FlushFails, FlushEnd, Begin, HandleInv
    <3> QED
      BY <1>k, <3>1
  <2>2. CASE CloseBegin
    <3>1. closer.h \in Ids /\ path' = path /\ \E p : files' = [files EXCEPT ![closer.h].tx = p]
      BY <2>2 DEF CloseBegin, Begin, HandleInv
    <3> QED
      BY <1>k, <3>1
  <2>3. CASE CloseDB
    <3>1. closer.h \in Ids /\ path' = path /\ \E b : files' = [files EXCEPT ![closer.h].open = b]
      BY <2>3 DEF CloseDB, CloseFile, HandleInv
    <3> QED
      BY <1>k, <3>1
  <2>4. CASE ClearClose
    <3>1. CASE clearer.h = None
      BY <1>u, <2>4, <3>1 DEF ClearClose
    <3>2. CASE clearer.h # None
      <4>1. clearer.h \in Ids /\ path' = path
            /\ \E b : files' = [files EXCEPT ![clearer.h].open = b]
        BY <2>4, <3>2 DEF ClearClose, CloseFile, ClearerType
      <4> QED
        BY <1>k, <4>1
    <3> QED
      BY <3>1, <3>2
  <2>5. ASSUME NEW r \in Readers, ReadBegin(r) \/ loadUnits(r)
        PROVE  Units' = Units
    <3>1. /\ reader[r].h \in Ids /\ path' = path
          /\ \E p : files' = [files EXCEPT ![reader[r].h].tx = p]
      BY <2>5 DEF ReadBegin, loadUnits, Begin, HandleInv, Reading
    <3> QED
      BY <1>k, <3>1
  <2>6. CASE \/ \E e \in Entries : Update(e)
             \/ flush \/ FlushLockConf \/ FlushLockCurr \/ FlushNothing \/ FlushLoad
             \/ FlushBeginFails \/ Close \/ handleStatsReset \/ RemoveFails \/ OpenFails
             \/ ClearReset \/ \E limit \in Limits \cup {0} : handleStatsConfig(limit)
             \/ \E on \in BOOLEAN, limit \in Limits : handlePutStatsConfig(on, limit)
             \/ \E r \in Readers : handleStats(r) \/ ReadFails(r) \/ ReadReturn(r)
             \/ Tick \/ UNCHANGED vars
    <3>1. path' = path /\ files' = files
      BY <2>6 DEF Update, flush, FlushLockConf, FlushLockCurr, FlushNothing, FlushLoad,
            FlushBeginFails, Close, handleStatsReset, clear, RemoveFails, OpenFails,
            ClearReset, handleStatsConfig, handlePutStatsConfig, SetConf, handleStats,
            ReadFails, ReadReturn, Tick, vars
    <3> QED
      BY <1>u, <3>1
  <2> QED
    BY <1>4, <1>6, <2>1, <2>2, <2>3, <2>4, <2>5, <2>6
    DEF Next, FlushStep, CloseStep, ClearStep, ReadStep
<1> QED
  BY <1>0, <1>1, <1>2, <1>3, <1>5, <1>6

(* The same, hour by hour, with the types it takes to read it.             *)
UnitsMove ==
    /\ \A h \in Hours : Units[h] \subseteq Entries /\ h \in Nat
    /\ curr.id \in Hours /\ curr.set \subseteq Entries /\ flusher.id \in Hours
    /\ conf.limit \in Nat \ {0}
    /\ flushDB /\ flusher.h = path =>
         \A h \in Hours : Units'[h] = IF h = flusher.id - conf.limit THEN {}
                                      ELSE IF h = curr.id THEN curr.set ELSE Units[h]
    /\ flushDB /\ flusher.h # path => Units' = Units
    /\ ClosePut /\ closer.h = path =>
         \A h \in Hours : Units'[h] = IF h = curr.id THEN curr.set ELSE Units[h]
    /\ ClosePut /\ closer.h # path => Units' = Units
    /\ ClearRemove => \A h \in Hours : Units'[h] = {}
    /\ New => /\ curr'.id = hour /\ curr'.set = Units'[hour]
              /\ \A h \in Hours : \/ Units'[h] = Units[h]
                                  \/ Units'[h] = {} /\ h < hour - conf.limit - 1
    /\ flushDB \/ ClosePut \/ ClearRemove \/ New \/ Units' = Units

(* Every step moves the units so.                                          *)
LEMMA UnitsEffect ==
    ASSUME TypeInv, HandleInv, [Next]_vars
    PROVE  UnitsMove
<1>1. /\ Units \in UnitsType
      /\ flushDB => Units' = IF flusher.h = path THEN Flushed(Units, curr, flusher.id)
                             ELSE Units
      /\ ClosePut => Units' = IF closer.h = path THEN [Units EXCEPT ![curr.id] = curr.set]
                              ELSE Units
      /\ ClearRemove => Units' = NoUnits
      /\ New => Units' = deleteOldUnits(Units) /\ curr' = [id |-> hour, set |-> Units'[hour]]
      /\ flushDB \/ ClosePut \/ ClearRemove \/ New \/ Units' = Units
  BY UnitsStep
<1>2. \A h \in Hours : Units[h] \subseteq Entries /\ h \in Nat
  BY <1>1, IdleFacts DEF UnitsType
<1>3. curr.id \in Hours /\ curr.set \subseteq Entries /\ flusher.id \in Hours
  BY DEF TypeInv, UnitType, FlusherType
<1>4. conf.limit \in Nat \ {0}
  BY ConstantsAssumption DEF TypeInv, ConfType
<1>5. flushDB /\ flusher.h = path =>
        \A h \in Hours : Units'[h] = IF h = flusher.id - conf.limit THEN {}
                                     ELSE IF h = curr.id THEN curr.set ELSE Units[h]
  BY <1>1 DEF Flushed
<1>6. ClosePut /\ closer.h = path =>
        \A h \in Hours : Units'[h] = IF h = curr.id THEN curr.set ELSE Units[h]
  BY <1>1 DEF UnitsType
<1>7. ClearRemove => \A h \in Hours : Units'[h] = {}
  BY <1>1 DEF NoUnits
<1>8. New => \A h \in Hours : \/ Units'[h] = Units[h]
                              \/ Units'[h] = {} /\ h < hour - conf.limit - 1
  BY <1>1 DEF deleteOldUnits
<1>9. New => curr'.id = hour /\ curr'.set = Units'[hour]
  BY <1>1
<1>10. /\ flushDB /\ flusher.h # path => Units' = Units
       /\ ClosePut /\ closer.h # path => Units' = Units
  BY <1>1
<1> QED
  BY <1>1, <1>2, <1>3, <1>4, <1>5, <1>6, <1>7, <1>8, <1>9, <1>10 DEF UnitsMove

(* An entry that is moved stays in the unit of its hour.                   *)
LEMMA UnitsInvStep ==
    ASSUME TypeInv, HandleInv, LockInv, UnitsInv, [Next]_vars
    PROVE  UnitsInv'
<1> USE DEF UnitsMove, TypeInv, UnitsInv, LockInv, memVars, storeVars, procVars, histVars,
            notFlushVars, notCloseVars, notClearVars, notReadVars
<1>u. UnitsMove
  BY UnitsEffect
<1>1. ASSUME NEW e \in Entries, Update(e), Units' = Units PROVE UnitsInv'
  BY <1>1, <1>u DEF Update, UnitType
<1>2. ASSUME flush, Units' = Units PROVE UnitsInv'
  BY <1>2, <1>u DEF flush, FlusherType
<1>3. ASSUME FlushLockConf, Units' = Units PROVE UnitsInv'
  BY <1>3, <1>u DEF FlushLockConf, LockConf, Flushing, FlusherType, MuType, Free
<1>4. ASSUME FlushLockCurr, Units' = Units PROVE UnitsInv'
  BY <1>4, <1>u DEF FlushLockCurr, Flushing, FlusherType
<1>5. ASSUME FlushNothing, Units' = Units PROVE UnitsInv'
  BY <1>5, <1>u DEF FlushNothing, FlushReturn, UnlockConf, FlusherType, MuType,
     NotFlushing
<1>6. ASSUME FlushLoad, Units' = Units PROVE UnitsInv'
  BY <1>6, <1>u DEF FlushLoad, FlusherType
<1>7. ASSUME FlushBegin, Units' = Units PROVE UnitsInv'
  BY <1>7, <1>u DEF FlushBegin, Begin, Flushing, FlusherType
<1>8. ASSUME FlushBeginFails, Units' = Units PROVE UnitsInv'
  BY <1>8, <1>u DEF FlushBeginFails, FlushReturn, UnlockConf, FlusherType, MuType,
     NotFlushing
<1>9. ASSUME flushDB PROVE UnitsInv'
  BY <1>9, <1>u DEF flushDB, FlushEnd, FlushReturn, UnlockConf, FlusherType, MuType,
     NotFlushing, newUnit, UnitType
<1>10. ASSUME FlushFails, Units' = Units PROVE UnitsInv'
  BY <1>10, <1>u DEF FlushFails, FlushEnd, FlushReturn, UnlockConf, Count, FlusherType,
     MuType, NotFlushing, UsedType, newUnit, UnitType
<1>11. ASSUME Close, Units' = Units PROVE UnitsInv'
  BY <1>11, <1>u DEF Close, CloserType
<1>12. ASSUME CloseBegin, Units' = Units PROVE UnitsInv'
  BY <1>12, <1>u DEF CloseBegin, Begin, CloserType
<1>13. ASSUME ClosePut PROVE UnitsInv'
  BY <1>13, <1>u DEF ClosePut, CloserType
<1>14. ASSUME CloseDB, Units' = Units PROVE UnitsInv'
  BY <1>14, <1>u DEF CloseDB, CloseFile, CloserType
<1>15. ASSUME handleStatsReset, Units' = Units PROVE UnitsInv'
  BY <1>15, <1>u DEF handleStatsReset, clear, Count, ClearerType, UsedType
<1>16. ASSUME ClearClose, Units' = Units PROVE UnitsInv'
  BY <1>16, <1>u DEF ClearClose, CloseFile, Clearing, ClearerType
<1>17. ASSUME ClearRemove PROVE UnitsInv'
  BY <1>17, <1>u DEF ClearRemove, Clearing, ClearerType
<1>18. ASSUME RemoveFails, Units' = Units PROVE UnitsInv'
  BY <1>18, <1>u DEF RemoveFails, Clearing, Count, ClearerType, UsedType
<1>19. ASSUME openDB, Units' = Units PROVE UnitsInv'
  BY <1>19, <1>u DEF openDB, Open, Clearing, ClearerType, UsedType
<1>20. ASSUME OpenFails, Units' = Units PROVE UnitsInv'
  BY <1>20, <1>u DEF OpenFails, Clearing, Count, ClearerType, UsedType
<1>21. ASSUME ClearReset, Units' = Units PROVE UnitsInv'
  <2>1. flusher.pc \notin {"begin", "write"}
    BY <1>21, ConstantsAssumption DEF ClearReset
  <2>2. curr' = newUnit(hour) /\ UNCHANGED <<hour, flusher, idle, at, cleared>>
    BY <1>21 DEF ClearReset
  <2>3. curr'.id = hour /\ curr'.set = {}
    BY <2>2 DEF newUnit
  <2> QED
    BY <1>21, <1>u, <2>1, <2>2, <2>3
<1>22. ASSUME NEW limit \in Limits \cup {0}, handleStatsConfig(limit), Units' = Units
       PROVE  UnitsInv'
  BY <1>22, <1>u DEF handleStatsConfig, SetConf, LockConf, clear, Count, ConfType,
     ClearerType, UsedType, MuType, Free
<1>23. ASSUME NEW on \in BOOLEAN, NEW limit \in Limits, handlePutStatsConfig(on, limit),
              Units' = Units
       PROVE  UnitsInv'
  BY <1>23, <1>u DEF handlePutStatsConfig, SetConf, Count, ConfType, UsedType
<1>24. ASSUME NEW r \in Readers, handleStats(r), Units' = Units PROVE UnitsInv'
  BY <1>24, <1>u DEF handleStats, RLockConf, Count, Reading, UsedType, MuType
<1>25. ASSUME NEW r \in Readers, ReadBegin(r), Units' = Units PROVE UnitsInv'
  BY <1>25, <1>u DEF ReadBegin, Begin, Reading
<1>26. ASSUME NEW r \in Readers, ReadFails(r), Units' = Units PROVE UnitsInv'
  BY <1>26, <1>u DEF ReadFails, RUnlockConf, Reading, MuType, NotReading
<1>27. ASSUME NEW r \in Readers, loadUnits(r), Units' = Units PROVE UnitsInv'
  BY <1>27, <1>u DEF loadUnits, Reading
<1>28. ASSUME NEW r \in Readers, ReadReturn(r), Units' = Units PROVE UnitsInv'
  BY <1>28, <1>u DEF ReadReturn, RUnlockConf, Reading, MuType, NotReading
<1>29. ASSUME Tick, Units' = Units PROVE UnitsInv'
  BY <1>29, <1>u DEF Tick
<1>30. ASSUME New PROVE UnitsInv'
  <2>1. /\ UNCHANGED <<hour, idle, at>> /\ cleared' = {} /\ flusher' = NotFlushing
        /\ curr'.id = hour /\ curr'.set = Units'[hour]
    BY <1>30, <1>u DEF New
  <2>2. \A h \in Hours : Units'[h] \subseteq Units[h]
    BY <1>30, <1>u
  <2>3. flusher'.pc = "idle" /\ flusher'.id = 0
    BY <2>1 DEF NotFlushing
  <2>4. hour \in Hours /\ hour \in Nat
    BY <1>u
  <2> QED
    BY <2>1, <2>2, <2>3, <2>4
<1>31. ASSUME UNCHANGED vars, Units' = Units PROVE UnitsInv'
  BY <1>31, <1>u DEF vars
<1> QED
  BY <1>u, <1>1, <1>2, <1>3, <1>4, <1>5, <1>6, <1>7, <1>8, <1>9, <1>10, <1>11, <1>12,
     <1>13, <1>14, <1>15, <1>16, <1>17, <1>18, <1>19, <1>20, <1>21, <1>22, <1>23, <1>24,
     <1>25, <1>26, <1>27, <1>28, <1>29, <1>30, <1>31
  DEF Next, FlushStep, CloseStep, ClearStep, ReadStep

(* What is owed is where it belongs after every step.                      *)
LEMMA DueInvStep ==
    ASSUME TypeInv, HandleInv, LockInv, StoreInv, UnitsInv, DueInv, [Next]_vars
    PROVE  DueInv'
<1> USE DEF UnitsMove, TypeInv, DueInv, UnitsInv, StoreInv, LockInv, memVars, storeVars, procVars,
            histVars, notFlushVars, notCloseVars, notClearVars, notReadVars
<1>u. UnitsMove
  BY UnitsEffect
<1>1. ASSUME NEW e \in Entries, Update(e), Units' = Units PROVE DueInv'
  BY <1>1, <1>u DEF Update, UnitType
<1>2. ASSUME flush, Units' = Units PROVE DueInv'
  BY <1>2, <1>u DEF flush, FlusherType
<1>3. ASSUME FlushLockConf, Units' = Units PROVE DueInv'
  BY <1>3, <1>u DEF FlushLockConf, LockConf, Flushing, FlusherType, MuType, Free
<1>4. ASSUME FlushLockCurr, Units' = Units PROVE DueInv'
  BY <1>4, <1>u DEF FlushLockCurr, Flushing, FlusherType
<1>5. ASSUME FlushNothing, Units' = Units PROVE DueInv'
  BY <1>5, <1>u DEF FlushNothing, FlushReturn, UnlockConf, FlusherType, MuType,
     NotFlushing
<1>6. ASSUME FlushLoad, Units' = Units PROVE DueInv'
  BY <1>6, <1>u DEF FlushLoad, FlusherType
<1>7. ASSUME FlushBegin, Units' = Units PROVE DueInv'
  BY <1>7, <1>u DEF FlushBegin, Begin, Flushing, FlusherType
<1>8. ASSUME FlushBeginFails, Units' = Units PROVE DueInv'
  BY <1>8, <1>u DEF FlushBeginFails, FlushReturn, UnlockConf, FlusherType, MuType,
     NotFlushing
<1>9. ASSUME flushDB PROVE DueInv'
  <2>1. /\ flusher.pc = "write" /\ curr'.id = flusher.id /\ curr'.set = {}
        /\ due' = {e \in due : at[e] > flusher.id - conf.limit}
        /\ stale' = (stale \/ curr.id > flusher.id) /\ at' = at /\ saved' = saved
    BY <1>9 DEF flushDB, FlushEnd, newUnit
  <2> SUFFICES ASSUME ~stale' PROVE DueInv'
    OBVIOUS
  <2>2. ~stale /\ curr.id < flusher.id
    <3>1. curr.id # flusher.id /\ curr.id \in Nat /\ flusher.id \in Nat
      BY <1>u, <2>1
    <3>2. ~stale /\ ~(curr.id > flusher.id)
      BY <2>1
    <3> QED
      BY <3>1, <3>2
  <2>3. flusher.h # path => due = {}
    BY <2>1
  <2>4. \A h \in Hours : h > flusher.id => Units'[h] = {}
    BY <1>9, <1>u, <2>2
  <2>5. Units'[flusher.id] = {}
    BY <1>9, <1>u, <2>2
  <2>6. ASSUME NEW e \in due'
        PROVE  e \in Units'[at[e]]
    <3>1. /\ e \in due /\ at[e] \in Hours /\ at[e] # flusher.id - conf.limit
          /\ flusher.h = path
      BY <1>u, <2>1, <2>3, <2>6
    <3>2. CASE e \in curr.set
      BY <1>9, <1>u, <3>1, <3>2
    <3>3. CASE e \notin curr.set
      <4>1. e \in Units[at[e]] /\ at[e] # curr.id
        BY <2>2, <3>1, <3>3
      <4> QED
        BY <1>9, <1>u, <3>1, <4>1
    <3> QED
      BY <3>2, <3>3
  <2> QED
    BY <2>1, <2>4, <2>5, <2>6
<1>10. ASSUME FlushFails, Units' = Units PROVE DueInv'
  <2>1. /\ flusher.pc = "write" /\ curr'.id = flusher.id /\ curr'.set = {}
        /\ due' \subseteq due \ curr.set
        /\ stale' = (stale \/ curr.id > flusher.id) /\ at' = at /\ saved' = saved
    BY <1>10 DEF FlushFails, FlushEnd, newUnit
  <2> SUFFICES ASSUME ~stale' PROVE DueInv'
    OBVIOUS
  <2>2. ~stale /\ curr.id < flusher.id
    <3>1. curr.id # flusher.id /\ curr.id \in Nat /\ flusher.id \in Nat
      BY <1>u, <2>1
    <3>2. ~stale /\ ~(curr.id > flusher.id)
      BY <2>1
    <3> QED
      BY <3>1, <3>2
  <2>3. Units[flusher.id] = {} /\ \A h \in Hours : h > flusher.id => Units[h] = {}
    BY <1>u, <2>2
  <2> QED
    BY <1>10, <2>1, <2>2, <2>3
<1>11. ASSUME Close, Units' = Units PROVE DueInv'
  BY <1>11, <1>u DEF Close, CloserType
<1>12. ASSUME CloseBegin, Units' = Units PROVE DueInv'
  BY <1>12, <1>u DEF CloseBegin, Begin, CloserType
<1>13. ASSUME ClosePut PROVE DueInv'
  BY <1>13, <1>u DEF ClosePut, CloserType
<1>14. ASSUME CloseDB, Units' = Units PROVE DueInv'
  BY <1>14, <1>u DEF CloseDB, CloseFile, CloserType
<1>15. ASSUME handleStatsReset, Units' = Units PROVE DueInv'
  BY <1>15, <1>u DEF handleStatsReset, clear, Count, ClearerType, UsedType
<1>16. ASSUME ClearClose, Units' = Units PROVE DueInv'
  BY <1>16, <1>u DEF ClearClose, CloseFile, Clearing, ClearerType
<1>17. ASSUME ClearRemove PROVE DueInv'
  BY <1>17, <1>u DEF ClearRemove, Clearing, ClearerType
<1>18. ASSUME RemoveFails, Units' = Units PROVE DueInv'
  BY <1>18, <1>u DEF RemoveFails, Clearing, Count, ClearerType, UsedType
<1>19. ASSUME openDB, Units' = Units PROVE DueInv'
  BY <1>19, <1>u DEF openDB, Open, Clearing, ClearerType, UsedType
<1>20. ASSUME OpenFails, Units' = Units PROVE DueInv'
  BY <1>20, <1>u DEF OpenFails, Clearing, Count, ClearerType, UsedType
<1>21. ASSUME ClearReset, Units' = Units PROVE DueInv'
  BY <1>21, <1>u DEF ClearReset, UnlockConf, ClearerType, NotClearing, MuType, newUnit,
     UnitType
<1>22. ASSUME NEW limit \in Limits \cup {0}, handleStatsConfig(limit), Units' = Units
       PROVE  DueInv'
  BY <1>22, <1>u DEF handleStatsConfig, SetConf, LockConf, clear, Count, ConfType,
     ClearerType, UsedType, MuType, Free
<1>23. ASSUME NEW on \in BOOLEAN, NEW limit \in Limits, handlePutStatsConfig(on, limit),
              Units' = Units
       PROVE  DueInv'
  BY <1>23, <1>u DEF handlePutStatsConfig, SetConf, Count, ConfType, UsedType
<1>24. ASSUME NEW r \in Readers, handleStats(r), Units' = Units PROVE DueInv'
  BY <1>24, <1>u DEF handleStats, RLockConf, Count, Reading, UsedType, MuType
<1>25. ASSUME NEW r \in Readers, ReadBegin(r), Units' = Units PROVE DueInv'
  BY <1>25, <1>u DEF ReadBegin, Begin, Reading
<1>26. ASSUME NEW r \in Readers, ReadFails(r), Units' = Units PROVE DueInv'
  BY <1>26, <1>u DEF ReadFails, RUnlockConf, Reading, MuType, NotReading
<1>27. ASSUME NEW r \in Readers, loadUnits(r), Units' = Units PROVE DueInv'
  BY <1>27, <1>u DEF loadUnits, Reading
<1>28. ASSUME NEW r \in Readers, ReadReturn(r), Units' = Units PROVE DueInv'
  BY <1>28, <1>u DEF ReadReturn, RUnlockConf, Reading, MuType, NotReading
<1>29. ASSUME Tick, Units' = Units PROVE DueInv'
  BY <1>29, <1>u DEF Tick
<1>30. ASSUME New PROVE DueInv'
  <2>1. /\ UNCHANGED <<at, stale>> /\ saved' = FALSE
        /\ due' = {e \in due : at[e] > hour - conf.limit /\ (saved \/ e \notin curr.set)}
    BY <1>30 DEF New
  <2>2. curr'.id = hour /\ curr'.set = Units'[hour] /\ hour \in Hours /\ hour \in Nat
    BY <1>30, <1>u
  <2> SUFFICES ASSUME ~stale PROVE DueInv'
    BY <2>1
  <2>3. \A h \in Hours : h > hour => Units'[h] = {}
    <3>1. curr.id \in Nat /\ curr.id <= hour
      BY <1>u
    <3>2. \A h \in Hours : h > hour => Units[h] = {}
      BY <1>u, <2>2, <3>1
    <3> QED
      BY <1>30, <1>u, <3>2
  <2>4. ASSUME NEW e \in due'
        PROVE  e \in Units'[at[e]]
    <3>1. e \in due /\ at[e] \in Hours /\ at[e] > hour - conf.limit /\ e \in Units[at[e]]
      BY <2>1, <2>4
    <3>2. ~(at[e] < hour - conf.limit - 1)
      <4>1. at[e] \in Nat /\ conf.limit \in Nat
        BY <1>u, <3>1
      <4> QED
        BY <2>2, <3>1, <4>1
    <3> QED
      BY <1>30, <1>u, <3>1, <3>2
  <2> QED
    BY <2>1, <2>2, <2>3, <2>4
<1>31. ASSUME UNCHANGED vars, Units' = Units PROVE DueInv'
  BY <1>31, <1>u DEF vars
<1> QED
  BY <1>u, <1>1, <1>2, <1>3, <1>4, <1>5, <1>6, <1>7, <1>8, <1>9, <1>10, <1>11, <1>12,
     <1>13, <1>14, <1>15, <1>16, <1>17, <1>18, <1>19, <1>20, <1>21, <1>22, <1>23, <1>24,
     <1>25, <1>26, <1>27, <1>28, <1>29, <1>30, <1>31
  DEF Next, FlushStep, CloseStep, ClearStep, ReadStep

(* Whoever saves a unit while a clear runs spoils it.                      *)
LEMMA ClearInvStep ==
    ASSUME TypeInv, HandleInv, LockInv, StoreInv, UnitsInv, ClearInv, [Next]_vars
    PROVE  ClearInv'
<1> USE DEF UnitsMove, TypeInv, ClearInv, UnitsInv, Nothing, StoreInv, LockInv, memVars, storeVars,
            procVars, histVars, notFlushVars, notCloseVars, notClearVars, notReadVars
<1>u. UnitsMove
  BY UnitsEffect
<1>1. ASSUME NEW e \in Entries, Update(e), Units' = Units PROVE ClearInv'
  BY <1>1, <1>u DEF Update, UnitType
<1>2. ASSUME flush, Units' = Units PROVE ClearInv'
  BY <1>2, <1>u DEF flush, FlusherType
<1>3. ASSUME FlushLockConf, Units' = Units PROVE ClearInv'
  BY <1>3, <1>u DEF FlushLockConf, LockConf, Flushing, FlusherType, MuType, Free
<1>4. ASSUME FlushLockCurr, Units' = Units PROVE ClearInv'
  BY <1>4, <1>u DEF FlushLockCurr, Flushing, FlusherType
<1>5. ASSUME FlushNothing, Units' = Units PROVE ClearInv'
  BY <1>5, <1>u DEF FlushNothing, FlushReturn, UnlockConf, FlusherType, MuType,
     NotFlushing
<1>6. ASSUME FlushLoad, Units' = Units PROVE ClearInv'
  BY <1>6, <1>u DEF FlushLoad, FlusherType
<1>7. ASSUME FlushBegin, Units' = Units PROVE ClearInv'
  BY <1>7, <1>u DEF FlushBegin, Begin, Flushing, FlusherType
<1>8. ASSUME FlushBeginFails, Units' = Units PROVE ClearInv'
  BY <1>8, <1>u DEF FlushBeginFails, FlushReturn, UnlockConf, FlusherType, MuType,
     NotFlushing
<1>9. ASSUME flushDB PROVE ClearInv'
  <2>1. /\ flusher.pc = "write" /\ curr'.set = {} /\ curr'.id \in Hours
        /\ spoiled' = (spoiled \/ clearer.pc # "idle")
        /\ UNCHANGED <<closer, clearer, cleared, db, path, saved>>
        /\ flusher'.pc = "idle"
    BY <1>9, <1>u DEF flushDB, FlushEnd, FlushReturn, newUnit, NotFlushing
  <2> SUFFICES ASSUME ~spoiled, clearer.pc = "idle" PROVE ClearInv'
    BY <2>1
  <2>2. \A h \in Hours : Units'[h] \subseteq Units[h] \cup curr.set
    BY <1>9, <1>u
  <2>3. cleared \cap curr.set = {} /\ \A h \in Hours : cleared \cap Units[h] = {}
    OBVIOUS
  <2>4. \A h \in Hours : cleared \cap Units'[h] = {}
    BY <2>2, <2>3
  <2>5. Nothing => Nothing'
    BY <2>1, <2>2
  <2>6. saved => Nothing
    BY <2>1
  <2> QED
    BY <2>1, <2>3, <2>4, <2>5, <2>6
<1>10. ASSUME FlushFails, Units' = Units PROVE ClearInv'
  BY <1>10, <1>u DEF FlushFails, FlushEnd, FlushReturn, UnlockConf, Count, FlusherType,
     MuType, NotFlushing, UsedType, newUnit, UnitType
<1>11. ASSUME Close, Units' = Units PROVE ClearInv'
  BY <1>11, <1>u DEF Close, CloserType
<1>12. ASSUME CloseBegin, Units' = Units PROVE ClearInv'
  BY <1>12, <1>u DEF CloseBegin, Begin, CloserType
<1>13. ASSUME ClosePut PROVE ClearInv'
  <2>1. /\ closer.pc = "put" /\ closer'.pc = "close" /\ currMu = None
        /\ spoiled' = (spoiled \/ clearer.pc # "idle")
        /\ UNCHANGED <<curr, flusher, clearer, cleared, db, path>>
    BY <1>13 DEF ClosePut, CloserType
  <2> SUFFICES ASSUME ~spoiled, clearer.pc = "idle" PROVE ClearInv'
    BY <2>1
  <2>2. flusher.pc \notin {"begin", "write"}
    BY <2>1, ConstantsAssumption
  <2>3. \A h \in Hours : Units'[h] \subseteq Units[h] \cup curr.set
    BY <1>13, <1>u
  <2>4. \A h \in Hours : cleared \cap Units'[h] = {}
    BY <2>3
  <2>5. Nothing => Nothing'
    BY <2>1, <2>3
  <2>6. Units'[curr.id] = curr.set
    <3>1. CASE closer.h = path
      BY <1>13, <1>u, <3>1
    <3>2. CASE closer.h # path
      BY <1>13, <1>u, <2>1, <3>2
    <3> QED
      BY <3>1, <3>2
  <2> QED
    BY <2>1, <2>2, <2>4, <2>5, <2>6
<1>14. ASSUME CloseDB, Units' = Units PROVE ClearInv'
  BY <1>14, <1>u DEF CloseDB, CloseFile, CloserType
<1>15. ASSUME handleStatsReset, Units' = Units PROVE ClearInv'
  BY <1>15, <1>u DEF handleStatsReset, clear, Count, ClearerType, UsedType
<1>16. ASSUME ClearClose, Units' = Units PROVE ClearInv'
  BY <1>16, <1>u DEF ClearClose, CloseFile, Clearing, ClearerType
<1>17. ASSUME ClearRemove PROVE ClearInv'
  BY <1>17, <1>u DEF ClearRemove, Clearing, ClearerType
<1>18. ASSUME RemoveFails, Units' = Units PROVE ClearInv'
  BY <1>18, <1>u DEF RemoveFails, Clearing, Count, ClearerType, UsedType
<1>19. ASSUME openDB, Units' = Units PROVE ClearInv'
  <2>1. clearer.pc = "open" /\ clearer'.pc = "reset" /\ spoiled' = spoiled
    BY <1>19 DEF openDB, OpenFails, Clearing, ClearerType
  <2>2. path = None => \A h \in Hours : Units[h] = {}
    BY DEF Units
  <2> QED
    BY <1>19, <2>1, <2>2
<1>20. ASSUME OpenFails, Units' = Units PROVE ClearInv'
  <2>1. clearer.pc = "open" /\ clearer'.pc = "reset" /\ spoiled' = spoiled
    BY <1>20 DEF openDB, OpenFails, Clearing, ClearerType
  <2>2. path = None => \A h \in Hours : Units[h] = {}
    BY DEF Units
  <2> QED
    BY <1>20, <2>1, <2>2
<1>21. ASSUME ClearReset, Units' = Units PROVE ClearInv'
  BY <1>21, <1>u DEF ClearReset, UnlockConf, ClearerType, NotClearing, MuType, newUnit,
     UnitType
<1>22. ASSUME NEW limit \in Limits \cup {0}, handleStatsConfig(limit), Units' = Units
       PROVE  ClearInv'
  BY <1>22, <1>u DEF handleStatsConfig, SetConf, LockConf, clear, Count, ConfType,
     ClearerType, UsedType, MuType, Free
<1>23. ASSUME NEW on \in BOOLEAN, NEW limit \in Limits, handlePutStatsConfig(on, limit),
              Units' = Units
       PROVE  ClearInv'
  BY <1>23, <1>u DEF handlePutStatsConfig, SetConf, Count, ConfType, UsedType
<1>24. ASSUME NEW r \in Readers, handleStats(r), Units' = Units PROVE ClearInv'
  BY <1>24, <1>u DEF handleStats, RLockConf, Count, Reading, UsedType, MuType
<1>25. ASSUME NEW r \in Readers, ReadBegin(r), Units' = Units PROVE ClearInv'
  BY <1>25, <1>u DEF ReadBegin, Begin, Reading
<1>26. ASSUME NEW r \in Readers, ReadFails(r), Units' = Units PROVE ClearInv'
  BY <1>26, <1>u DEF ReadFails, RUnlockConf, Reading, MuType, NotReading
<1>27. ASSUME NEW r \in Readers, loadUnits(r), Units' = Units PROVE ClearInv'
  BY <1>27, <1>u DEF loadUnits, Reading
<1>28. ASSUME NEW r \in Readers, ReadReturn(r), Units' = Units PROVE ClearInv'
  BY <1>28, <1>u DEF ReadReturn, RUnlockConf, Reading, MuType, NotReading
<1>29. ASSUME Tick, Units' = Units PROVE ClearInv'
  BY <1>29, <1>u DEF Tick
<1>30. ASSUME New PROVE ClearInv'
  BY ZenonT(30), <1>30, <1>u DEF New, Open, UsedType, NotFlushing, NotClosing, NotClearing,
     NotReading, FlusherType, CloserType, ClearerType, Reading, MuType, Free
<1>31. ASSUME UNCHANGED vars, Units' = Units PROVE ClearInv'
  BY <1>31, <1>u DEF vars
<1> QED
  BY <1>u, <1>1, <1>2, <1>3, <1>4, <1>5, <1>6, <1>7, <1>8, <1>9, <1>10, <1>11, <1>12,
     <1>13, <1>14, <1>15, <1>16, <1>17, <1>18, <1>19, <1>20, <1>21, <1>22, <1>23, <1>24,
     <1>25, <1>26, <1>27, <1>28, <1>29, <1>30, <1>31
  DEF Next, FlushStep, CloseStep, ClearStep, ReadStep

(* Nothing that a reader must see moves while it reads.                    *)
LEMMA ReadSeesAllKept ==
    ASSUME TypeInv, HandleInv, LockInv, StoreInv, UnitsInv, DueInv, ReadSeesAll, [Next]_vars
    PROVE  ReadSeesAll'
<1> USE ConstantsAssumption DEF TypeInv, LockInv, ReadSeesAll, memVars, storeVars,
            procVars, histVars, notFlushVars, notCloseVars, notClearVars, notReadVars
<1>1. ASSUME NEW e \in Entries, Update(e) PROVE ReadSeesAll'
  BY <1>1 DEF Update, UnitType, Free
<1>2. ASSUME flush PROVE ReadSeesAll'
  BY <1>2 DEF flush, FlusherType
<1>3. ASSUME FlushLockConf PROVE ReadSeesAll'
  BY <1>3 DEF FlushLockConf, LockConf, Flushing, FlusherType, MuType, Free
<1>4. ASSUME FlushLockCurr PROVE ReadSeesAll'
  BY <1>4 DEF FlushLockCurr, Flushing, FlusherType
<1>5. ASSUME FlushNothing PROVE ReadSeesAll'
  BY <1>5 DEF FlushNothing, FlushReturn, UnlockConf, FlusherType, MuType, NotFlushing
<1>6. ASSUME FlushLoad PROVE ReadSeesAll'
  BY <1>6 DEF FlushLoad, FlusherType
<1>7. ASSUME FlushBegin PROVE ReadSeesAll'
  BY <1>7 DEF FlushBegin, Begin, Flushing, FlusherType
<1>8. ASSUME FlushBeginFails PROVE ReadSeesAll'
  BY <1>8 DEF FlushBeginFails, FlushReturn, UnlockConf, FlusherType, MuType, NotFlushing
<1>9. ASSUME flushDB PROVE ReadSeesAll'
  BY <1>9 DEF flushDB, FlushEnd, FlushReturn, UnlockConf, FlusherType, MuType,
     NotFlushing, newUnit, UnitType
<1>10. ASSUME FlushFails PROVE ReadSeesAll'
  BY <1>10 DEF FlushFails, FlushEnd, FlushReturn, UnlockConf, Count, FlusherType,
     MuType, NotFlushing, UsedType, newUnit, UnitType
<1>11. ASSUME Close PROVE ReadSeesAll'
  BY <1>11 DEF Close, CloserType
<1>12. ASSUME CloseBegin PROVE ReadSeesAll'
  BY <1>12 DEF CloseBegin, Begin, CloserType
<1>13. ASSUME ClosePut PROVE ReadSeesAll'
  BY <1>13 DEF ClosePut, CloserType
<1>14. ASSUME CloseDB PROVE ReadSeesAll'
  BY <1>14 DEF CloseDB, CloseFile, CloserType
<1>15. ASSUME handleStatsReset PROVE ReadSeesAll'
  BY <1>15 DEF handleStatsReset, clear, Count, ClearerType, UsedType
<1>16. ASSUME ClearClose PROVE ReadSeesAll'
  BY <1>16 DEF ClearClose, CloseFile, Clearing, ClearerType
<1>17. ASSUME ClearRemove PROVE ReadSeesAll'
  BY <1>17 DEF ClearRemove, Clearing, ClearerType
<1>18. ASSUME RemoveFails PROVE ReadSeesAll'
  BY <1>18 DEF RemoveFails, Clearing, Count, ClearerType, UsedType
<1>19. ASSUME openDB PROVE ReadSeesAll'
  BY <1>19 DEF openDB, Open, Clearing, ClearerType, UsedType
<1>20. ASSUME OpenFails PROVE ReadSeesAll'
  BY <1>20 DEF OpenFails, Clearing, Count, ClearerType, UsedType
<1>21. ASSUME ClearReset PROVE ReadSeesAll'
  BY <1>21 DEF ClearReset, UnlockConf, ClearerType, NotClearing, MuType, newUnit,
     UnitType, StoreInv
<1>22. ASSUME NEW limit \in Limits \cup {0}, handleStatsConfig(limit) PROVE ReadSeesAll'
  BY <1>22 DEF handleStatsConfig, SetConf, LockConf, clear, Count, ConfType,
     ClearerType, UsedType, MuType, Free
<1>23. ASSUME NEW on \in BOOLEAN, NEW limit \in Limits, handlePutStatsConfig(on, limit)
       PROVE  ReadSeesAll'
  BY <1>23 DEF handlePutStatsConfig, SetConf, Count, ConfType, UsedType, Free
<1>24. ASSUME NEW r \in Readers, handleStats(r) PROVE ReadSeesAll'
  BY <1>24 DEF handleStats, RLockConf, Count, Reading, UsedType, MuType
<1>25. ASSUME NEW r \in Readers, ReadBegin(r) PROVE ReadSeesAll'
  BY <1>25 DEF ReadBegin, Begin, Reading
<1>26. ASSUME NEW r \in Readers, ReadFails(r) PROVE ReadSeesAll'
  BY <1>26 DEF ReadFails, RUnlockConf, Reading, MuType, NotReading
<1>27. ASSUME NEW r \in Readers, loadUnits(r) PROVE ReadSeesAll'
  <2>1. /\ reader[r].pc = "units" /\ reader[r].h \in Ids
        /\ reader' = [reader EXCEPT ![r].pc = "read",
                        ![r].seen = curr.set \cup UNION {files[reader[r].h].units[h] :
                                                         h \in Window(curr.id)}]
        /\ UNCHANGED <<conf, curr, stale, due, at>>
    BY <1>27 DEF loadUnits, HandleInv
  <2>2. \A q \in Readers \ {r} : reader'[q] = reader[q]
    BY <2>1
  <2>3. reader'[r].must = reader[r].must
    BY <2>1 DEF Reading
  <2>4. reader'[r].seen = curr.set \cup UNION {files[reader[r].h].units[h] :
                                               h \in Window(curr.id)}
    BY <2>1 DEF Reading
  <2>5. ASSUME ~stale, NEW e \in reader[r].must \cap due, at[e] > curr.id - conf.limit
        PROVE  e \in reader'[r].seen
    <3>1. reader[r].h = path /\ path \in Ids /\ path # None
      BY <2>1, <2>5 DEF StoreInv, Ids
    <3>2. Units = files[path].units
      BY <3>1 DEF Units
    <3>3. e \in curr.set \/ e \in Units[at[e]]
      BY <2>5 DEF DueInv
    <3>4. at[e] \in Hours /\ curr.id \in Hours /\ Hours \subseteq Nat
      BY <2>5, IdleFacts DEF UnitType
    <3>5. CASE e \in curr.set
      BY <2>4, <3>5
    <3>6. CASE e \notin curr.set
      <4>1. at[e] # curr.id /\ ~(at[e] > curr.id)
        BY <2>5, <3>3, <3>4, <3>6 DEF DueInv
      <4>2. at[e] \in Window(curr.id)
        <5>1. curr.id - conf.limit < at[e] /\ at[e] < curr.id
          <6>1. at[e] \in Nat /\ curr.id \in Nat /\ conf.limit \in Nat
            BY <3>4, ConstantsAssumption DEF ConfType
          <6> QED
            BY <2>5, <4>1, <6>1
        <5> QED
          BY <3>4, <5>1 DEF Window
      <4>3. e \in files[reader[r].h].units[at[e]]
        BY <3>1, <3>2, <3>3, <3>6
      <4> QED
        BY <2>4, <4>2, <4>3
    <3> QED
      BY <3>5, <3>6
  <2>6. ASSUME NEW q \in Readers, reader'[q].pc = "read", ~stale'
        PROVE  {e \in reader'[q].must \cap due' : at'[e] > curr'.id - conf'.limit}
                  \subseteq reader'[q].seen
    <3>1. CASE q = r
      BY <2>1, <2>3, <2>5, <2>6, <3>1
    <3>2. CASE q # r
      BY <2>1, <2>2, <2>6, <3>2
    <3> QED
      BY <3>1, <3>2
  <2> QED
    BY <2>6
<1>28. ASSUME NEW r \in Readers, ReadReturn(r) PROVE ReadSeesAll'
  BY <1>28 DEF ReadReturn, RUnlockConf, Reading, MuType, NotReading
<1>29. ASSUME Tick PROVE ReadSeesAll'
  BY <1>29 DEF Tick
<1>30. ASSUME New PROVE ReadSeesAll'
  BY <1>30 DEF New, Open, UsedType, NotFlushing, NotClosing, NotClearing, NotReading,
     FlusherType, CloserType, ClearerType, Reading, MuType, Free
<1>31. ASSUME UNCHANGED vars PROVE ReadSeesAll'
  BY <1>31 DEF vars
<1> QED
  BY <1>1, <1>2, <1>3, <1>4, <1>5, <1>6, <1>7, <1>8, <1>9, <1>10, <1>11, <1>12, <1>13,
     <1>14, <1>15, <1>16, <1>17, <1>18, <1>19, <1>20, <1>21, <1>22, <1>23, <1>24, <1>25,
     <1>26, <1>27, <1>28, <1>29, <1>30, <1>31
  DEF Next, FlushStep, CloseStep, ClearStep, ReadStep

-----------------------------------------------------------------------------
(* Before anything has been counted.                                       *)
LEMMA StatsInit == Init => StatsInv
<1> SUFFICES ASSUME Init PROVE StatsInv
  OBVIOUS
<1> USE DEF Init
<1>u. \A h \in Hours : Units[h] = {}
  BY ConstantsAssumption DEF Units, NewFile, Ids
<1>1. TypeInv
  <2>1. curr \in UnitType
    BY IdleFacts DEF newUnit, UnitType
  <2>2. files \in [Ids -> File]
    <3>1. NewFile \in File
      BY DEF NewFile, File, UnitsType
    <3> QED
      BY <3>1 DEF File
  <2>3. 1 \in Ids
    BY ConstantsAssumption DEF Ids
  <2>4. used \in UsedType
    BY ConstantsAssumption DEF UsedType
  <2>5. at \in [Entries -> Hours]
    BY IdleFacts
  <2> QED
    BY <2>1, <2>2, <2>3, <2>4, <2>5, IdleFacts DEF TypeInv, ConfType
<1>2. HandleInv
  BY DEF HandleInv, NotFlushing, NotClosing, NotClearing, NotReading
<1>3. LockInv
  BY DEF LockInv, Free, NotFlushing, NotClearing, NotReading
<1>4. StoreInv
  BY DEF StoreInv, NotFlushing, NotClosing, NotClearing, NotReading
<1>5. UnitsInv
  BY <1>u DEF UnitsInv, newUnit, NotFlushing
<1>6. DueInv
  BY <1>u, IdleFacts DEF DueInv, newUnit
<1>7. ClearInv
  BY <1>u, IdleFacts DEF ClearInv, newUnit, NotFlushing, NotClosing, NotClearing, Nothing
<1>8. ReadSeesAll
  BY DEF ReadSeesAll, NotReading
<1> QED
  BY <1>1, <1>2, <1>3, <1>4, <1>5, <1>6, <1>7, <1>8 DEF StatsInv

(* The inductive invariant of the statistics.                              *)
LEMMA StatsInvariant == Spec => []StatsInv
<1>1. StatsInv /\ [Next]_vars => StatsInv'
  BY TypeStep, HandleInvStep, LockInvStep, StoreInvStep, UnitsInvStep, DueInvStep,
     ClearInvStep, ReadSeesAllKept DEF StatsInv
<1> QED
  BY <1>1, StatsInit, PTL DEF Spec

(* Every entry that the file holds is in the unit of one of its hours.     *)
LEMMA SavedFacts == \A e : e \in Saved <=> \E h \in Hours : e \in Units[h]
BY DEF Saved

(* The locks, the files and the goroutines keep to their ranges, whatever  *)
(* the number of readers, hours, clears and restarts.                      *)
THEOREM TypeCorrect == Spec => []TypeOK
<1>1. StatsInv => TypeOK
  BY DEF StatsInv, TypeInv, TypeOK, ConfType, MuType, UnitType, File, UnitsType,
         FlusherType, CloserType, ClearerType, Reading
<1> QED
  BY <1>1, StatsInvariant, PTL

(* Nothing that Update has counted is lost before its time in flush, Close *)
(* and New, in whatever order they, clears and failures come, unless a     *)
(* flush went back in time.                                                *)
THEOREM CountsKept == Spec => []NothingLost
<1>1. ASSUME StatsInv PROVE NothingLost
  <2>1. TypeInv /\ DueInv
    BY <1>1 DEF StatsInv
  <2>2. ~stale => \A e \in due : e \in curr.set \/ (at[e] \in Hours /\ e \in Units[at[e]])
    BY <2>1 DEF DueInv, TypeInv
  <2> QED
    BY <2>2, SavedFacts DEF NothingLost
<1>2. StatsInv => NothingLost
  BY <1>1
<1> QED
  BY <1>2, StatsInvariant, PTL

(* flushDB and ClosePut never put an entry into a second unit.             *)
THEOREM NoDoubleCount == Spec => []CountedOnce
<1>1. ASSUME StatsInv PROVE CountedOnce
  <2>1. UnitsInv
    BY <1>1 DEF StatsInv
  <2> QED
    BY <2>1 DEF UnitsInv, CountedOnce
<1>2. StatsInv => CountedOnce
  BY <1>1
<1> QED
  BY <1>2, StatsInvariant, PTL

(* A GET takes the database and the current unit one after the other; with *)
(* any number of them at once, none misses an entry of its window.         *)
THEOREM ReadersSeeAll == Spec => []ReadSeesAll
<1>1. StatsInv => ReadSeesAll
  BY DEF StatsInv
<1> QED
  BY <1>1, StatsInvariant, PTL

(* A clear during which nobody saved the unit and no step failed leaves    *)
(* nothing that was counted before it, for any number of clears.           *)
THEOREM ClearLeavesNothing == Spec => []ResetComplete
<1>1. ASSUME StatsInv PROVE ResetComplete
  <2>1. ClearInv
    BY <1>1 DEF StatsInv
  <2> QED
    BY <2>1, SavedFacts DEF ClearInv, ResetComplete
<1>2. StatsInv => ResetComplete
  BY <1>1
<1> QED
  BY <1>2, StatsInvariant, PTL

(* The unit that Close has saved is the one that New starts from within    *)
(* the same hour.                                                          *)
THEOREM OrderlyRestart == Spec => RestartResumes
<1>1. ASSUME StatsInv, [Next]_vars, New, saved, clearer.pc = "idle", ~spoiled, hour = curr.id
      PROVE  curr' = curr
  <2>1. TypeInv /\ HandleInv /\ ClearInv
    BY <1>1 DEF StatsInv
  <2>2. Units \in UnitsType /\ Units' = deleteOldUnits(Units)
        /\ curr' = [id |-> hour, set |-> Units'[hour]]
    BY <1>1, <2>1, UnitsStep
  <2>3. Units[curr.id] = curr.set
    BY <1>1, <2>1 DEF ClearInv
  <2>4. hour \in Hours /\ hour \in Nat /\ conf.limit \in Nat
    BY <2>1, IdleFacts, ConstantsAssumption DEF TypeInv, ConfType
  <2>5. Units'[hour] = Units[hour]
    BY <2>2, <2>4 DEF deleteOldUnits
  <2>6. curr = [id |-> curr.id, set |-> curr.set]
    BY <2>1 DEF TypeInv, UnitType
  <2> QED
    BY <1>1, <2>2, <2>3, <2>5, <2>6
<1>2. StatsInv /\ [Next]_vars
        => [New /\ saved /\ clearer.pc = "idle" /\ ~spoiled /\ hour = curr.id
            => curr' = curr]_vars
  BY <1>1
<1> QED
  BY <1>2, StatsInvariant, PTL DEF Spec, RestartResumes
=============================================================================
