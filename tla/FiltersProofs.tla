--------------------------- MODULE FiltersProofs ---------------------------
(***************************************************************************)
(* Proofs about Filters for every set of sources and documents, every      *)
(* configuration file that can be loaded, and any number of handlers,      *)
(* requests, refreshes and restarts: lists don't share URLs or files, a    *)
(* removed list doesn't come back, the checksums are those of the files,   *)
(* and the engine ends up with the enabled lists.                          *)
(***************************************************************************)
EXTENDS Filters, FiniteSetTheorems, WellFoundedInduction, TLAPS

(* Types.                                                                  *)
Lists   == [Arrays -> Seq(FilterYAML)]
Files   == UNION {[S -> Sums] : S \in SUBSET Nat}
Tasks   == [rules : Nat, block : SUBSET Nat, allow : SUBSET Nat]
Rules   == SUBSET (Nat \X Sums)
Engines == [rules : Nat, block : Rules, allow : Rules]
Results == {"updated", "same", "failed"}
Finite  == {S \in SUBSET Nat : IsFiniteSet(S)}

RestJobs     == [pc : {"idle", "enable"}]
AddJobs      == [pc : {"add", "insert"}, array : Arrays, flt : FilterYAML]
InstallJobs  == [pc : {"install"}, engine : Engines, locked : BOOLEAN, newer : SUBSET Procs,
                 late : BOOLEAN]
SnapshotJobs == [pc : {"snapshot"}, arrays : Seq(Arrays), force : BOOLEAN, updated : Nat,
                 netErr : BOOLEAN]
DownloadJobs == [pc : {"download"}, arrays : Seq(Arrays), force : BOOLEAN, updated : Nat,
                 netErr : BOOLEAN, lists : UNION {[S -> FilterYAML] : S \in Finite},
                 results : UNION {[S -> Results] : S \in Finite}]
Jobs == RestJobs \cup AddJobs \cup InstallJobs \cup SnapshotJobs \cup DownloadJobs

(* An array to go is not the last one twice; a download has an array, and  *)
(* results for copies only.                                                *)
JobOK(j) ==
    j.pc = "download" =>
        /\ j.arrays # <<>>
        /\ DOMAIN j.results \subseteq DOMAIN j.lists

TypeInv ==
    /\ lists \in Lists
    /\ rules \in Nat
    /\ saved \in [lists : Lists, rules : Nat, on : BOOLEAN]
    /\ on \in BOOLEAN
    /\ files \in Files
    /\ remote \in [Urls -> Documents \cup {Down}]
    /\ engine \in Engines
    /\ chan = <<>> \/ \E t \in Tasks : chan = <<t>>
    /\ job \in [Procs -> Jobs]
    /\ \A p \in Procs : JobOK(job[p])
    /\ nextID \in Nat

(* controlLock, refreshLock and filtersMu: one handler works at a time,    *)
(* and one process is between the start of a refresh and the new engine.   *)
Refreshing(p) ==
    job[p].pc \in {"snapshot", "download"} \/ (job[p].pc = "install" /\ job[p].locked)

LockInv ==
    /\ \A g, h \in Handlers : job[g].pc # "idle" /\ job[h].pc # "idle" => g = h
    /\ \A p, q \in Procs : Refreshing(p) /\ Refreshing(q) => p = q
    /\ \A h \in Handlers : job[h].pc = "install" => job[h].locked
    /\ job["loop"].pc \notin {"enable", "add", "insert"}

(* IDs are from the past; the one of a list being added is its own.        *)
IDsInv ==
    /\ \A a \in Arrays : \A i \in DOMAIN lists[a] : lists[a][i].id < nextID
    /\ \A h \in Handlers : job[h].pc \in {"add", "insert"} =>
          /\ job[h].flt.id < nextID
          /\ \A a \in Arrays : \A i \in DOMAIN lists[a] : lists[a][i].id # job[h].flt.id
    /\ Loadable(saved.lists, nextID)

UniqueInv == SourcesUnique /\ IDsInv

(* The copies of a refresh have IDs of their own, which no list that is    *)
(* being added has.                                                        *)
CopiesInv ==
    \A p \in Procs : job[p].pc = "download" =>
        /\ \A n \in DOMAIN job[p].lists : job[p].lists[n].id < nextID
        /\ \A m, n \in DOMAIN job[p].lists : job[p].lists[m].id = job[p].lists[n].id => m = n
        /\ \A n \in DOMAIN job[p].lists, h \in Handlers :
              job[h].pc \in {"add", "insert"} => job[p].lists[n].id # job[h].flt.id

(* Unless a list has been edited meanwhile, it is enabled and the copy     *)
(* with its ID is a copy of it.                                            *)
CopiedInv ==
    "edited" \notin excused =>
        \A p \in Procs : job[p].pc = "download" =>
            \A n \in DOMAIN job[p].lists, a \in Arrays : \A i \in DOMAIN lists[a] :
                lists[a][i].id = job[p].lists[n].id =>
                    /\ a = Head(job[p].arrays)
                    /\ lists[a][i].url = job[p].lists[n].url
                    /\ lists[a][i].enabled

(* p has replaced the file of the list and will merge its checksum.        *)
Carries(p, id) ==
    /\ job[p].pc = "download"
    /\ \E n \in DOMAIN job[p].results : job[p].results[n] = "updated" /\ job[p].lists[n].id = id

(* A checksum is the one of the file, or a refresh carries the new one.    *)
ListSums ==
    \A a \in Arrays : \A i \in DOMAIN lists[a] :
        /\ ~lists[a][i].enabled => lists[a][i].sum = <<>>
        /\ lists[a][i].sum # <<>> =>
              \/ lists[a][i].id \in DOMAIN files /\ files[lists[a][i].id] = lists[a][i].sum
              \/ \E p \in Procs : Carries(p, lists[a][i].id)

(* What a refresh carries is in the file.                                  *)
CopySums ==
    \A p \in Procs : job[p].pc = "download" =>
        \A n \in DOMAIN job[p].results : job[p].results[n] = "updated" =>
            \A a \in Arrays : \A i \in DOMAIN lists[a] :
                lists[a][i].id = job[p].lists[n].id =>
                    /\ lists[a][i].id \in DOMAIN files
                    /\ files[lists[a][i].id] = job[p].lists[n].sum

(* A list that is added is enabled, and has its file when it is inserted.  *)
AddedSums ==
    \A h \in Handlers : job[h].pc \in {"add", "insert"} =>
        /\ job[h].flt.enabled
        /\ job[h].pc = "insert" =>
              job[h].flt.id \in DOMAIN files /\ files[job[h].flt.id] = job[h].flt.sum

SumsInv == excused \cap {"edited", "fixed"} = {} => ListSums /\ CopySums /\ AddedSums

(* The lists an engine or a task was made from are enabled.                *)
Covered(eng)   == \A a \in Arrays : \A e \in eng[a] : e[1] \in FilterIDs(a)
CoveredIDs(t)  == \A a \in Arrays : t[a] \subseteq FilterIDs(a)

(* The updates loop is building an engine for a task of the channel.       *)
LoopBuilds == job["loop"].pc = "install" /\ ~job["loop"].locked

EnablePending == \E h \in Handlers : job[h].pc = "enable"

DisabledInv ==
    /\ \A p \in Procs : job[p].pc = "install" /\ job[p].locked => Covered(job[p].engine)
    /\ \/ EnablePending
       \/ chan # <<>> /\ CoveredIDs(chan[1])
       \/ chan = <<>> /\ LoopBuilds /\ Covered(job["loop"].engine)
       \/ chan = <<>> /\ ~LoopBuilds /\ Covered(engine)

(* The engine that is wanted.                                              *)
Wanted == Opened(Params)

(* A handler is about to ask for the engine, or the channel has the task.  *)
Asked == EnablePending \/ chan = <<Params>>

(* The refresh of p has replaced a file, and will rebuild the engine.      *)
RebuildPending(p) ==
    \/ job[p].pc \in {"snapshot", "download"} /\ job[p].updated # 0
    \/ /\ job[p].pc = "download"
       /\ \E n \in DOMAIN job[p].results :
             /\ job[p].results[n] = "updated"
             /\ \E i \in DOMAIN lists[Head(job[p].arrays)] :
                   /\ lists[Head(job[p].arrays)][i].id  = job[p].lists[n].id
                   /\ lists[Head(job[p].arrays)][i].url = job[p].lists[n].url

Rebuilds(p) == job[p].pc = "install" /\ job[p].locked

EngineInv ==
    excused \subseteq {"fixed"} =>
        \/ Asked
        \/ /\ chan = <<>>
           /\ LoopBuilds =>
                 \/ job["loop"].engine = Wanted \/ job["loop"].late
                 \/ \E p \in Procs : RebuildPending(p)
                 \/ \E p \in job["loop"].newer : Rebuilds(p) /\ job[p].engine = Wanted
           /\ ~LoopBuilds =>
                 \/ engine = Wanted
                 \/ \E p \in Procs : RebuildPending(p) \/ (Rebuilds(p) /\ job[p].engine = Wanted)
           /\ \A p \in Procs : Rebuilds(p) =>
                 \/ job[p].engine = Wanted \/ job[p].late
                 \/ LoopBuilds /\ "loop" \in job[p].newer /\ job["loop"].engine = Wanted
-----------------------------------------------------------------------------
(* Operators.                                                              *)

(* What a source serves has a checksum among Sums.                         *)
LEMMA ReaderSum ==
    ASSUME TypeInv, NEW url \in Urls
    PROVE  reader(url).sum \in Sums
<1>1. CASE remote[url] = Down
  BY <1>1 DEF reader, Sums
<1>2. CASE remote[url] # Down
  <2>1. remote[url] \in Documents
    BY <1>2 DEF TypeInv
  <2> QED
    BY <1>2, <2>1 DEF reader, Sums
<1> QED
  BY <1>1, <1>2

(* update changes the checksum and the time only.                          *)
LEMMA UpdateFacts ==
    ASSUME TypeInv, NEW flt \in FilterYAML
    PROVE  /\ update(flt) \in FilterYAML
           /\ update(flt).id = flt.id /\ update(flt).url = flt.url
           /\ update(flt).enabled = flt.enabled
           /\ Updated(flt) => update(flt).sum = reader(flt.url).sum
           /\ ~Updated(flt) => update(flt).sum = flt.sum
<1>1. flt.url \in Urls
  BY DEF FilterYAML
<1>2. reader(flt.url).sum \in Sums
  BY <1>1, ReaderSum
<1> QED
  BY <1>2 DEF update, FilterYAML

(* Replacing a file leaves the others.                                     *)
LEMMA ReplacedFacts ==
    ASSUME TypeInv, NEW flt \in FilterYAML
    PROVE  /\ Replaced(flt) \in Files
           /\ DOMAIN Replaced(flt) = DOMAIN files \cup {flt.id}
           /\ Replaced(flt)[flt.id] = reader(flt.url).sum
           /\ \A id \in DOMAIN files : id # flt.id => Replaced(flt)[id] = files[id]
<1>1. flt.url \in Urls /\ flt.id \in Nat
  BY DEF FilterYAML
<1>2. PICK S \in SUBSET Nat : files \in [S -> Sums]
  BY DEF TypeInv, Files
<1>3. reader(flt.url).sum \in Sums
  BY <1>1, ReaderSum
<1>4. Replaced(flt) \in [S \cup {flt.id} -> Sums] /\ S \cup {flt.id} \in SUBSET Nat
  BY <1>1, <1>2, <1>3 DEF Replaced
<1>5. Replaced(flt) \in Files
  BY <1>4 DEF Files
<1> QED
  BY <1>2, <1>5 DEF Replaced

(* A file is replaced by an update only.                                   *)
LEMMA FinalizeFacts ==
    ASSUME TypeInv, NEW flt \in FilterYAML
    PROVE  /\ finalizeUpdate(flt) \in Files
           /\ Updated(flt) => finalizeUpdate(flt) = Replaced(flt)
           /\ ~Updated(flt) => finalizeUpdate(flt) = files
BY ReplacedFacts DEF finalizeUpdate, TypeInv

(* The task of the current configuration.                                  *)
LEMMA EnabledType ==
    ASSUME NEW ls \in Lists, NEW a \in Arrays
    PROVE  EnabledIDs(ls[a]) \in SUBSET Nat
<1>1. ls[a] \in Seq(FilterYAML)
  BY DEF Lists
<1>2. \A i \in DOMAIN ls[a] : ls[a][i] \in FilterYAML
  BY <1>1
<1>3. \A i \in DOMAIN ls[a] : ls[a][i].id \in Nat
  BY <1>2 DEF FilterYAML
<1> QED
  BY <1>3 DEF EnabledIDs

(* The task of the current lists is a task.                                *)
LEMMA ParamsType ==
    ASSUME TypeInv
    PROVE  Params \in Tasks
BY EnabledType DEF TypeInv, Params, Tasks, FilterIDs, Arrays

(* The rules of files that exist.                                          *)
LEMMA OpenedType ==
    ASSUME TypeInv, NEW t \in Tasks
    PROVE  Opened(t) \in Engines
<1>1. PICK S \in SUBSET Nat : files \in [S -> Sums]
  BY DEF TypeInv, Files
<1>2. \A ids \in SUBSET Nat : newRuleStorage(ids) \in Rules
  BY <1>1 DEF newRuleStorage, Rules
<1> QED
  BY <1>2 DEF Opened, Engines, Tasks

(* Opening changes the job of p, and adds p to the newer tasks of the      *)
(* others.                                                                 *)
LEMMA OpeningFacts ==
    ASSUME TypeInv, NEW p \in Procs, NEW t \in Tasks, NEW locked \in BOOLEAN,
           job' = Opening(p, t, locked)
    PROVE  /\ job' \in [Procs -> Jobs]
           /\ job'[p].pc = "install" /\ job'[p].engine = Opened(t)
           /\ job'[p].locked = locked
           /\ \A q \in Procs : q # p /\ job[q].pc # "install" => job'[q] = job[q]
           /\ \A q \in Procs : q # p /\ job[q].pc = "install" =>
                 /\ job'[q].pc = "install" /\ job'[q].engine = job[q].engine
                 /\ job'[q].locked = job[q].locked /\ job'[q].late = job[q].late
                 /\ job'[q].newer = job[q].newer \cup {p}
<1>1. Opened(t) \in Engines
  BY OpenedType
<1>2. job'[p] \in InstallJobs
  BY <1>1 DEF Opening, InstallJobs
<1>3. ASSUME NEW q \in Procs, job[q].pc = "install"
      PROVE  job[q] \in InstallJobs
  BY <1>3 DEF TypeInv, Jobs, RestJobs, AddJobs, SnapshotJobs, DownloadJobs
<1>4. ASSUME NEW q \in Procs, q # p, job[q].pc = "install"
      PROVE  /\ job'[q] \in InstallJobs
             /\ job'[q].pc = "install" /\ job'[q].engine = job[q].engine
             /\ job'[q].locked = job[q].locked /\ job'[q].late = job[q].late
             /\ job'[q].newer = job[q].newer \cup {p}
  <2>1. job'[q] = [job[q] EXCEPT !.newer = @ \cup {p}]
    BY <1>4 DEF Opening
  <2>2. job[q] \in InstallJobs
    BY <1>3, <1>4
  <2> QED
    BY <2>1, <2>2 DEF InstallJobs
<1>5. \A q \in Procs : q # p /\ job[q].pc # "install" => job'[q] = job[q]
  BY DEF Opening
<1>6. \A q \in Procs : job'[q] \in Jobs
  <2>1. \A q \in Procs : job[q] \in Jobs
    BY DEF TypeInv
  <2>2. InstallJobs \subseteq Jobs
    BY DEF Jobs
  <2> QED
    BY <1>2, <1>4, <1>5, <2>1, <2>2
<1>7. job' = [q \in Procs |-> job'[q]]
  BY DEF Opening
<1>8. job' \in [Procs -> Jobs]
  BY <1>6, <1>7
<1> QED
  BY <1>4, <1>5, <1>8 DEF Opening

(* The kinds of jobs, by their program counters.                           *)
LEMMA JobKinds ==
    ASSUME TypeInv, NEW p \in Procs
    PROVE  /\ job[p].pc = "install" => job[p] \in InstallJobs
           /\ job[p].pc = "snapshot" => job[p] \in SnapshotJobs
           /\ job[p].pc = "download" => job[p] \in DownloadJobs
           /\ job[p].pc \in {"add", "insert"} => job[p] \in AddJobs
           /\ job[p].pc \in {"idle", "enable", "add", "insert", "install", "snapshot", "download"}
BY DEF TypeInv, Jobs, RestJobs, AddJobs, InstallJobs, SnapshotJobs, DownloadJobs

(* The program counters of new jobs.                                       *)
LEMMA NewJobs ==
    /\ Idle \in Jobs /\ Idle.pc = "idle"
    /\ [pc |-> "enable"] \in Jobs
    /\ \A a \in Arrays, flt \in FilterYAML, pc \in {"add", "insert"} :
          [pc |-> pc, array |-> a, flt |-> flt] \in Jobs
    /\ \A arrays \in Seq(Arrays), force \in BOOLEAN, updated \in Nat, netErr \in BOOLEAN :
          Snapshot(arrays, force, updated, netErr) \in Jobs
BY DEF Idle, Snapshot, Jobs, RestJobs, AddJobs, SnapshotJobs

(* The least element of a set of numbers.                                  *)
LEMMA MinInSet ==
    ASSUME NEW S \in SUBSET Nat, S # {}
    PROVE  Min(S) \in S /\ \A y \in S : Min(S) <= y
<1> DEFINE R == OpToRel(<, Nat)
<1>1. IsWellFoundedOn(R, Nat)
  BY NatLessThanWellFounded
<1>2. \A x, y \in Nat : <<y, x>> \in R <=> y < x
  BY DEF OpToRel
<1> HIDE DEF R
<1>3. PICK x \in S : \A y \in S : ~ (<<y, x>> \in R)
  BY <1>1, WFMin
<1>4. \A y \in S : x \in Nat /\ y \in Nat /\ ~(y < x)
  BY <1>2, <1>3
<1>5. \A y \in S : x <= y
  BY <1>4
<1> QED
  BY <1>5 DEF Min

(* A list found by its URL.                                                *)
LEMMA IndexOfFacts ==
    ASSUME TypeInv, NEW a \in Arrays, NEW url
    PROVE  /\ IndexOf(a, url) # 0 =>
                 /\ IndexOf(a, url) \in DOMAIN lists[a]
                 /\ lists[a][IndexOf(a, url)].url = url
<1> DEFINE I == {i \in 1..Len(lists[a]) : lists[a][i].url = url}
<1>1. lists[a] \in Seq(FilterYAML)
  BY DEF TypeInv, Lists
<1>2. IndexOf(a, url) = IF I # {} THEN Min(I) ELSE 0
  BY DEF IndexOf, SelectInSeq
<1>3. I \in SUBSET Nat
  OBVIOUS
<1>4. I # {} => Min(I) \in I
  BY <1>3, MinInSet
<1> QED
  BY SMTT(30), <1>1, <1>2, <1>4

(* Removing a list moves the ones after it.                                *)
LEMMA RemoveAtFacts ==
    ASSUME NEW s \in Seq(FilterYAML), NEW i \in DOMAIN s
    PROVE  /\ RemoveAt(s, i) \in Seq(FilterYAML)
           /\ Len(RemoveAt(s, i)) = Len(s) - 1
           /\ \A k \in 1..(Len(s) - 1) : RemoveAt(s, i)[k] = IF k < i THEN s[k] ELSE s[k + 1]
<1>1. i \in 1..Len(s) /\ Len(s) \in Nat
  OBVIOUS
<1>2. /\ SubSeq(s, 1, i - 1) \in Seq(FilterYAML) /\ Len(SubSeq(s, 1, i - 1)) = i - 1
      /\ \A k \in 1..(i - 1) : SubSeq(s, 1, i - 1)[k] = s[k]
  BY <1>1
<1>3. /\ SubSeq(s, i + 1, Len(s)) \in Seq(FilterYAML)
      /\ Len(SubSeq(s, i + 1, Len(s))) = Len(s) - i
      /\ \A k \in 1..(Len(s) - i) : SubSeq(s, i + 1, Len(s))[k] = s[k + i]
  BY <1>1
<1>4. ASSUME NEW u \in Seq(FilterYAML), NEW v \in Seq(FilterYAML),
             Len(u) = i - 1, Len(v) = Len(s) - i
      PROVE  /\ u \o v \in Seq(FilterYAML)
             /\ Len(u \o v) = Len(s) - 1
             /\ \A k \in 1..(Len(s) - 1) :
                   (u \o v)[k] = IF k < i THEN u[k] ELSE v[k - (i - 1)]
  BY SMTT(30), <1>1, <1>4
<1>5. ASSUME NEW k \in 1..(Len(s) - 1)
      PROVE  RemoveAt(s, i)[k] = IF k < i THEN s[k] ELSE s[k + 1]
  <2>1. RemoveAt(s, i)[k] = IF k < i THEN SubSeq(s, 1, i - 1)[k]
                                     ELSE SubSeq(s, i + 1, Len(s))[k - (i - 1)]
    BY <1>2, <1>3, <1>4 DEF RemoveAt
  <2>2. ~(k < i) => k - (i - 1) \in 1..(Len(s) - i) /\ k - (i - 1) + i = k + 1
    BY <1>1
  <2>3. k < i => k \in 1..(i - 1)
    BY <1>1
  <2> QED
    BY <1>2, <1>3, <2>1, <2>2, <2>3
<1> QED
  BY <1>2, <1>3, <1>4, <1>5 DEF RemoveAt

(* filterSetProperties: the ID stays, disabling and replacing the file     *)
(* restart the engine, and a checksum that isn't empty is the old one or   *)
(* the one of the new file.                                                *)
LEMMA SetPropertiesFacts ==
    ASSUME TypeInv, NEW flt \in FilterYAML, NEW url \in Urls, NEW enabled \in BOOLEAN,
           NEW res, res = SetProperties(flt, url, enabled)
    PROVE  /\ res.flt \in FilterYAML
           /\ res.flt.id = flt.id
           /\ res.flt.url \in {flt.url, url}
           /\ res.files = files \/ res.files = Replaced(res.flt)
           /\ ~res.restart => res.files = files
           /\ flt.enabled /\ ~res.flt.enabled => res.restart
           /\ ~flt.enabled /\ res.flt.enabled => enabled /\ ~res.err
           /\ (~flt.enabled => flt.sum = <<>>) =>
                 /\ ~res.flt.enabled => res.flt.sum = <<>>
                 /\ res.flt.sum # <<>> =>
                       \/ res.flt.sum = flt.sum /\ res.files = files
                       \/ res.files = Replaced(res.flt) /\ res.flt.sum = reader(res.flt.url).sum
<1> DEFINE moved   == IF flt.url # url THEN [unload(flt) EXCEPT !.url = url, !.fresh = FALSE] ELSE flt
           changed == flt.url # url \/ flt.enabled # enabled
           new     == [moved EXCEPT !.enabled = enabled]
<1>1. /\ moved \in FilterYAML /\ moved.id = flt.id /\ moved.url = url
      /\ moved.sum = IF flt.url # url THEN <<>> ELSE flt.sum
  BY DEF FilterYAML, unload, Sums
<1>2. /\ new \in FilterYAML /\ new.id = flt.id /\ new.url = url /\ new.enabled = enabled
      /\ new.sum = moved.sum
  BY <1>1 DEF FilterYAML
<1>3. /\ unload(new) \in FilterYAML /\ unload(new).id = flt.id /\ unload(new).url = url
      /\ unload(new).enabled = enabled /\ unload(new).sum = <<>>
  BY <1>2 DEF FilterYAML, unload, Sums
<1>4. /\ [flt EXCEPT !.sum = moved.sum] \in FilterYAML
      /\ [flt EXCEPT !.sum = moved.sum].id = flt.id
      /\ [flt EXCEPT !.sum = moved.sum].url = flt.url
      /\ [flt EXCEPT !.sum = moved.sum].enabled = flt.enabled
      /\ [flt EXCEPT !.sum = moved.sum].sum = moved.sum
  BY <1>1 DEF FilterYAML
<1>5. res = CASE enabled /\ changed /\ reader(url).err ->
               [flt |-> [flt EXCEPT !.sum = moved.sum], files |-> files, restart |-> FALSE, err |-> TRUE]
          [] enabled /\ changed /\ ~reader(url).err ->
               [flt |-> update(new), files |-> finalizeUpdate(new), restart |-> Updated(new), err |-> FALSE]
          [] enabled /\ ~changed ->
               [flt |-> new, files |-> files, restart |-> FALSE, err |-> FALSE]
          [] OTHER ->
               [flt |-> unload(new), files |-> files, restart |-> changed, err |-> FALSE]
  BY DEF SetProperties
<1>6. enabled => flt.enabled \/ changed
  OBVIOUS
<1>7. ~enabled /\ flt.enabled => changed
  OBVIOUS
<1>8. enabled /\ ~changed => new = flt
  BY <1>1 DEF FilterYAML
<1>9. changed /\ flt.url = url => flt.enabled # enabled
  OBVIOUS
<1>10. flt.enabled \in BOOLEAN
  BY DEF FilterYAML
<1> HIDE DEF moved, new
<1>11. CASE enabled /\ changed /\ reader(url).err
  <2>0. res = [flt |-> [flt EXCEPT !.sum = moved.sum], files |-> files, restart |-> FALSE, err |-> TRUE]
    BY <1>5, <1>11, Zenon
  <2>1. /\ res.flt = [flt EXCEPT !.sum = moved.sum] /\ res.files = files
        /\ res.restart = FALSE /\ res.err = TRUE
    BY <2>0
  <2> QED
    BY <1>1, <1>4, <2>1
<1>12. CASE enabled /\ changed /\ ~reader(url).err
  <2>0. res = [flt |-> update(new), files |-> finalizeUpdate(new), restart |-> Updated(new), err |-> FALSE]
    BY <1>5, <1>12, Zenon
  <2>1. /\ res.flt = update(new) /\ res.files = finalizeUpdate(new)
        /\ res.restart <=> Updated(new)
        /\ ~res.err
    BY <2>0
  <2>2. /\ update(new) \in FilterYAML /\ update(new).id = flt.id /\ update(new).url = url
        /\ update(new).enabled
        /\ Updated(new) => update(new).sum = reader(url).sum
        /\ ~Updated(new) => update(new).sum = moved.sum
    BY <1>2, <1>12, UpdateFacts
  <2>3. /\ Updated(new) => finalizeUpdate(new) = Replaced(new)
        /\ ~Updated(new) => finalizeUpdate(new) = files
    BY <1>2, FinalizeFacts
  <2>4. Replaced(new) = Replaced(update(new))
    BY <1>2, <2>2 DEF Replaced
  <2>5. (~flt.enabled => flt.sum = <<>>) => moved.sum = <<>>
    BY <1>1, <1>9, <1>10, <1>12
  <2> QED
    BY <1>12, <2>1, <2>2, <2>3, <2>4, <2>5
<1>13. CASE enabled /\ ~changed
  <2>1. res.flt = flt /\ res.files = files /\ res.restart = FALSE /\ res.err = FALSE
    BY <1>5, <1>8, <1>13
  <2> QED
    BY <1>13, <2>1
<1>14. CASE ~enabled
  <2>1. res.flt = unload(new) /\ res.files = files /\ res.restart = changed /\ res.err = FALSE
    BY <1>5, <1>14
  <2> QED
    BY <1>3, <1>7, <1>14, <2>1
<1> QED
  BY <1>11, <1>12, <1>13, <1>14

(* A merge changes the checksum and the time of a list only.               *)
LEMMA MergeFacts ==
    ASSUME TypeInv, NEW p \in Procs, job[p].pc = "download", NEW flt \in FilterYAML
    PROVE  LET same == {n \in DOMAIN job[p].lists :
                          job[p].lists[n].id = flt.id /\ job[p].lists[n].url = flt.url}
           IN  /\ Merge(flt, p) \in FilterYAML
               /\ Merge(flt, p).id = flt.id /\ Merge(flt, p).url = flt.url
               /\ Merge(flt, p).enabled = flt.enabled
               /\ same = {} => Merge(flt, p) = flt
               /\ same # {} => \E n \in same :
                     Merge(flt, p).sum = IF job[p].results[n] = "updated" THEN job[p].lists[n].sum
                                         ELSE flt.sum
<1> DEFINE same == {n \in DOMAIN job[p].lists :
                      job[p].lists[n].id = flt.id /\ job[p].lists[n].url = flt.url}
           c == CHOOSE n \in same : TRUE
<1>1. job[p].lists \in UNION {[S -> FilterYAML] : S \in Finite}
  BY JobKinds DEF DownloadJobs
<1>2. \A n \in DOMAIN job[p].lists : job[p].lists[n] \in FilterYAML
  BY <1>1
<1>3. Merge(flt, p) = IF same = {} THEN flt
        ELSE [flt EXCEPT !.fresh = TRUE,
                         !.sum   = IF job[p].results[c] = "updated" THEN job[p].lists[c].sum ELSE @]
  BY DEF Merge
<1>4. same # {} => c \in same
  OBVIOUS
<1>5. \A n \in same : job[p].lists[n].sum \in Sums
  BY <1>2 DEF FilterYAML
<1> HIDE DEF same, c
<1>6. CASE same = {}
  BY <1>3, <1>6 DEF same
<1>7. CASE same # {}
  <2>1. PICK s \in Sums : s = IF job[p].results[c] = "updated" THEN job[p].lists[c].sum ELSE flt.sum
    BY <1>4, <1>5, <1>7 DEF FilterYAML
  <2>2. Merge(flt, p) = [flt EXCEPT !.fresh = TRUE, !.sum = s]
    BY <1>3, <1>7, <2>1
  <2>3. /\ Merge(flt, p) \in FilterYAML
        /\ Merge(flt, p).id = flt.id /\ Merge(flt, p).url = flt.url
        /\ Merge(flt, p).enabled = flt.enabled
        /\ Merge(flt, p).sum = s
    BY <2>2 DEF FilterYAML
  <2> QED
    BY <1>4, <1>7, <2>1, <2>3 DEF same
<1> QED
  BY <1>6, <1>7

(* The lists of an array after the merge.                                  *)
LEMMA MergeArrayFacts ==
    ASSUME TypeInv, NEW p \in Procs, job[p].pc = "download", NEW a \in Arrays
    PROVE  /\ MergeArray(a, p) \in Seq(FilterYAML)
           /\ DOMAIN MergeArray(a, p) = DOMAIN lists[a]
           /\ \A i \in DOMAIN lists[a] : MergeArray(a, p)[i] = Merge(lists[a][i], p)
<1>1. lists[a] \in Seq(FilterYAML)
  BY DEF TypeInv, Lists
<1>2. \A i \in DOMAIN lists[a] : lists[a][i] \in FilterYAML
  BY <1>1
<1>3. \A i \in DOMAIN lists[a] : Merge(lists[a][i], p) \in FilterYAML
  BY <1>2, MergeFacts
<1>4. DOMAIN lists[a] = 1..Len(lists[a]) /\ Len(lists[a]) \in Nat
  BY <1>1
<1> QED
  BY <1>3, <1>4 DEF MergeArray

(* The number of updates is finite.                                        *)
LEMMA UpdateCountType ==
    ASSUME TypeInv, NEW p \in Procs, job[p].pc = "download"
    PROVE  /\ UpdateCount(p) \in Nat
           /\ \A n \in DOMAIN job[p].lists, i \in DOMAIN lists[Head(job[p].arrays)] :
                 (/\ job[p].results[n] = "updated"
                  /\ lists[Head(job[p].arrays)][i].id  = job[p].lists[n].id
                  /\ lists[Head(job[p].arrays)][i].url = job[p].lists[n].url) => UpdateCount(p) # 0
<1> DEFINE U == {n \in DOMAIN job[p].lists :
                    /\ job[p].results[n] = "updated"
                    /\ \E i \in DOMAIN lists[Head(job[p].arrays)] :
                          /\ lists[Head(job[p].arrays)][i].id  = job[p].lists[n].id
                          /\ lists[Head(job[p].arrays)][i].url = job[p].lists[n].url}
<1>1. job[p].lists \in UNION {[S -> FilterYAML] : S \in Finite}
  BY JobKinds DEF DownloadJobs
<1>2. IsFiniteSet(DOMAIN job[p].lists)
  BY <1>1 DEF Finite
<1>3. U \in SUBSET DOMAIN job[p].lists
  OBVIOUS
<1>4. UpdateCount(p) = Cardinality(U)
  BY DEF UpdateCount
<1>5. ASSUME NEW n \in DOMAIN job[p].lists, NEW i \in DOMAIN lists[Head(job[p].arrays)],
             job[p].results[n] = "updated",
             lists[Head(job[p].arrays)][i].id  = job[p].lists[n].id,
             lists[Head(job[p].arrays)][i].url = job[p].lists[n].url
      PROVE  U # {}
  BY <1>5
<1> HIDE DEF U
<1>6. IsFiniteSet(U)
  BY <1>2, <1>3, FS_Subset
<1>7. Cardinality(U) \in Nat /\ (Cardinality(U) = 0 => U = {})
  BY <1>6, FS_CardinalityType, FS_EmptySet
<1> QED
  BY <1>4, <1>5, <1>7
-----------------------------------------------------------------------------
(* What New makes of the configuration file.                               *)

(* The rank of an index in a set of indexes grows, and is below the size   *)
(* of the set.                                                             *)
LEMMA Ranks ==
    ASSUME NEW n \in Nat, NEW S \in SUBSET (1..n)
    PROVE  /\ IsFiniteSet(S) /\ Cardinality(S) \in Nat
           /\ \A i \in S : /\ Cardinality(Before(S, i)) \in Nat
                           /\ Cardinality(Before(S, i)) < Cardinality(S)
           /\ \A i, j \in S : i < j => Cardinality(Before(S, i)) < Cardinality(Before(S, j))
<1>1. IsFiniteSet(S) /\ Cardinality(S) \in Nat
  <2>1. 1 \in Int /\ n \in Int
    OBVIOUS
  <2>2. IsFiniteSet(1..n)
    BY <2>1, FS_Interval
  <2> QED
    BY <2>2, FS_Subset, FS_CardinalityType
<1>2. \A i \in S : IsFiniteSet(Before(S, i)) /\ Cardinality(Before(S, i)) \in Nat
  <2>1. \A i \in S : Before(S, i) \in SUBSET S
    BY DEF Before
  <2> QED
    BY <1>1, <2>1, FS_Subset, FS_CardinalityType
<1>3. \A i \in S : i \notin Before(S, i)
  BY DEF Before
<1>4. ASSUME NEW i \in S, NEW T, IsFiniteSet(T), Before(S, i) \cup {i} \in SUBSET T
      PROVE  Cardinality(Before(S, i)) < Cardinality(T)
  <2>1. /\ IsFiniteSet(Before(S, i) \cup {i})
        /\ Cardinality(Before(S, i) \cup {i}) = Cardinality(Before(S, i)) + 1
    BY <1>2, <1>3, FS_AddElement
  <2>2. Cardinality(Before(S, i) \cup {i}) <= Cardinality(T) /\ Cardinality(T) \in Nat
    BY <1>4, FS_Subset, FS_CardinalityType
  <2> QED
    BY <1>2, <2>1, <2>2
<1>5. \A i \in S : Cardinality(Before(S, i)) < Cardinality(S)
  <2>1. \A i \in S : Before(S, i) \cup {i} \in SUBSET S
    BY DEF Before
  <2> QED
    BY <1>1, <1>4, <2>1
<1>6. \A i, j \in S : i < j => Cardinality(Before(S, i)) < Cardinality(Before(S, j))
  <2>1. \A i, j \in S : i < j => Before(S, i) \cup {i} \in SUBSET Before(S, j)
    BY DEF Before
  <2> QED
    BY <1>2, <1>4, <2>1
<1> QED
  BY <1>1, <1>2, <1>5, <1>6

(* Different indexes have different ranks, and every rank is taken.        *)
LEMMA RanksOnto ==
    ASSUME NEW n \in Nat, NEW S \in SUBSET (1..n)
    PROVE  /\ \A i, j \in S : Cardinality(Before(S, i)) = Cardinality(Before(S, j)) => i = j
           /\ \A k \in 1..Cardinality(S) : \E i \in S : Cardinality(Before(S, i)) = k - 1
<1> DEFINE c == Cardinality(S)
           f == [i \in S |-> Cardinality(Before(S, i))]
<1>1. /\ IsFiniteSet(S) /\ c \in Nat
      /\ \A i \in S : Cardinality(Before(S, i)) \in Nat /\ Cardinality(Before(S, i)) < c
      /\ \A i, j \in S : i < j => Cardinality(Before(S, i)) < Cardinality(Before(S, j))
  BY Ranks
<1>2. ASSUME NEW i \in S, NEW j \in S, Cardinality(Before(S, i)) = Cardinality(Before(S, j))
      PROVE  i = j
  <2>1. ~(i < j) /\ ~(j < i)
    BY <1>1, <1>2
  <2>2. i \in Nat /\ j \in Nat
    OBVIOUS
  <2> QED
    BY <2>1, <2>2
<1>3. f \in Injection(S, 0..(c - 1))
  <2>1. \A i \in S : f[i] \in 0..(c - 1)
    BY <1>1
  <2> QED
    BY <1>2, <2>1 DEF Injection, IsInjective
<1>4. IsFiniteSet(0..(c - 1)) /\ Cardinality(0..(c - 1)) = c
  BY SMTT(30), <1>1, FS_Interval
<1>5. f \in Surjection(S, 0..(c - 1))
  <2> HIDE DEF f
  <2> QED
    BY <1>3, <1>4, FS_Injection
<1>6. \A k \in 1..c : k - 1 \in 0..(c - 1)
  BY <1>1
<1>7. \A k \in 1..c : \E i \in S : f[i] = k - 1
  BY <1>5, <1>6 DEF Surjection
<1> QED
  BY <1>2, <1>7

(* load reads the checksum of the list's file.                             *)
LEMMA LoadFacts ==
    ASSUME files \in Files, NEW flt \in FilterYAML
    PROVE  /\ load(flt) \in FilterYAML
           /\ load(flt).id = flt.id /\ load(flt).url = flt.url /\ load(flt).enabled = flt.enabled
           /\ load(flt).sum # <<>> => /\ flt.enabled /\ flt.id \in DOMAIN files
                                      /\ files[flt.id] = load(flt).sum
<1> DEFINE found == flt.enabled /\ flt.id \in DOMAIN files
<1>1. found => files[flt.id] \in Sums
  BY DEF Files
<1>2. <<>> \in Sums
  BY DEF Sums
<1>3. PICK s \in Sums : s = IF found THEN files[flt.id] ELSE <<>>
  BY <1>1, <1>2
<1>4. PICK b \in BOOLEAN : b = found
  BY DEF FilterYAML
<1>5. load(flt) = [flt EXCEPT !.sum = s, !.fresh = b]
  BY <1>3, <1>4 DEF load
<1> QED
  BY <1>3, <1>5 DEF FilterYAML

(* A list that has just been loaded.                                       *)
Fresh(flt) ==
    flt.sum # <<>> => flt.enabled /\ flt.id \in DOMAIN files /\ files[flt.id] = flt.sum

(* loadFilters gives new IDs to the lists that have none.                  *)
LEMMA LoadFiltersFacts ==
    ASSUME files \in Files, NEW array \in Seq(FilterYAML), NEW next \in Nat
    PROVE  LET out == loadFilters(array, next)
               n   == Cardinality(WithoutID(array))
           IN  /\ n \in Nat
               /\ out \in Seq(FilterYAML) /\ DOMAIN out = DOMAIN array
               /\ \A i \in DOMAIN array :
                     /\ out[i].url = array[i].url
                     /\ Fresh(out[i])
                     /\ \/ out[i].id = array[i].id /\ out[i].id # 0
                        \/ next <= out[i].id /\ out[i].id < next + n
<1> DEFINE out == loadFilters(array, next)
           W   == WithoutID(array)
           given(i) == IF i \notin W THEN array[i]
                       ELSE [array[i] EXCEPT !.id = next + Cardinality(Before(W, i))]
<1>1. DOMAIN array = 1..Len(array) /\ Len(array) \in Nat
  OBVIOUS
<1>2. W \in SUBSET (1..Len(array))
  BY <1>1 DEF WithoutID
<1>3. /\ Cardinality(W) \in Nat
      /\ \A i \in W : Cardinality(Before(W, i)) \in Nat /\ Cardinality(Before(W, i)) < Cardinality(W)
  BY <1>1, <1>2, Ranks
<1>4. \A i \in DOMAIN array : array[i] \in FilterYAML
  OBVIOUS
<1>5. ASSUME NEW i \in DOMAIN array
      PROVE  /\ given(i) \in FilterYAML /\ given(i).url = array[i].url
             /\ \/ given(i).id = array[i].id /\ given(i).id # 0
                \/ next <= given(i).id /\ given(i).id < next + Cardinality(W)
  <2>1. CASE i \notin W
    BY <1>4, <2>1 DEF WithoutID
  <2>2. CASE i \in W
    <3>1. PICK r \in Nat : r = Cardinality(Before(W, i)) /\ r < Cardinality(W)
      BY <1>3, <2>2
    <3>2. given(i) = [array[i] EXCEPT !.id = next + r]
      BY <2>2, <3>1
    <3>3. given(i) \in FilterYAML /\ given(i).url = array[i].url /\ given(i).id = next + r
      BY <1>4, <3>2 DEF FilterYAML
    <3> QED
      BY <1>3, <3>1, <3>3
  <2> QED
    BY <2>1, <2>2
<1>6. out = [i \in DOMAIN array |-> load(given(i))]
  BY DEF loadFilters
<1> HIDE DEF given, W, out
<1>7. \A i \in DOMAIN array :
         /\ out[i] \in FilterYAML /\ out[i].id = given(i).id /\ out[i].url = given(i).url
         /\ Fresh(out[i])
  BY <1>5, <1>6, LoadFacts DEF Fresh
<1>8. out \in Seq(FilterYAML) /\ DOMAIN out = DOMAIN array
  BY <1>1, <1>6, <1>7
<1> QED
  BY <1>3, <1>5, <1>7, <1>8 DEF W, out

(* deduplicateFilters keeps lists with different URLs.                     *)
LEMMA DeduplicateFacts ==
    ASSUME NEW array \in Seq(FilterYAML)
    PROVE  LET out == deduplicateFilters(array)
           IN  /\ out \in Seq(FilterYAML)
               /\ \A k \in DOMAIN out : \E i \in DOMAIN array : out[k] = array[i]
               /\ \A k, l \in DOMAIN out : out[k].url = out[l].url => k = l
<1> DEFINE out  == deduplicateFilters(array)
           kept == FirstOfURL(array)
           at(k) == CHOOSE i \in kept : Cardinality(Before(kept, i)) = k - 1
<1>1. DOMAIN array = 1..Len(array) /\ Len(array) \in Nat
  OBVIOUS
<1>2. kept \in SUBSET (1..Len(array))
  BY <1>1 DEF FirstOfURL
<1>3. Cardinality(kept) \in Nat
  BY <1>1, <1>2, Ranks
<1>4. \A k \in 1..Cardinality(kept) : at(k) \in kept /\ Cardinality(Before(kept, at(k))) = k - 1
  BY <1>1, <1>2, RanksOnto
<1>5. out = [k \in 1..Cardinality(kept) |-> array[at(k)]]
  BY DEF deduplicateFilters
<1>6. \A i, j \in kept : array[i].url = array[j].url => i = j
  <2>1. \A i, j \in kept : i < j => array[i].url # array[j].url
    BY <1>1, <1>2 DEF FirstOfURL
  <2>2. \A i, j \in kept : i \in Nat /\ j \in Nat
    BY <1>2
  <2>3. \A i, j \in kept : i < j \/ j < i \/ i = j
    BY <2>2
  <2> QED
    BY <2>1, <2>3
<1> HIDE DEF at, kept, out
<1>7. \A k \in 1..Cardinality(kept) : at(k) \in DOMAIN array /\ array[at(k)] \in FilterYAML
  <2>1. \A k \in 1..Cardinality(kept) : at(k) \in DOMAIN array
    BY <1>1, <1>2, <1>4
  <2>2. \A i \in DOMAIN array : array[i] \in FilterYAML
    OBVIOUS
  <2> QED
    BY <2>1, <2>2
<1>8. out \in Seq(FilterYAML) /\ DOMAIN out = 1..Cardinality(kept)
  BY <1>3, <1>5, <1>7
<1>9. ASSUME NEW k \in DOMAIN out, NEW l \in DOMAIN out, out[k].url = out[l].url
      PROVE  k = l
  <2>1. at(k) = at(l)
    BY <1>4, <1>5, <1>6, <1>8, <1>9
  <2>2. k \in Nat /\ l \in Nat /\ k - 1 = l - 1
    BY <1>3, <1>4, <1>8, <2>1
  <2> QED
    BY <2>2
<1> QED
  BY <1>5, <1>7, <1>8, <1>9 DEF out

(* idGenerator.fix gives new IDs to the lists whose ID is taken.           *)
LEMMA FixFacts ==
    ASSUME NEW array \in Seq(FilterYAML), NEW next \in Nat,
           \A i \in DOMAIN array : array[i].id < next
    PROVE  LET out == fix(array, next)
               n   == Cardinality(Taken(array))
           IN  /\ n \in Nat
               /\ out \in Seq(FilterYAML) /\ DOMAIN out = DOMAIN array
               /\ \A i \in DOMAIN array :
                     /\ out[i].url = array[i].url
                     /\ out[i].sum = array[i].sum /\ out[i].enabled = array[i].enabled
                     /\ \/ out[i].id = array[i].id /\ i \notin Taken(array)
                        \/ next <= out[i].id /\ out[i].id < next + n /\ i \in Taken(array)
               /\ \A i, j \in DOMAIN array : out[i].id = out[j].id => i = j
<1> DEFINE out == fix(array, next)
           T   == Taken(array)
           rank(i) == Cardinality(Before(T, i))
<1>1. DOMAIN array = 1..Len(array) /\ Len(array) \in Nat
  OBVIOUS
<1>2. T \in SUBSET (1..Len(array))
  BY <1>1 DEF Taken
<1>3. /\ Cardinality(T) \in Nat
      /\ \A i \in T : rank(i) \in Nat /\ rank(i) < Cardinality(T)
      /\ \A i, j \in T : rank(i) = rank(j) => i = j
  BY <1>1, <1>2, Ranks, RanksOnto
<1>4. \A i \in DOMAIN array : array[i] \in FilterYAML
  OBVIOUS
<1>5. out = [i \in DOMAIN array |-> IF i \notin T THEN array[i]
                                    ELSE [array[i] EXCEPT !.id = next + rank(i)]]
  BY DEF fix
<1>6. \A i, j \in DOMAIN array : i \notin T /\ j \notin T /\ array[i].id = array[j].id => i = j
  <2>1. \A i, j \in DOMAIN array : j \notin T /\ i < j => array[i].id # array[j].id
    BY <1>1 DEF Taken
  <2>2. \A i, j \in DOMAIN array : i < j \/ j < i \/ i = j
    BY <1>1
  <2> QED
    BY <2>1, <2>2
<1> HIDE DEF T, rank, out
<1>7. ASSUME NEW i \in DOMAIN array
      PROVE  /\ out[i] \in FilterYAML
             /\ out[i].url = array[i].url
             /\ out[i].sum = array[i].sum /\ out[i].enabled = array[i].enabled
             /\ i \notin T => out[i].id = array[i].id
             /\ i \in T => out[i].id = next + rank(i)
  <2>1. CASE i \notin T
    BY <1>4, <1>5, <2>1
  <2>2. CASE i \in T
    <3>1. PICK r \in Nat : r = rank(i)
      BY <1>3, <2>2
    <3>2. out[i] = [array[i] EXCEPT !.id = next + r]
      BY <1>5, <2>2, <3>1
    <3>3. PICK flt \in FilterYAML : flt = array[i]
      BY <1>4
    <3>4. PICK m \in Nat : m = next + r
      OBVIOUS
    <3>5. \A m2 \in Nat :
             /\ [flt EXCEPT !.id = m2] \in FilterYAML
             /\ [flt EXCEPT !.id = m2].url = flt.url
             /\ [flt EXCEPT !.id = m2].sum = flt.sum
             /\ [flt EXCEPT !.id = m2].enabled = flt.enabled
             /\ [flt EXCEPT !.id = m2].id = m2
      BY DEF FilterYAML
    <3>6. out[i] = [flt EXCEPT !.id = m]
      BY <3>2, <3>3, <3>4
    <3> QED
      BY <2>2, <3>1, <3>3, <3>4, <3>5, <3>6
  <2> QED
    BY <2>1, <2>2
<1>8. out \in Seq(FilterYAML) /\ DOMAIN out = DOMAIN array
  BY <1>1, <1>5, <1>7
<1>9. \A i \in T : next <= next + rank(i) /\ next + rank(i) < next + Cardinality(T)
  BY <1>3
<1>10. \A i \in DOMAIN array : array[i].id \in Nat
  BY <1>4 DEF FilterYAML
<1>11. ASSUME NEW i \in DOMAIN array, NEW j \in DOMAIN array, out[i].id = out[j].id
       PROVE  i = j
  <2>1. CASE i \notin T /\ j \notin T
    BY <1>6, <1>7, <1>11, <2>1
  <2>2. CASE i \in T /\ j \in T
    <3>1. next + rank(i) = next + rank(j) /\ rank(i) \in Nat /\ rank(j) \in Nat
      BY <1>3, <1>7, <1>11, <2>2
    <3>2. rank(i) = rank(j)
      BY <3>1
    <3> QED
      BY <1>3, <2>2, <3>2
  <2>3. CASE i \in T /\ j \notin T
    <3>1. next + rank(i) = array[j].id /\ rank(i) \in Nat /\ array[j].id \in Nat /\ array[j].id < next
      BY <1>3, <1>7, <1>10, <1>11, <2>3
    <3> QED
      BY <3>1
  <2>4. CASE i \notin T /\ j \in T
    <3>1. next + rank(j) = array[i].id /\ rank(j) \in Nat /\ array[i].id \in Nat /\ array[i].id < next
      BY <1>3, <1>7, <1>10, <1>11, <2>4
    <3> QED
      BY <3>1
  <2> QED
    BY <2>1, <2>2, <2>3, <2>4
<1> QED
  BY <1>3, <1>7, <1>8, <1>9, <1>11 DEF T, out

(* Lists that share neither a URL nor an ID, and whose IDs are from the    *)
(* past.                                                                   *)
UniqueLists(ls) ==
    \A a, b \in Arrays : \A i \in DOMAIN ls[a], j \in DOMAIN ls[b] :
        (ls[a][i].url = ls[b][j].url \/ ls[a][i].id = ls[b][j].id) => a = b /\ i = j

IDsBelow(ls, next) == \A a \in Arrays : \A i \in DOMAIN ls[a] : ls[a][i].id < next

(* New: whatever the configuration file gives twice or without an ID, the  *)
(* lists in memory share nothing, and their checksums are those of their   *)
(* files unless an ID was taken.                                           *)
LEMMA LoadedFacts ==
    ASSUME files \in Files, NEW next \in Nat, NEW ls, Loadable(ls, next)
    PROVE  LET new == Loaded(ls, next)
           IN  /\ new.lists \in Lists
               /\ new.next \in Nat /\ next <= new.next
               /\ UniqueLists(new.lists)
               /\ IDsBelow(new.lists, new.next)
               /\ ~new.fixed => \A a \in Arrays : \A i \in DOMAIN new.lists[a] : Fresh(new.lists[a][i])
               /\ DOMAIN files = {} => ~new.fixed
<1> DEFINE n1 == Cardinality(WithoutID(ls["block"]))
           n2 == Cardinality(WithoutID(ls["allow"]))
           B0 == loadFilters(ls["block"], next)
           A0 == loadFilters(ls["allow"], next + n1)
           B  == deduplicateFilters(B0)
           A  == deduplicateFilters(A0)
           n3 == Cardinality(Taken(B))
           n4 == Cardinality(Taken(A))
           FB == fix(B, next + n1 + n2)
           FA == fix(A, next + n1 + n2 + n3)
           new == Loaded(ls, next)
<1>1. /\ ls["block"] \in Seq(FilterYAML) /\ ls["allow"] \in Seq(FilterYAML)
      /\ \A i \in DOMAIN ls["block"] : ls["block"][i].id < next
      /\ \A i \in DOMAIN ls["allow"] : ls["allow"][i].id < next
      /\ \A i \in DOMAIN ls["block"], j \in DOMAIN ls["allow"] :
            /\ ls["block"][i].url # ls["allow"][j].url
            /\ ls["block"][i].id = ls["allow"][j].id => ls["block"][i].id = 0
  BY DEF Loadable, Arrays
<1>2. /\ n1 \in Nat
      /\ B0 \in Seq(FilterYAML) /\ DOMAIN B0 = DOMAIN ls["block"]
      /\ \A i \in DOMAIN ls["block"] :
            /\ B0[i].url = ls["block"][i].url
            /\ Fresh(B0[i])
            /\ \/ B0[i].id = ls["block"][i].id /\ B0[i].id # 0
               \/ next <= B0[i].id /\ B0[i].id < next + n1
  BY <1>1, LoadFiltersFacts
<1>3. next + n1 \in Nat
  BY <1>2
<1>4. /\ n2 \in Nat
      /\ A0 \in Seq(FilterYAML) /\ DOMAIN A0 = DOMAIN ls["allow"]
      /\ \A i \in DOMAIN ls["allow"] :
            /\ A0[i].url = ls["allow"][i].url
            /\ Fresh(A0[i])
            /\ \/ A0[i].id = ls["allow"][i].id /\ A0[i].id # 0
               \/ next + n1 <= A0[i].id /\ A0[i].id < next + n1 + n2
  <2> HIDE DEF n1
  <2> QED
    BY <1>1, <1>3, LoadFiltersFacts
<1>5. /\ B \in Seq(FilterYAML)
      /\ \A k \in DOMAIN B : \E i \in DOMAIN B0 : B[k] = B0[i]
      /\ \A k, l \in DOMAIN B : B[k].url = B[l].url => k = l
  <2> HIDE DEF B0
  <2> QED
    BY <1>2, DeduplicateFacts
<1>6. /\ A \in Seq(FilterYAML)
      /\ \A k \in DOMAIN A : \E i \in DOMAIN A0 : A[k] = A0[i]
      /\ \A k, l \in DOMAIN A : A[k].url = A[l].url => k = l
  <2> HIDE DEF A0
  <2> QED
    BY <1>4, DeduplicateFacts
<1>7. /\ new.lists = [a \in Arrays |-> IF a = "block" THEN FB ELSE FA]
      /\ new.next = next + n1 + n2 + n3 + n4
      /\ ~new.fixed => /\ \A i \in Taken(B) : B[i].sum = <<>>
                       /\ \A i \in Taken(A) : A[i].sum = <<>>
      /\ new.fixed => \/ \E i \in Taken(B) : B[i].sum # <<>>
                      \/ \E i \in Taken(A) : A[i].sum # <<>>
  BY DEF Loaded
<1> HIDE DEF n1, n2, B0, A0, B, A, new
<1>8. ASSUME NEW k \in DOMAIN B
      PROVE  /\ B[k].id \in Nat
             /\ Fresh(B[k])
             /\ \E i \in DOMAIN ls["block"] : B[k].url = ls["block"][i].url
             /\ \/ next <= B[k].id /\ B[k].id < next + n1
                \/ \E i \in DOMAIN ls["block"] : B[k].id = ls["block"][i].id /\ B[k].id # 0
             /\ B[k].id < next + n1
  <2>1. PICK i \in DOMAIN B0 : B[k] = B0[i]
    BY <1>5
  <2>2. B[k] \in FilterYAML
    BY <1>5
  <2>3. B[k].id \in Nat
    BY <2>2 DEF FilterYAML
  <2>4. /\ B[k].url = ls["block"][i].url /\ Fresh(B[k])
        /\ \/ B[k].id = ls["block"][i].id /\ B[k].id # 0
           \/ next <= B[k].id /\ B[k].id < next + n1
    BY <1>2, <2>1
  <2>5. i \in DOMAIN ls["block"] /\ ls["block"][i].id < next
    BY <1>1, <1>2
  <2>6. B[k].id < next + n1
    BY <1>2, <2>3, <2>4, <2>5
  <2> QED
    BY <2>3, <2>4, <2>5, <2>6
<1>9. ASSUME NEW k \in DOMAIN A
      PROVE  /\ A[k].id \in Nat
             /\ Fresh(A[k])
             /\ \E i \in DOMAIN ls["allow"] : A[k].url = ls["allow"][i].url
             /\ \/ next + n1 <= A[k].id /\ A[k].id < next + n1 + n2
                \/ \E i \in DOMAIN ls["allow"] : A[k].id = ls["allow"][i].id /\ A[k].id # 0
             /\ A[k].id < next + n1 + n2
  <2>1. PICK i \in DOMAIN A0 : A[k] = A0[i]
    BY <1>6
  <2>2. A[k] \in FilterYAML
    BY <1>6
  <2>3. A[k].id \in Nat
    BY <2>2 DEF FilterYAML
  <2>4. /\ A[k].url = ls["allow"][i].url /\ Fresh(A[k])
        /\ \/ A[k].id = ls["allow"][i].id /\ A[k].id # 0
           \/ next + n1 <= A[k].id /\ A[k].id < next + n1 + n2
    BY <1>4, <2>1
  <2>5. i \in DOMAIN ls["allow"] /\ ls["allow"][i].id < next
    BY <1>1, <1>4
  <2>6. A[k].id < next + n1 + n2
    BY <1>2, <1>4, <2>3, <2>4, <2>5
  <2> QED
    BY <2>3, <2>4, <2>5, <2>6
<1>10. PICK m1 \in Nat, m2 \in Nat :
          m1 = next + n1 /\ m2 = next + n1 + n2 /\ next <= m1 /\ m1 <= m2
  BY <1>2, <1>4
<1>11. /\ n3 \in Nat
       /\ FB \in Seq(FilterYAML) /\ DOMAIN FB = DOMAIN B
       /\ \A i \in DOMAIN B :
             /\ FB[i].url = B[i].url /\ FB[i].sum = B[i].sum /\ FB[i].enabled = B[i].enabled
             /\ \/ FB[i].id = B[i].id /\ i \notin Taken(B)
                \/ m2 <= FB[i].id /\ FB[i].id < m2 + n3 /\ i \in Taken(B)
       /\ \A i, j \in DOMAIN B : FB[i].id = FB[j].id => i = j
  <2>1. FB = fix(B, m2)
    BY <1>10
  <2>2. \A k \in DOMAIN B : B[k].id < m2
    BY <1>8, <1>10
  <2> HIDE DEF FB
  <2> QED
    BY <1>5, <2>1, <2>2, FixFacts
<1> HIDE DEF n3
<1>12. PICK m3 \in Nat : m3 = m2 + n3 /\ m3 = next + n1 + n2 + n3 /\ m2 <= m3
  BY <1>10, <1>11
<1>13. /\ n4 \in Nat
       /\ FA \in Seq(FilterYAML) /\ DOMAIN FA = DOMAIN A
       /\ \A i \in DOMAIN A :
             /\ FA[i].url = A[i].url /\ FA[i].sum = A[i].sum /\ FA[i].enabled = A[i].enabled
             /\ \/ FA[i].id = A[i].id /\ i \notin Taken(A)
                \/ m3 <= FA[i].id /\ FA[i].id < m3 + n4 /\ i \in Taken(A)
       /\ \A i, j \in DOMAIN A : FA[i].id = FA[j].id => i = j
  <2>1. FA = fix(A, m3)
    BY <1>12
  <2>2. \A k \in DOMAIN A : A[k].id < m3
    BY <1>9, <1>10, <1>12
  <2>3. A \in Seq(FilterYAML)
    BY <1>6
  <2> HIDE DEF FA
  <2> QED
    BY <2>1, <2>2, <2>3, FixFacts
<1> HIDE DEF n4, FA, FB
<1>14. new.lists["block"] = FB /\ new.lists["allow"] = FA /\ new.lists \in Lists
  BY <1>7, <1>11, <1>13 DEF Lists, Arrays
<1>15. new.next \in Nat /\ new.next = m3 + n4 /\ next <= new.next /\ m3 <= new.next
  BY <1>7, <1>10, <1>12, <1>13
<1>16. \A i \in DOMAIN FB : FB[i].id \in Nat /\ FB[i].id < new.next
  <2>1. \A i \in DOMAIN FB : FB[i] \in FilterYAML
    BY <1>11
  <2>2. \A i \in DOMAIN FB : FB[i].id \in Nat
    BY <2>1 DEF FilterYAML
  <2>3. \A i \in DOMAIN FB : FB[i].id < m1 \/ FB[i].id < m3
    BY <1>8, <1>10, <1>11, <1>12
  <2> QED
    BY <1>10, <1>12, <1>15, <2>2, <2>3
<1>17. \A i \in DOMAIN FA : FA[i].id \in Nat /\ FA[i].id < new.next
  <2>1. \A i \in DOMAIN FA : FA[i] \in FilterYAML
    BY <1>13
  <2>2. \A i \in DOMAIN FA : FA[i].id \in Nat
    BY <2>1 DEF FilterYAML
  <2>3. \A i \in DOMAIN FA : FA[i].id < m2 \/ FA[i].id < new.next
    BY <1>9, <1>10, <1>13, <1>15
  <2> QED
    BY <1>10, <1>12, <1>15, <2>2, <2>3
<1>18. IDsBelow(new.lists, new.next)
  BY <1>14, <1>16, <1>17 DEF IDsBelow, Arrays
<1>19. ASSUME NEW i \in DOMAIN FB, NEW j \in DOMAIN FA
       PROVE  FB[i].url # FA[j].url /\ FB[i].id # FA[j].id
  <2>1. FB[i].url # FA[j].url
    <3>1. PICK k \in DOMAIN ls["block"] : FB[i].url = ls["block"][k].url
      BY <1>8, <1>11
    <3>2. PICK l \in DOMAIN ls["allow"] : FA[j].url = ls["allow"][l].url
      BY <1>9, <1>13
    <3> QED
      BY <1>1, <3>1, <3>2
  <2>2. ASSUME FB[i].id = FA[j].id PROVE FALSE
    <3>1. B[i].id \in Nat /\ A[j].id \in Nat /\ FB[i].id \in Nat
      BY <1>8, <1>9, <1>11, <1>13, <1>16
    <3>2. CASE i \in Taken(B)
      <4>1. m2 <= FB[i].id /\ FB[i].id < m3
        BY <1>11, <1>12, <3>2
      <4>2. FA[j].id < m2 \/ m3 <= FA[j].id
        BY <1>9, <1>10, <1>13
      <4> QED
        BY <2>2, <3>1, <4>1, <4>2
    <3>3. CASE i \notin Taken(B) /\ j \in Taken(A)
      <4>1. FB[i].id < m1
        BY <1>8, <1>10, <1>11, <3>3
      <4>2. m3 <= FA[j].id
        BY <1>13, <3>3
      <4> QED
        BY <1>10, <1>12, <2>2, <3>1, <4>1, <4>2
    <3>4. CASE i \notin Taken(B) /\ j \notin Taken(A)
      <4>1. B[i].id = A[j].id
        BY <1>11, <1>13, <2>2, <3>4
      <4>2. CASE next <= B[i].id
        <5>1. next + n1 <= A[j].id \/ \E l \in DOMAIN ls["allow"] : A[j].id = ls["allow"][l].id
          BY <1>9, <1>13
        <5>2. A[j].id < next + n1
          BY <1>8, <1>11, <4>1
        <5>3. A[j].id < next
          BY <1>1, <1>2, <3>1, <5>1, <5>2
        <5> QED
          BY <3>1, <4>1, <4>2, <5>3
      <4>3. CASE ~(next <= B[i].id)
        <5>1. PICK k \in DOMAIN ls["block"] : B[i].id = ls["block"][k].id /\ B[i].id # 0
          BY <1>8, <1>11, <4>3
        <5>2. ~(next + n1 <= A[j].id)
          BY <1>2, <3>1, <4>1, <4>3
        <5>3. PICK l \in DOMAIN ls["allow"] : A[j].id = ls["allow"][l].id
          BY <1>9, <1>13, <5>2
        <5> QED
          BY <1>1, <4>1, <5>1, <5>3
      <4> QED
        BY <4>2, <4>3
    <3> QED
      BY <3>2, <3>3, <3>4
  <2> QED
    BY <2>1, <2>2
<1>20. \A i, j \in DOMAIN FB : FB[i].url = FB[j].url \/ FB[i].id = FB[j].id => i = j
  BY <1>5, <1>11
<1>21. \A i, j \in DOMAIN FA : FA[i].url = FA[j].url \/ FA[i].id = FA[j].id => i = j
  BY <1>6, <1>13
<1>22. UniqueLists(new.lists)
  BY <1>14, <1>19, <1>20, <1>21 DEF UniqueLists, Arrays
<1>23. ASSUME ~new.fixed
       PROVE  \A a \in Arrays : \A i \in DOMAIN new.lists[a] : Fresh(new.lists[a][i])
  <2>1. \A i \in DOMAIN FB : Fresh(FB[i])
    BY <1>7, <1>8, <1>11, <1>23 DEF Fresh
  <2>2. \A i \in DOMAIN FA : Fresh(FA[i])
    BY <1>7, <1>9, <1>13, <1>23 DEF Fresh
  <2> QED
    BY <1>14, <2>1, <2>2 DEF Arrays
<1>24. ASSUME DOMAIN files = {}
       PROVE  ~new.fixed
  <2>1. Taken(B) \subseteq DOMAIN B /\ Taken(A) \subseteq DOMAIN A
    BY DEF Taken
  <2>2. \A i \in DOMAIN B : B[i].sum = <<>>
    BY <1>8, <1>24 DEF Fresh
  <2>3. \A i \in DOMAIN A : A[i].sum = <<>>
    BY <1>9, <1>24 DEF Fresh
  <2> QED
    BY <1>7, <2>1, <2>2, <2>3
<1> QED
  BY <1>14, <1>15, <1>18, <1>22, <1>23, <1>24 DEF new
-----------------------------------------------------------------------------
(* The effects of the actions.                                             *)

(* A step of one goroutine.                                                *)
LEMMA JobUpdate ==
    ASSUME TypeInv, NEW p \in Procs, NEW j \in Jobs, JobOK(j), job' = [job EXCEPT ![p] = j]
    PROVE  /\ job' \in [Procs -> Jobs]
           /\ \A q \in Procs : JobOK(job'[q])
           /\ job'[p] = j
           /\ \A q \in Procs : q # p => job'[q] = job[q]
<1>1. job \in [Procs -> Jobs] /\ \A q \in Procs : JobOK(job[q])
  BY DEF TypeInv
<1>2. /\ job' \in [Procs -> Jobs] /\ job'[p] = j
      /\ \A q \in Procs : q # p => job'[q] = job[q]
  BY <1>1
<1>3. \A q \in Procs : JobOK(job'[q])
  BY <1>1, <1>2
<1> QED
  BY <1>2, <1>3

(* Lists that keep their IDs, URLs and states.                             *)
KeptLists ==
    /\ lists' \in Lists
    /\ \A a \in Arrays :
          /\ DOMAIN lists'[a] = DOMAIN lists[a]
          /\ \A i \in DOMAIN lists[a] :
                /\ lists'[a][i].id = lists[a][i].id
                /\ lists'[a][i].url = lists[a][i].url
                /\ lists'[a][i].enabled = lists[a][i].enabled

(* KeptLists of an unchanged variable.                                     *)
LEMMA UnchangedKept ==
    ASSUME TypeInv, lists' = lists
    PROVE  KeptLists
BY DEF KeptLists, TypeInv

(* The elements of the arrays.                                             *)
LEMMA ListsFacts ==
    ASSUME TypeInv, NEW a \in Arrays
    PROVE  /\ lists[a] \in Seq(FilterYAML)
           /\ DOMAIN lists[a] = 1..Len(lists[a]) /\ Len(lists[a]) \in Nat
           /\ \A i \in DOMAIN lists[a] :
                 /\ lists[a][i] \in FilterYAML
                 /\ lists[a][i].id \in Nat /\ lists[a][i].url \in Urls
                 /\ lists[a][i].enabled \in BOOLEAN
<1>1. lists[a] \in Seq(FilterYAML)
  BY DEF TypeInv, Lists
<1>2. \A i \in DOMAIN lists[a] : lists[a][i] \in FilterYAML
  BY <1>1
<1>3. \A i \in DOMAIN lists[a] :
         lists[a][i].id \in Nat /\ lists[a][i].url \in Urls /\ lists[a][i].enabled \in BOOLEAN
  BY <1>2 DEF FilterYAML
<1> QED
  BY <1>1, <1>2, <1>3

(* TimePasses.                                                             *)
LEMMA TimeEffect ==
    ASSUME TypeInv, TimePasses
    PROVE  /\ KeptLists
           /\ \A a \in Arrays : \A i \in DOMAIN lists[a] : lists'[a][i].sum = lists[a][i].sum
<1>1. ASSUME NEW a \in Arrays
      PROVE  /\ lists'[a] \in Seq(FilterYAML)
             /\ DOMAIN lists'[a] = DOMAIN lists[a]
             /\ \A i \in DOMAIN lists[a] :
                   /\ lists'[a][i].id = lists[a][i].id
                   /\ lists'[a][i].url = lists[a][i].url
                   /\ lists'[a][i].enabled = lists[a][i].enabled
                   /\ lists'[a][i].sum = lists[a][i].sum
  <2>1. lists'[a] = [i \in DOMAIN lists[a] |-> [lists[a][i] EXCEPT !.fresh = FALSE]]
    BY DEF TimePasses
  <2>2. \A flt \in FilterYAML :
           /\ [flt EXCEPT !.fresh = FALSE] \in FilterYAML
           /\ [flt EXCEPT !.fresh = FALSE].id = flt.id
           /\ [flt EXCEPT !.fresh = FALSE].url = flt.url
           /\ [flt EXCEPT !.fresh = FALSE].enabled = flt.enabled
           /\ [flt EXCEPT !.fresh = FALSE].sum = flt.sum
    BY DEF FilterYAML
  <2>3. \A i \in DOMAIN lists[a] : lists'[a][i] = [lists[a][i] EXCEPT !.fresh = FALSE]
    BY <2>1
  <2>4. \A i \in DOMAIN lists[a] : lists'[a][i] \in FilterYAML
    BY ZenonT(30), <2>2, <2>3, ListsFacts
  <2>5. lists'[a] \in Seq(FilterYAML) /\ DOMAIN lists'[a] = DOMAIN lists[a]
    <3>1. PICK n \in Nat : DOMAIN lists[a] = 1..n
      BY ListsFacts
    <3>2. \A i \in 1..n : [lists[a][i] EXCEPT !.fresh = FALSE] \in FilterYAML
      BY <2>3, <2>4, <3>1
    <3>3. lists'[a] = [i \in 1..n |-> [lists[a][i] EXCEPT !.fresh = FALSE]]
      BY <2>1, <3>1
    <3> QED
      BY <3>1, <3>2, <3>3
  <2> QED
    BY <2>2, <2>3, <2>5, ListsFacts
<1>2. lists' = [a \in Arrays |-> lists'[a]]
  BY DEF TimePasses
<1>3. lists' \in Lists
  BY <1>1, <1>2 DEF Lists
<1> QED
  BY <1>1, <1>3 DEF KeptLists

(* filterAdd appends a list whose URL no other one has.                    *)
LEMMA AddEffect ==
    ASSUME TypeInv, NEW h \in Handlers, filterAdd(h)
    PROVE  LET j == job[h]
               a == j.array
           IN  \/ /\ lists' = lists
                  /\ job' = [job EXCEPT ![h] = Idle]
               \/ /\ ~filterExists(j.flt.url)
                  /\ job' = [job EXCEPT ![h] = [pc |-> "enable"]]
                  /\ j \in AddJobs
                  /\ lists' \in Lists
                  /\ DOMAIN lists'[a] = 1..(Len(lists[a]) + 1)
                  /\ lists'[a][Len(lists[a]) + 1] = j.flt
                  /\ \A i \in DOMAIN lists[a] : lists'[a][i] = lists[a][i]
                  /\ \A b \in Arrays : b # a => lists'[b] = lists[b]
<1> DEFINE j == job[h]
           a == j.array
<1>1. j \in AddJobs
  BY JobKinds DEF filterAdd, Procs
<1>2. a \in Arrays /\ j.flt \in FilterYAML
  BY <1>1 DEF AddJobs
<1>3. CASE filterExists(j.flt.url)
  BY <1>3 DEF filterAdd
<1>4. CASE ~filterExists(j.flt.url)
  <2>1. lists' = [lists EXCEPT ![a] = Append(@, j.flt)] /\ job' = [job EXCEPT ![h] = [pc |-> "enable"]]
    BY <1>4 DEF filterAdd
  <2>2. PICK s \in Seq(FilterYAML), flt \in FilterYAML : s = lists[a] /\ flt = j.flt
    BY <1>2, ListsFacts
  <2>3. /\ Append(s, flt) \in Seq(FilterYAML)
        /\ DOMAIN Append(s, flt) = 1..(Len(s) + 1)
        /\ Append(s, flt)[Len(s) + 1] = flt
        /\ \A i \in DOMAIN s : Append(s, flt)[i] = s[i]
    OBVIOUS
  <2>4. lists' = [lists EXCEPT ![a] = Append(s, flt)]
    BY <2>1, <2>2
  <2>5. /\ lists'[a] = Append(s, flt) /\ lists' \in Lists
        /\ \A b \in Arrays : b # a => lists'[b] = lists[b]
    BY <1>2, <2>3, <2>4 DEF TypeInv, Lists
  <2> QED
    BY <1>1, <1>4, <2>1, <2>2, <2>3, <2>5
<1> QED
  BY <1>3, <1>4

(* RemoveURL: the list and its file go, and the others keep their order.   *)
Removes(a, i) ==
    /\ lists' \in Lists /\ files' \in Files
    /\ DOMAIN files' = DOMAIN files \ {lists[a][i].id}
    /\ \A id \in DOMAIN files' : files'[id] = files[id]
    /\ \A b \in Arrays : b # a => lists'[b] = lists[b]
    /\ \E m \in [DOMAIN lists'[a] -> DOMAIN lists[a]] :
          /\ \A k \in DOMAIN lists'[a] : lists'[a][k] = lists[a][m[k]] /\ m[k] # i
          /\ \A k, l \in DOMAIN lists'[a] : m[k] = m[l] => k = l

(* RemoveURL removes at most one list, and its file with it.               *)
LEMMA RemoveEffect ==
    ASSUME TypeInv, NEW h \in Handlers, NEW a \in Arrays, NEW url \in Urls,
           handleFilteringRemoveURL(h, a, url)
    PROVE  \/ lists' = lists /\ files' = files
           \/ \E i \in DOMAIN lists[a] : Removes(a, i)
<1>1. CASE UNCHANGED <<files, lists>>
  BY <1>1
<1>2. CASE ~UNCHANGED <<files, lists>>
  <2> DEFINE i == IndexOf(a, url)
  <2>1. /\ i # 0
        /\ files' = [id \in DOMAIN files \ {lists[a][i].id} |-> files[id]]
        /\ lists' = [lists EXCEPT ![a] = RemoveAt(@, i)]
    BY <1>2 DEF handleFilteringRemoveURL
  <2>2. i \in DOMAIN lists[a]
    BY <2>1, IndexOfFacts
  <2> HIDE DEF i
  <2>3. /\ files' \in Files
        /\ DOMAIN files' = DOMAIN files \ {lists[a][i].id}
        /\ \A id \in DOMAIN files' : files'[id] = files[id]
    <3>1. PICK S \in SUBSET Nat : files \in [S -> Sums]
      BY DEF TypeInv, Files
    <3>2. PICK T \in SUBSET Nat : T = S \ {lists[a][i].id}
      OBVIOUS
    <3>3. files' \in [T -> Sums]
      BY <2>1, <3>1, <3>2
    <3> QED
      BY <2>1, <3>3 DEF Files
  <2>4. PICK s \in Seq(FilterYAML) : s = lists[a]
    BY ListsFacts
  <2>5. /\ RemoveAt(s, i) \in Seq(FilterYAML)
        /\ Len(RemoveAt(s, i)) = Len(s) - 1
        /\ \A k \in 1..(Len(s) - 1) : RemoveAt(s, i)[k] = IF k < i THEN s[k] ELSE s[k + 1]
    BY <2>2, <2>4, RemoveAtFacts
  <2>6. lists' = [lists EXCEPT ![a] = RemoveAt(s, i)]
    BY <2>1, <2>4
  <2>7. /\ lists'[a] = RemoveAt(s, i) /\ lists' \in Lists
        /\ \A b \in Arrays : b # a => lists'[b] = lists[b]
    BY <2>5, <2>6 DEF TypeInv, Lists
  <2> DEFINE m == [k \in 1..(Len(s) - 1) |-> IF k < i THEN k ELSE k + 1]
  <2>8. i \in 1..Len(s) /\ Len(s) \in Nat /\ DOMAIN s = 1..Len(s)
    BY <2>2, <2>4
  <2>9. /\ m \in [1..(Len(s) - 1) -> 1..Len(s)]
        /\ \A k \in 1..(Len(s) - 1) : m[k] # i
        /\ \A k, l \in 1..(Len(s) - 1) : m[k] = m[l] => k = l
    BY <2>8
  <2>10. \A k \in 1..(Len(s) - 1) : RemoveAt(s, i)[k] = s[m[k]]
    BY <2>5
  <2>11. DOMAIN lists'[a] = 1..(Len(s) - 1)
    BY <2>5, <2>7
  <2> HIDE DEF m
  <2>12. \E mm \in [DOMAIN lists'[a] -> DOMAIN lists[a]] :
          /\ \A k \in DOMAIN lists'[a] : lists'[a][k] = lists[a][mm[k]] /\ mm[k] # i
          /\ \A k, l \in DOMAIN lists'[a] : mm[k] = mm[l] => k = l
    <3>1. m \in [DOMAIN lists'[a] -> DOMAIN lists[a]]
      BY <2>4, <2>8, <2>9, <2>11
    <3>2. /\ \A k \in DOMAIN lists'[a] : lists'[a][k] = lists[a][m[k]] /\ m[k] # i
          /\ \A k, l \in DOMAIN lists'[a] : m[k] = m[l] => k = l
      BY <2>4, <2>7, <2>9, <2>10, <2>11
    <3> QED
      BY <3>1, <3>2
  <2> QED
    BY <2>2, <2>3, <2>7, <2>12 DEF Removes
<1> QED
  BY <1>1, <1>2

(* SetURL changes one list.                                                *)
LEMMA SetURLEffect ==
    ASSUME TypeInv, NEW h \in Handlers, NEW a \in Arrays, NEW url \in Urls, NEW newURL \in Urls,
           NEW enabled \in BOOLEAN, handleFilteringSetURL(h, a, url, newURL, enabled)
    PROVE  \E i \in DOMAIN lists[a] : \E res :
              /\ res = SetProperties(lists[a][i], newURL, enabled)
              /\ lists[a][i].url = url
              /\ lists' = [lists EXCEPT ![a][i] = res.flt]
              /\ files' = res.files
              /\ saved' = IF res.err THEN saved ELSE WriteDiskConfig(lists')
              /\ job' = [job EXCEPT ![h] = IF res.restart THEN [pc |-> "enable"] ELSE Idle]
              /\ excused' = excused
                   \cup (IF InFlight(lists[a][i].id) THEN {"edited"} ELSE {})
                   \cup (IF enabled /\ ~lists[a][i].enabled /\ ~res.err /\ ~res.restart
                         THEN {"blank"} ELSE {})
              /\ res.flt \in FilterYAML
              /\ lists' \in Lists
              /\ DOMAIN lists'[a] = DOMAIN lists[a]
              /\ lists'[a][i] = res.flt
              /\ \A k \in DOMAIN lists[a] : k # i => lists'[a][k] = lists[a][k]
              /\ \A b \in Arrays : b # a => lists'[b] = lists[b]
<1> DEFINE i == IndexOf(a, url)
<1>1. i \in DOMAIN lists[a] /\ lists[a][i].url = url
  BY IndexOfFacts DEF handleFilteringSetURL
<1>2. PICK res :
              /\ res = SetProperties(lists[a][i], newURL, enabled)
              /\ lists' = [lists EXCEPT ![a][i] = res.flt]
              /\ files' = res.files
              /\ saved' = IF res.err THEN saved ELSE WriteDiskConfig(lists')
              /\ job' = [job EXCEPT ![h] = IF res.restart THEN [pc |-> "enable"] ELSE Idle]
              /\ excused' = excused
                   \cup (IF InFlight(lists[a][i].id) THEN {"edited"} ELSE {})
                   \cup (IF enabled /\ ~lists[a][i].enabled /\ ~res.err /\ ~res.restart
                         THEN {"blank"} ELSE {})
  BY DEF handleFilteringSetURL
<1> HIDE DEF i
<1>3. lists[a][i] \in FilterYAML
  BY <1>1, ListsFacts
<1>4. res.flt \in FilterYAML
  BY <1>2, <1>3, SetPropertiesFacts
<1>5. PICK s \in Seq(FilterYAML), flt \in FilterYAML : s = lists[a] /\ flt = res.flt
  BY <1>4, ListsFacts
<1>6. PICK t \in Seq(FilterYAML) : /\ t = [s EXCEPT ![i] = flt]
                                    /\ DOMAIN t = DOMAIN s /\ t[i] = flt
                                    /\ \A k \in DOMAIN s : k # i => t[k] = s[k]
  <2> DEFINE t == [s EXCEPT ![i] = flt]
  <2>1. i \in DOMAIN s
    BY <1>1, <1>5
  <2>2. t \in Seq(FilterYAML)
    BY <2>1
  <2>3. DOMAIN t = DOMAIN s /\ t[i] = flt /\ \A k \in DOMAIN s : k # i => t[k] = s[k]
    BY <2>1
  <2> QED
    BY <2>2, <2>3
<1>7. lists' = [lists EXCEPT ![a] = t]
  BY <1>2, <1>5, <1>6
<1>8. lists' \in Lists /\ lists'[a] = t /\ \A b \in Arrays : b # a => lists'[b] = lists[b]
  BY <1>7 DEF TypeInv, Lists
<1> QED
  BY ZenonT(30), <1>1, <1>2, <1>4, <1>5, <1>6, <1>8

(* Download takes one copy, and leaves the others and their results.       *)
Downloads(p, n, copies, results) ==
    /\ n \in DOMAIN job[p].lists /\ n \notin DOMAIN job[p].results
    /\ job[p].lists[n] \in FilterYAML
    /\ files' = finalizeUpdate(job[p].lists[n])
    /\ job' = [job EXCEPT ![p] = Downloading(job[p], copies, results)]
    /\ Downloading(job[p], copies, results) \in Jobs
    /\ JobOK(Downloading(job[p], copies, results))
    /\ DOMAIN copies = DOMAIN job[p].lists
    /\ copies[n] = update(job[p].lists[n])
    /\ \A m \in DOMAIN job[p].lists : m # n => copies[m] = job[p].lists[m]
    /\ DOMAIN results = DOMAIN job[p].results \cup {n}
    /\ results[n] = Outcome(job[p].lists[n])
    /\ \A m \in DOMAIN job[p].results : results[m] = job[p].results[m]

(* Download takes one copy, and replaces its file if it has changed.       *)
LEMMA DownloadEffect ==
    ASSUME TypeInv, NEW p \in Procs, Download(p)
    PROVE  \E n, copies, results : Downloads(p, n, copies, results)
<1> DEFINE j    == job[p]
           rest == DOMAIN j.lists \ DOMAIN j.results
           n    == Min(rest)
           flt  == j.lists[n]
           copies  == [j.lists EXCEPT ![n] = update(flt)]
           results == [m \in DOMAIN j.results \cup {n} |->
                         IF m = n THEN Outcome(flt) ELSE j.results[m]]
<1>1. /\ j.pc = "download" /\ rest # {}
      /\ files' = finalizeUpdate(flt)
      /\ job' = [job EXCEPT ![p] = Downloading(j, copies, results)]
  BY DEF Download
<1>2. j \in DownloadJobs
  BY <1>1, JobKinds
<1>3. PICK S \in Finite : j.lists \in [S -> FilterYAML]
  BY <1>2 DEF DownloadJobs
<1>4. PICK T \in Finite : j.results \in [T -> Results]
  BY <1>2 DEF DownloadJobs
<1>5. rest \in SUBSET Nat
  BY <1>3 DEF Finite
<1>6. n \in S /\ n \notin T
  BY <1>1, <1>3, <1>4, <1>5, MinInSet
<1>7. flt \in FilterYAML
  BY <1>3, <1>6
<1>8. update(flt) \in FilterYAML
  BY <1>7, UpdateFacts
<1>9. Outcome(flt) \in Results
  BY DEF Outcome, Results
<1>10. T \cup {n} \in Finite
  BY ZenonT(30), <1>3, <1>4, <1>6, FS_AddElement DEF Finite
<1> HIDE DEF n
<1>11. copies \in [S -> FilterYAML]
  BY <1>3, <1>8
<1>12. results \in [T \cup {n} -> Results]
  BY <1>4, <1>9
<1>13. DOMAIN j.results \subseteq DOMAIN j.lists /\ j.arrays # <<>>
  BY <1>1 DEF TypeInv, JobOK
<1>14. /\ DOMAIN copies = DOMAIN j.lists /\ copies[n] = update(flt)
       /\ \A m \in DOMAIN j.lists : m # n => copies[m] = j.lists[m]
       /\ DOMAIN results = DOMAIN j.results \cup {n} /\ results[n] = Outcome(flt)
       /\ \A m \in DOMAIN j.results : results[m] = j.results[m]
  BY <1>3, <1>4, <1>6
<1>15. PICK c, r : c = copies /\ r = results
  OBVIOUS
<1> HIDE DEF copies, results
<1>16. Downloading(j, c, r) \in DownloadJobs
  <2>1. c \in UNION {[X -> FilterYAML] : X \in Finite} /\ r \in UNION {[X -> Results] : X \in Finite}
    BY <1>3, <1>10, <1>11, <1>12, <1>15
  <2> QED
    BY <1>2, <2>1 DEF Downloading, DownloadJobs
<1>17. Downloading(j, c, r) \in Jobs
  BY <1>16 DEF Jobs
<1>18. JobOK(Downloading(j, c, r))
  BY <1>3, <1>4, <1>6, <1>13, <1>14, <1>15 DEF JobOK, Downloading
<1>19. Downloads(p, n, c, r)
  BY <1>1, <1>3, <1>4, <1>6, <1>7, <1>14, <1>15, <1>17, <1>18 DEF Downloads
<1> QED
  BY <1>19

(* listsToUpdate copies the lists that are due.                            *)
LEMMA SnapshotEffect ==
    ASSUME TypeInv, NEW p \in Procs, listsToUpdate(p)
    PROVE  LET j == job[p] IN
           /\ Head(j.arrays) \in Arrays
           /\ \E j2 \in Jobs :
                 /\ job' = [job EXCEPT ![p] = j2] /\ JobOK(j2) /\ j2.updated = j.updated
                 /\ \/ j2 = Snapshot(Tail(j.arrays), j.force, j.updated, j.netErr)
                    \/ /\ j2.pc = "download" /\ j2.arrays = j.arrays
                       /\ DOMAIN j2.results = {}
                       /\ \A n \in DOMAIN j2.lists :
                             /\ n \in DOMAIN lists[Head(j.arrays)]
                             /\ j2.lists[n] = lists[Head(j.arrays)][n]
                             /\ lists[Head(j.arrays)][n].enabled
<1> DEFINE j   == job[p]
           a   == Head(j.arrays)
           due == Due(a, j.force)
<1>1. /\ j.pc = "snapshot" /\ j.arrays # <<>>
      /\ job' = [job EXCEPT ![p] =
             IF due = {} THEN Snapshot(Tail(j.arrays), j.force, j.updated, j.netErr)
             ELSE Downloading(j, [i \in due |-> lists[a][i]], <<>>)]
  BY DEF listsToUpdate
<1>2. j \in SnapshotJobs
  BY <1>1, JobKinds
<1>3. /\ j.arrays \in Seq(Arrays) /\ j.force \in BOOLEAN /\ j.updated \in Nat
      /\ j.netErr \in BOOLEAN
  BY <1>2 DEF SnapshotJobs
<1>4. a \in Arrays /\ Tail(j.arrays) \in Seq(Arrays)
  BY <1>1, <1>3
<1>5. CASE due = {}
  <2>1. PICK j2 \in Jobs : j2 = Snapshot(Tail(j.arrays), j.force, j.updated, j.netErr)
    BY <1>3, <1>4, NewJobs
  <2>2. JobOK(j2) /\ j2.updated = j.updated
    BY <2>1 DEF JobOK, Snapshot
  <2> QED
    BY <1>1, <1>4, <1>5, <2>1, <2>2
<1>6. CASE due # {}
  <2>1. PICK copies : copies = [i \in due |-> lists[a][i]]
    OBVIOUS
  <2>2. due \in SUBSET DOMAIN lists[a]
    BY DEF Due
  <2>3. \A i \in due : lists[a][i].enabled
    BY DEF Due
  <2>14. IsFiniteSet(DOMAIN lists[a]) /\ DOMAIN lists[a] \in SUBSET Nat
    <3>1. PICK n \in Nat : DOMAIN lists[a] = 1..n
      BY <1>4, ListsFacts
    <3>2. n \in Int /\ 1 \in Int
      OBVIOUS
    <3> QED
      BY <3>1, <3>2, FS_Interval
  <2>4. due \in Finite
    BY <2>2, <2>14, FS_Subset DEF Finite
  <2>5. copies \in [due -> FilterYAML]
    BY <1>4, <2>1, <2>2, ListsFacts
  <2>6. copies \in UNION {[S -> FilterYAML] : S \in Finite}
    BY <2>4, <2>5
  <2>7. <<>> \in UNION {[S -> Results] : S \in Finite} /\ DOMAIN <<>> = {}
    <3>1. {} \in Finite
      BY FS_EmptySet DEF Finite
    <3>2. <<>> \in [{} -> Results] /\ DOMAIN <<>> = {}
      OBVIOUS
    <3> QED
      BY <3>1, <3>2
  <2>8. PICK none : none = <<>> /\ none \in UNION {[S -> Results] : S \in Finite} /\ DOMAIN none = {}
    BY <2>7
  <2> HIDE DEF due
  <2>9. Downloading(j, copies, none) \in DownloadJobs
    BY <1>3, <2>6, <2>8 DEF Downloading, DownloadJobs
  <2>10. PICK j2 \in Jobs : j2 = Downloading(j, copies, none)
    BY <2>9 DEF Jobs
  <2>11. /\ JobOK(j2) /\ j2.updated = j.updated /\ j2.pc = "download" /\ j2.arrays = j.arrays
         /\ j2.lists = copies /\ j2.results = none
    BY <1>1, <2>8, <2>10 DEF JobOK, Downloading
  <2>12. job' = [job EXCEPT ![p] = j2]
    BY <1>1, <1>6, <2>1, <2>8, <2>10
  <2>13. \A n \in DOMAIN j2.lists :
            n \in DOMAIN lists[a] /\ j2.lists[n] = lists[a][n] /\ lists[a][n].enabled
    BY <2>1, <2>2, <2>3, <2>11
  <2> QED
    BY <1>4, <2>8, <2>10, <2>11, <2>12, <2>13
<1> QED
  BY <1>5, <1>6

(* refreshFiltersArray merges the copies, unless all downloads failed.     *)
LEMMA MergeEffect ==
    ASSUME TypeInv, NEW p \in Procs, refreshFiltersArray(p)
    PROVE  LET j == job[p]
               a == Head(j.arrays)
           IN  /\ j.pc = "download" /\ a \in Arrays /\ DOMAIN j.results = DOMAIN j.lists
               /\ KeptLists
               /\ \E j2 \in Jobs :
                     /\ job' = [job EXCEPT ![p] = j2] /\ JobOK(j2) /\ j2.pc = "snapshot"
                     /\ j2 = Snapshot(j2.arrays, j2.force, j2.updated, j2.netErr)
                     /\ \/ /\ \A n \in DOMAIN j.results : j.results[n] = "failed"
                           /\ lists' = lists /\ j2.updated = j.updated
                        \/ /\ Unlocked
                           /\ j2.updated = j.updated + UpdateCount(p)
                           /\ UpdateCount(p) \in Nat /\ j.updated \in Nat
                           /\ \A i \in DOMAIN lists[a] : lists'[a][i] = Merge(lists[a][i], p)
                           /\ \A b \in Arrays : b # a => lists'[b] = lists[b]
<1> DEFINE j == job[p]
           a == Head(j.arrays)
           failed == \A n \in DOMAIN j.results : j.results[n] = "failed"
<1>1. /\ j.pc = "download" /\ DOMAIN j.results = DOMAIN j.lists
      /\ \/ /\ failed
            /\ job' = [job EXCEPT ![p] = Snapshot(Tail(j.arrays), j.force, j.updated, TRUE)]
            /\ lists' = lists
         \/ /\ ~failed
            /\ Unlocked
            /\ lists' = [lists EXCEPT ![a] = MergeArray(a, p)]
            /\ job' = [job EXCEPT
                  ![p] = Snapshot(Tail(j.arrays), j.force, j.updated + UpdateCount(p), j.netErr)]
  BY DEF refreshFiltersArray
<1>2. j \in DownloadJobs
  BY <1>1, JobKinds
<1>3. /\ j.arrays \in Seq(Arrays) /\ j.force \in BOOLEAN /\ j.updated \in Nat
      /\ j.netErr \in BOOLEAN
  BY <1>2 DEF DownloadJobs
<1>4. j.arrays # <<>>
  BY <1>1 DEF TypeInv, JobOK
<1>5. a \in Arrays /\ Tail(j.arrays) \in Seq(Arrays)
  BY <1>3, <1>4
<1>6. CASE failed /\ lists' = lists
           /\ job' = [job EXCEPT ![p] = Snapshot(Tail(j.arrays), j.force, j.updated, TRUE)]
  <2>1. PICK j2 \in Jobs : j2 = Snapshot(Tail(j.arrays), j.force, j.updated, TRUE)
    BY <1>3, <1>5, NewJobs
  <2>2. /\ JobOK(j2) /\ j2.pc = "snapshot" /\ j2.updated = j.updated
        /\ j2 = Snapshot(j2.arrays, j2.force, j2.updated, j2.netErr)
    BY <2>1 DEF JobOK, Snapshot
  <2> QED
    BY <1>1, <1>5, <1>6, <2>1, <2>2, UnchangedKept
<1>7. CASE /\ Unlocked
           /\ lists' = [lists EXCEPT ![a] = MergeArray(a, p)]
           /\ job' = [job EXCEPT
                  ![p] = Snapshot(Tail(j.arrays), j.force, j.updated + UpdateCount(p), j.netErr)]
  <2>1. UpdateCount(p) \in Nat
    BY <1>1, UpdateCountType
  <2>2. PICK u \in Nat : u = j.updated + UpdateCount(p)
    BY <1>3, <2>1
  <2>3. PICK j2 \in Jobs : j2 = Snapshot(Tail(j.arrays), j.force, u, j.netErr)
    BY <1>3, <1>5, NewJobs
  <2>4. /\ JobOK(j2) /\ j2.pc = "snapshot" /\ j2.updated = u
        /\ j2 = Snapshot(j2.arrays, j2.force, j2.updated, j2.netErr)
    BY <2>3 DEF JobOK, Snapshot
  <2>5. /\ MergeArray(a, p) \in Seq(FilterYAML)
        /\ DOMAIN MergeArray(a, p) = DOMAIN lists[a]
        /\ \A i \in DOMAIN lists[a] : MergeArray(a, p)[i] = Merge(lists[a][i], p)
    BY <1>1, <1>5, MergeArrayFacts
  <2>6. /\ lists' \in Lists /\ lists'[a] = MergeArray(a, p)
        /\ \A b \in Arrays : b # a => lists'[b] = lists[b]
    BY <1>5, <1>7, <2>5 DEF TypeInv, Lists
  <2>7. \A i \in DOMAIN lists[a] :
           /\ lists'[a][i] = Merge(lists[a][i], p)
           /\ lists'[a][i].id = lists[a][i].id
           /\ lists'[a][i].url = lists[a][i].url
           /\ lists'[a][i].enabled = lists[a][i].enabled
    BY <1>1, <1>5, <2>5, <2>6, ListsFacts, MergeFacts
  <2>8. KeptLists
    BY <2>5, <2>6, <2>7 DEF KeptLists
  <2> QED
    BY <1>1, <1>3, <1>5, <1>7, <2>1, <2>2, <2>3, <2>4, <2>6, <2>7, <2>8
<1> QED
  BY <1>1, <1>6, <1>7

(* initFiltering ends the job of p, and makes late the tasks that had      *)
(* opened their files before it.                                           *)
LEMMA InstallEffect ==
    ASSUME TypeInv, NEW p \in Procs, initFiltering(p)
    PROVE  /\ job[p].pc = "install" /\ engine' = job[p].engine /\ engine' \in Engines
           /\ job' \in [Procs -> Jobs]
           /\ job'[p] = Idle
           /\ \A q \in Procs : q # p /\ job[q].pc # "install" => job'[q] = job[q]
           /\ \A q \in Procs : q # p /\ job[q].pc = "install" =>
                 /\ job'[q].pc = "install" /\ job'[q].engine = job[q].engine
                 /\ job'[q].locked = job[q].locked /\ job'[q].newer = job[q].newer
                 /\ job'[q].late <=> (job[q].late \/ p \in job[q].newer)
<1>1. /\ job[p].pc = "install" /\ engine' = job[p].engine
      /\ job' = [q \in Procs |->
                 IF q = p THEN Idle
                 ELSE IF job[q].pc = "install" /\ p \in job[q].newer
                      THEN [job[q] EXCEPT !.late = TRUE]
                      ELSE job[q]]
  BY DEF initFiltering
<1>2. job[p] \in InstallJobs
  BY <1>1, JobKinds
<1>3. engine' \in Engines
  BY <1>1, <1>2 DEF InstallJobs
<1>4. job'[p] = Idle
  BY <1>1
<1>5. \A q \in Procs : q # p /\ job[q].pc # "install" => job'[q] = job[q]
  BY <1>1
<1>6. ASSUME NEW q \in Procs, q # p, job[q].pc = "install"
      PROVE  /\ job'[q] \in InstallJobs
             /\ job'[q].pc = "install" /\ job'[q].engine = job[q].engine
             /\ job'[q].locked = job[q].locked /\ job'[q].newer = job[q].newer
             /\ job'[q].late <=> (job[q].late \/ p \in job[q].newer)
  <2>1. job[q] \in InstallJobs
    BY <1>6, JobKinds
  <2>2. CASE p \in job[q].newer
    <3>1. job'[q] = [job[q] EXCEPT !.late = TRUE]
      BY <1>1, <1>6, <2>2
    <3> QED
      BY <2>1, <2>2, <3>1 DEF InstallJobs
  <2>3. CASE p \notin job[q].newer
    <3>1. job'[q] = job[q]
      BY <1>1, <1>6, <2>3
    <3> QED
      BY <1>6, <2>1, <2>3, <3>1
  <2> QED
    BY <2>2, <2>3
<1>7. \A q \in Procs : job'[q] \in Jobs
  <2>1. InstallJobs \subseteq Jobs
    BY DEF Jobs
  <2>2. \A q \in Procs : job[q] \in Jobs
    BY DEF TypeInv
  <2> QED
    BY <1>4, <1>5, <1>6, <2>1, <2>2, NewJobs
<1>8. job' = [q \in Procs |-> job'[q]]
  BY <1>1
<1>9. job' \in [Procs -> Jobs]
  BY <1>7, <1>8
<1> QED
  BY <1>1, <1>3, <1>4, <1>5, <1>6, <1>9

(* The configuration file keeps the IDs and the URLs.                      *)
LEMMA DiskFacts ==
    ASSUME NEW ls \in Lists, rules \in Nat, on \in BOOLEAN
    PROVE  /\ WriteDiskConfig(ls) \in [lists : Lists, rules : Nat, on : BOOLEAN]
           /\ \A a \in Arrays :
                 /\ DOMAIN WriteDiskConfig(ls).lists[a] = DOMAIN ls[a]
                 /\ \A i \in DOMAIN ls[a] :
                       /\ WriteDiskConfig(ls).lists[a][i].id = ls[a][i].id
                       /\ WriteDiskConfig(ls).lists[a][i].url = ls[a][i].url
<1> DEFINE out == WriteDiskConfig(ls).lists
           kept(flt) == [unload(flt) EXCEPT !.fresh = FALSE]
<1>1. \A flt \in FilterYAML :
         kept(flt) \in FilterYAML /\ kept(flt).id = flt.id /\ kept(flt).url = flt.url
  BY DEF FilterYAML, unload, Sums
<1>2. out = [a \in Arrays |-> [i \in DOMAIN ls[a] |-> kept(ls[a][i])]]
  BY DEF WriteDiskConfig
<1>3. WriteDiskConfig(ls) = [lists |-> out, rules |-> rules, on |-> on]
  BY DEF WriteDiskConfig
<1> HIDE DEF out, kept
<1>4. ASSUME NEW a \in Arrays
      PROVE  /\ out[a] \in Seq(FilterYAML)
             /\ DOMAIN out[a] = DOMAIN ls[a]
             /\ \A i \in DOMAIN ls[a] : out[a][i].id = ls[a][i].id /\ out[a][i].url = ls[a][i].url
  <2>1. ls[a] \in Seq(FilterYAML)
    BY DEF Lists
  <2>2. \A i \in DOMAIN ls[a] : ls[a][i] \in FilterYAML
    BY <2>1
  <2>3. \A i \in DOMAIN ls[a] : /\ kept(ls[a][i]) \in FilterYAML
                                /\ kept(ls[a][i]).id = ls[a][i].id
                                /\ kept(ls[a][i]).url = ls[a][i].url
    BY <1>1, <2>2
  <2>4. out[a] = [i \in DOMAIN ls[a] |-> kept(ls[a][i])]
    BY <1>2
  <2>5. PICK n \in Nat : DOMAIN ls[a] = 1..n
    BY <2>1
  <2>6. out[a] = [i \in 1..n |-> kept(ls[a][i])]
    BY <2>4, <2>5
  <2>7. out[a] \in Seq(FilterYAML)
    BY <2>3, <2>5, <2>6
  <2> QED
    BY <2>3, <2>4, <2>7
<1>5. out = [a \in Arrays |-> out[a]]
  BY <1>2
<1>6. out \in Lists
  BY <1>4, <1>5 DEF Lists
<1>7. WriteDiskConfig(ls) \in [lists : Lists, rules : Nat, on : BOOLEAN]
  BY <1>3, <1>6
<1> QED
  BY <1>4, <1>7 DEF out

(* Every step keeps the types.                                             *)
LEMMA TypeStep ==
    ASSUME TypeInv, Loadable(saved.lists, nextID), [Next]_vars
    PROVE  TypeInv'
<1>1. ASSUME NEW p \in Procs, initFiltering(p)
      PROVE  TypeInv'
  <2>1. \A q \in Procs : JobOK(job'[q])
    BY <1>1, InstallEffect, NewJobs DEF JobOK, TypeInv
  <2> QED
    BY <1>1, <2>1, InstallEffect DEF TypeInv, initFiltering, conf, env
<1>2. ASSUME NEW h \in Handlers, Enable(h)
      PROVE  TypeInv'
  <2>1. saved' \in [lists : Lists, rules : Nat, on : BOOLEAN]
    BY <1>2, DiskFacts DEF Enable, TypeInv
  <2>2. JobOK(Idle) /\ Idle \in Jobs /\ h \in Procs /\ job' = [job EXCEPT ![h] = Idle]
    BY <1>2, NewJobs DEF JobOK, Procs, Enable
  <2>3. job' \in [Procs -> Jobs] /\ \A q \in Procs : JobOK(job'[q])
    BY <2>2, JobUpdate
  <2>4. \E t \in Tasks : chan' = <<t>>
    BY <1>2, ParamsType DEF Enable, setFilters
  <2> QED
    BY <1>2, <2>1, <2>3, <2>4 DEF TypeInv, Enable, env
<1>3. ASSUME updatesLoop
      PROVE  TypeInv'
  <2>1. PICK t \in Tasks : chan = <<t>>
    BY <1>3 DEF updatesLoop, TypeInv
  <2>2. job' = Opening("loop", t, FALSE) /\ "loop" \in Procs /\ FALSE \in BOOLEAN
    BY <1>3, <2>1 DEF updatesLoop, Procs
  <2>3. /\ job' \in [Procs -> Jobs]
        /\ job'["loop"].pc = "install"
        /\ \A q \in Procs : q # "loop" /\ job[q].pc # "install" => job'[q] = job[q]
        /\ \A q \in Procs : q # "loop" /\ job[q].pc = "install" => job'[q].pc = "install"
    <3>1. PICK b \in BOOLEAN : b = FALSE
      OBVIOUS
    <3>2. job' = Opening("loop", t, b)
      BY <2>2, <3>1
    <3> QED
      BY <2>2, <3>2, OpeningFacts
  <2>4. \A q \in Procs : JobOK(job'[q])
    BY <2>3 DEF JobOK, TypeInv
  <2> QED
    BY <1>3, <2>3, <2>4 DEF TypeInv, updatesLoop, conf, env
<1>4. ASSUME NEW h \in Handlers, NEW a \in Arrays, NEW url \in Urls, handleFilteringAddURL(h, a, url)
      PROVE  TypeInv'
  <2>1. PICK flt : flt = [id |-> nextID, url |-> url, enabled |-> TRUE, sum |-> <<>>, fresh |-> FALSE]
    OBVIOUS
  <2>2. flt \in FilterYAML
    BY <2>1 DEF FilterYAML, Sums, TypeInv
  <2>3. PICK j \in Jobs : j = [pc |-> "add", array |-> a, flt |-> flt]
    BY <2>2, NewJobs
  <2>4. JobOK(j) /\ h \in Procs /\ job' = [job EXCEPT ![h] = j]
    BY <1>4, <2>1, <2>3 DEF JobOK, Procs, handleFilteringAddURL
  <2>5. job' \in [Procs -> Jobs] /\ \A q \in Procs : JobOK(job'[q])
    BY <2>4, JobUpdate
  <2>6. nextID' \in Nat
    BY <1>4 DEF TypeInv, handleFilteringAddURL
  <2> QED
    BY <1>4, <2>5, <2>6 DEF TypeInv, handleFilteringAddURL, conf, env
<1>5. ASSUME NEW h \in Handlers, AddDownload(h)
      PROVE  TypeInv'
  <2>1. h \in Procs /\ job[h] \in AddJobs
    BY <1>5, JobKinds DEF AddDownload, Procs
  <2>2. job[h].flt \in FilterYAML /\ job[h].array \in Arrays
    BY <2>1 DEF AddJobs
  <2>3. update(job[h].flt) \in FilterYAML /\ finalizeUpdate(job[h].flt) \in Files
    BY <2>2, UpdateFacts, FinalizeFacts
  <2>4. PICK j \in Jobs :
          /\ j = IF Updated(job[h].flt)
                 THEN [pc |-> "insert", array |-> job[h].array, flt |-> update(job[h].flt)]
                 ELSE Idle
          /\ JobOK(j)
    BY <2>2, <2>3, NewJobs DEF JobOK
  <2>5. job' = [job EXCEPT ![h] = j]
    BY <1>5, <2>4 DEF AddDownload
  <2>6. job' \in [Procs -> Jobs] /\ \A q \in Procs : JobOK(job'[q])
    BY <2>1, <2>4, <2>5, JobUpdate
  <2> QED
    BY <1>5, <2>3, <2>6 DEF TypeInv, AddDownload, conf, env
<1>6. ASSUME NEW h \in Handlers, filterAdd(h)
      PROVE  TypeInv'
  <2>1. lists' \in Lists /\ (job' = [job EXCEPT ![h] = Idle] \/ job' = [job EXCEPT ![h] = [pc |-> "enable"]])
    BY <1>6, AddEffect DEF TypeInv
  <2>2. JobOK(Idle) /\ JobOK([pc |-> "enable"]) /\ h \in Procs
    BY DEF JobOK, Procs, Idle
  <2>3. job' \in [Procs -> Jobs] /\ \A q \in Procs : JobOK(job'[q])
    BY <2>1, <2>2, JobUpdate, NewJobs
  <2> QED
    BY <1>6, <2>1, <2>3 DEF TypeInv, filterAdd, env
<1>7. ASSUME NEW h \in Handlers, NEW a \in Arrays, NEW url \in Urls, handleFilteringRemoveURL(h, a, url)
      PROVE  TypeInv'
  <2>1. lists' \in Lists /\ files' \in Files
    BY <1>7, RemoveEffect DEF TypeInv, Removes
  <2>2. /\ JobOK([pc |-> "enable"]) /\ h \in Procs
        /\ job' = [job EXCEPT ![h] = [pc |-> "enable"]]
    BY <1>7 DEF JobOK, Procs, handleFilteringRemoveURL
  <2>3. job' \in [Procs -> Jobs] /\ \A q \in Procs : JobOK(job'[q])
    BY <2>2, JobUpdate, NewJobs
  <2> QED
    BY <1>7, <2>1, <2>3 DEF TypeInv, handleFilteringRemoveURL, env
<1>8. ASSUME NEW h \in Handlers, NEW a \in Arrays, NEW url \in Urls, NEW new \in NewUrl[url],
             NEW enabled \in BOOLEAN, handleFilteringSetURL(h, a, url, new, enabled)
      PROVE  TypeInv'
  <2>1. new \in Urls
    BY ConstantsAssumption
  <2>2. PICK i \in DOMAIN lists[a] : \E res :
              /\ res = SetProperties(lists[a][i], new, enabled)
              /\ files' = res.files
              /\ saved' = IF res.err THEN saved ELSE WriteDiskConfig(lists')
              /\ job' = [job EXCEPT ![h] = IF res.restart THEN [pc |-> "enable"] ELSE Idle]
              /\ lists' \in Lists
              /\ res.flt \in FilterYAML
    BY <1>8, <2>1, SetURLEffect
  <2>22. PICK res :
              /\ res = SetProperties(lists[a][i], new, enabled)
              /\ files' = res.files
              /\ saved' = IF res.err THEN saved ELSE WriteDiskConfig(lists')
              /\ job' = [job EXCEPT ![h] = IF res.restart THEN [pc |-> "enable"] ELSE Idle]
              /\ lists' \in Lists
              /\ res.flt \in FilterYAML
    BY <2>2
  <2>3. lists[a][i] \in FilterYAML
    BY ListsFacts
  <2>4. files' \in Files
    <3>1. files' = files \/ files' = Replaced(res.flt)
      BY <2>1, <2>22, <2>3, SetPropertiesFacts
    <3> QED
      BY <2>22, <3>1, ReplacedFacts DEF TypeInv
  <2>5. saved' \in [lists : Lists, rules : Nat, on : BOOLEAN]
    <3>1. PICK ls \in Lists : ls = lists'
      BY <2>2
    <3> QED
      BY <2>22, <3>1, DiskFacts DEF TypeInv
  <2>6. PICK j \in Jobs : j = (IF res.restart THEN [pc |-> "enable"] ELSE Idle) /\ JobOK(j)
    BY NewJobs DEF JobOK
  <2>7. h \in Procs /\ job' = [job EXCEPT ![h] = j]
    BY <2>22, <2>6 DEF Procs
  <2>8. job' \in [Procs -> Jobs] /\ \A q \in Procs : JobOK(job'[q])
    BY <2>6, <2>7, JobUpdate
  <2> QED
    BY <1>8, <2>22, <2>4, <2>5, <2>8 DEF TypeInv, handleFilteringSetURL, env
<1>9. ASSUME NEW h \in Handlers, handleFilteringSetRules(h) \/ handleFilteringConfig(h)
      PROVE  TypeInv'
  <2>1. /\ JobOK([pc |-> "enable"]) /\ h \in Procs
        /\ job' = [job EXCEPT ![h] = [pc |-> "enable"]]
    BY <1>9 DEF JobOK, Procs, handleFilteringSetRules, handleFilteringConfig
  <2>2. job' \in [Procs -> Jobs] /\ \A q \in Procs : JobOK(job'[q])
    BY <2>1, JobUpdate, NewJobs
  <2>3. CASE handleFilteringSetRules(h)
    <3>1. rules' \in Nat
      BY <2>3 DEF TypeInv, handleFilteringSetRules
    <3> QED
      BY <2>2, <2>3, <3>1 DEF TypeInv, handleFilteringSetRules, env
  <2>4. CASE handleFilteringConfig(h)
    <3>1. on' \in BOOLEAN
      BY <2>4 DEF TypeInv, handleFilteringConfig
    <3> QED
      BY <2>2, <2>4, <3>1 DEF TypeInv, handleFilteringConfig, env
  <2> QED
    BY <1>9, <2>3, <2>4
<1>10. ASSUME NEW p \in Procs, NEW arrays \in Seq(Arrays), NEW force \in BOOLEAN,
              tryRefreshFilters(p, arrays, force)
       PROVE  job' \in [Procs -> Jobs] /\ \A q \in Procs : JobOK(job'[q])
  <2>1. PICK j \in Jobs : j = Snapshot(arrays, force, 0, FALSE)
    BY NewJobs
  <2>2. JobOK(j)
    BY <2>1 DEF JobOK, Snapshot
  <2> QED
    BY <1>10, <2>1, <2>2, JobUpdate DEF tryRefreshFilters
<1>11. ASSUME NEW h \in Handlers, NEW a \in Arrays, handleFilteringRefresh(h, a)
       PROVE  TypeInv'
  <2>1. <<a>> \in Seq(Arrays) /\ h \in Procs
    BY DEF Procs
  <2>2. job' \in [Procs -> Jobs] /\ \A q \in Procs : JobOK(job'[q])
    BY <1>10, <1>11, <2>1 DEF handleFilteringRefresh
  <2> QED
    BY <1>11, <2>2 DEF TypeInv, handleFilteringRefresh, conf, env
<1>12. ASSUME periodicallyRefreshFilters
       PROVE  TypeInv'
  <2>1. <<"block", "allow">> \in Seq(Arrays) /\ "loop" \in Procs
    BY DEF Procs, Arrays
  <2>2. job' \in [Procs -> Jobs] /\ \A q \in Procs : JobOK(job'[q])
    BY <1>10, <1>12, <2>1 DEF periodicallyRefreshFilters, TypeInv
  <2> QED
    BY <1>12, <2>2 DEF TypeInv, periodicallyRefreshFilters, conf
<1>13. ASSUME NEW p \in Procs, listsToUpdate(p)
       PROVE  TypeInv'
  <2>1. PICK j2 \in Jobs : job' = [job EXCEPT ![p] = j2] /\ JobOK(j2)
    BY <1>13, SnapshotEffect
  <2>2. job' \in [Procs -> Jobs] /\ \A q \in Procs : JobOK(job'[q])
    BY <2>1, JobUpdate
  <2> QED
    BY <1>13, <2>2 DEF TypeInv, listsToUpdate, conf, env
<1>14. ASSUME NEW p \in Procs, Download(p)
       PROVE  TypeInv'
  <2>1. PICK n, copies, results : Downloads(p, n, copies, results)
    BY <1>14, DownloadEffect
  <2>2. job' \in [Procs -> Jobs] /\ \A q \in Procs : JobOK(job'[q])
    BY <2>1, JobUpdate DEF Downloads
  <2>3. files' \in Files
    BY <2>1, FinalizeFacts DEF Downloads
  <2> QED
    BY <1>14, <2>2, <2>3 DEF TypeInv, Download, conf, env
<1>15. ASSUME NEW p \in Procs, refreshFiltersArray(p)
       PROVE  TypeInv'
  <2>1. /\ lists' \in Lists
        /\ \E j2 \in Jobs : job' = [job EXCEPT ![p] = j2] /\ JobOK(j2)
    BY <1>15, MergeEffect DEF KeptLists
  <2>2. job' \in [Procs -> Jobs] /\ \A q \in Procs : JobOK(job'[q])
    BY <2>1, JobUpdate
  <2> QED
    BY <1>15, <2>1, <2>2 DEF TypeInv, refreshFiltersArray, env
<1>16. ASSUME NEW p \in Procs, refreshFiltersIntl(p)
       PROVE  TypeInv'
  <2>1. CASE job' = [job EXCEPT ![p] = Idle]
    <3>1. JobOK(Idle)
      BY DEF JobOK, Idle
    <3>2. job' \in [Procs -> Jobs] /\ \A q \in Procs : JobOK(job'[q])
      BY <2>1, <3>1, JobUpdate, NewJobs
    <3> QED
      BY <1>16, <3>2 DEF TypeInv, refreshFiltersIntl, conf, env
  <2>2. CASE job' = Opening(p, Params, TRUE)
    <3>1. /\ job' \in [Procs -> Jobs]
          /\ job'[p].pc = "install"
          /\ \A q \in Procs : q # p /\ job[q].pc # "install" => job'[q] = job[q]
          /\ \A q \in Procs : q # p /\ job[q].pc = "install" => job'[q].pc = "install"
      <4>1. PICK t \in Tasks : t = Params
        BY ParamsType
      <4>2. PICK b \in BOOLEAN : b = TRUE
        OBVIOUS
      <4>3. job' = Opening(p, t, b)
        BY <2>2, <4>1, <4>2
      <4> QED
        BY <4>3, OpeningFacts
    <3>2. \A q \in Procs : JobOK(job'[q])
      BY <3>1 DEF JobOK, TypeInv
    <3> QED
      BY <1>16, <3>1, <3>2 DEF TypeInv, refreshFiltersIntl, conf, env
  <2> QED
    BY <1>16, <2>1, <2>2 DEF refreshFiltersIntl
<1>17. ASSUME NEW o \in Outages, RemoteChanges(o[1], o[2])
       PROVE  TypeInv'
  <2>1. o[1] \in Urls /\ o[2] \in Documents \cup {Down}
    BY ConstantsAssumption
  <2>2. remote' \in [Urls -> Documents \cup {Down}]
    BY <1>17, <2>1 DEF RemoteChanges, TypeInv
  <2> QED
    BY <1>17, <2>2 DEF TypeInv, RemoteChanges, conf
<1>18. ASSUME TimePasses
       PROVE  TypeInv'
  <2>1. lists' \in Lists
    BY <1>18, TimeEffect DEF KeptLists
  <2> QED
    BY <1>18, <2>1 DEF TypeInv, TimePasses
<1>19. ASSUME New
       PROVE  TypeInv'
  <2>1. PICK new : new = Loaded(saved.lists, nextID)
    OBVIOUS
  <2>2. /\ lists' = new.lists /\ nextID' = new.next
        /\ engine' = Opened([rules |-> saved.rules, block |-> EnabledIDs(new.lists["block"]),
                             allow |-> EnabledIDs(new.lists["allow"])])
    BY <1>19, <2>1 DEF New
  <2>3. new.lists \in Lists /\ new.next \in Nat
    BY <2>1, LoadedFacts DEF TypeInv
  <2>4. [rules |-> saved.rules, block |-> EnabledIDs(new.lists["block"]),
         allow |-> EnabledIDs(new.lists["allow"])] \in Tasks
    BY <2>3, EnabledType DEF Tasks, TypeInv, Arrays
  <2>5. engine' \in Engines
    BY <2>2, <2>4, OpenedType
  <2>6. job' \in [Procs -> Jobs] /\ \A q \in Procs : JobOK(job'[q])
    BY <1>19, NewJobs DEF New, JobOK
  <2>7. rules' \in Nat /\ on' \in BOOLEAN
    BY <1>19 DEF New, TypeInv
  <2> QED
    BY <1>19, <2>2, <2>3, <2>5, <2>6, <2>7 DEF TypeInv, New
<1>20. CASE UNCHANGED vars
  BY <1>20 DEF TypeInv, vars
<1>21. Handlers \subseteq Procs /\ "loop" \in Procs
  BY DEF Procs
<1> QED
  BY <1>1, <1>2, <1>3, <1>4, <1>5, <1>6, <1>7, <1>8, <1>9, <1>11, <1>12, <1>13, <1>14, <1>15,
     <1>16, <1>17, <1>18, <1>19, <1>20, <1>21
     DEF Next, Edit, HandlerStep, LoopStep, RefreshStep

(* The updates loop opens the files of a task.                             *)
LEMMA LoopOpens ==
    ASSUME TypeInv, updatesLoop
    PROVE  \E t \in Tasks :
              /\ chan = <<t>> /\ chan' = <<>>
              /\ job["loop"].pc = "idle"
              /\ job'["loop"].pc = "install" /\ ~job'["loop"].locked
              /\ job'["loop"].engine = Opened(t)
              /\ \A q \in Procs : q # "loop" /\ job[q].pc # "install" => job'[q] = job[q]
              /\ \A q \in Procs : q # "loop" /\ job[q].pc = "install" =>
                    /\ job'[q].pc = "install" /\ job'[q].engine = job[q].engine
                    /\ job'[q].locked = job[q].locked /\ job'[q].late = job[q].late
                    /\ job'[q].newer = job[q].newer \cup {"loop"}
<1>1. PICK t \in Tasks : chan = <<t>>
  BY DEF updatesLoop, TypeInv
<1>2. PICK b \in BOOLEAN : b = FALSE
  OBVIOUS
<1>3. job' = Opening("loop", t, b) /\ "loop" \in Procs /\ chan' = <<>> /\ job["loop"].pc = "idle"
  <2>1. Head(chan) = t
    BY <1>1
  <2>2. job' = Opening("loop", Head(chan), FALSE) /\ chan' = <<>> /\ job["loop"].pc = "idle"
    BY DEF updatesLoop
  <2> QED
    BY <1>2, <2>1, <2>2 DEF Procs
<1>4. /\ job'["loop"].pc = "install" /\ job'["loop"].locked = b
      /\ job'["loop"].engine = Opened(t)
      /\ \A q \in Procs : q # "loop" /\ job[q].pc # "install" => job'[q] = job[q]
      /\ \A q \in Procs : q # "loop" /\ job[q].pc = "install" =>
            /\ job'[q].pc = "install" /\ job'[q].engine = job[q].engine
            /\ job'[q].locked = job[q].locked /\ job'[q].late = job[q].late
            /\ job'[q].newer = job[q].newer \cup {"loop"}
  BY <1>3, OpeningFacts
<1> QED
  BY <1>1, <1>2, <1>3, <1>4

(* A refresh ends, with a new engine if something was updated.             *)
LEMMA RefreshEnds ==
    ASSUME TypeInv, NEW p \in Procs, refreshFiltersIntl(p)
    PROVE  /\ job[p].pc = "snapshot"
           /\ \/ /\ job[p].netErr \/ job[p].updated = 0
                 /\ job'[p] = Idle
                 /\ \A q \in Procs : q # p => job'[q] = job[q]
              \/ /\ job'[p].pc = "install" /\ job'[p].locked /\ job'[p].engine = Opened(Params)
                 /\ \A q \in Procs : q # p /\ job[q].pc # "install" => job'[q] = job[q]
                 /\ \A q \in Procs : q # p /\ job[q].pc = "install" =>
                       /\ job'[q].pc = "install" /\ job'[q].engine = job[q].engine
                       /\ job'[q].locked = job[q].locked /\ job'[q].late = job[q].late
                       /\ job'[q].newer = job[q].newer \cup {p}
<1>1. job[p].pc = "snapshot"
  BY DEF refreshFiltersIntl
<1>2. CASE job[p].netErr \/ job[p].updated = 0
  <2>1. job' = [job EXCEPT ![p] = Idle]
    BY <1>2 DEF refreshFiltersIntl
  <2>2. JobOK(Idle)
    BY DEF JobOK, Idle
  <2> QED
    BY <1>1, <1>2, <2>1, <2>2, JobUpdate, NewJobs
<1>3. CASE ~(job[p].netErr \/ job[p].updated = 0)
  <2>1. PICK t \in Tasks : t = Params
    BY ParamsType
  <2>2. PICK b \in BOOLEAN : b = TRUE
    OBVIOUS
  <2>3. job' = Opening(p, t, b)
    BY <1>3, <2>1, <2>2 DEF refreshFiltersIntl
  <2>4. /\ job'[p].pc = "install" /\ job'[p].locked = b /\ job'[p].engine = Opened(t)
        /\ \A q \in Procs : q # p /\ job[q].pc # "install" => job'[q] = job[q]
        /\ \A q \in Procs : q # p /\ job[q].pc = "install" =>
              /\ job'[q].pc = "install" /\ job'[q].engine = job[q].engine
              /\ job'[q].locked = job[q].locked /\ job'[q].late = job[q].late
              /\ job'[q].newer = job[q].newer \cup {p}
    BY <2>3, OpeningFacts
  <2> QED
    BY <1>1, <2>1, <2>2, <2>4
<1> QED
  BY <1>2, <1>3

(* A step of one goroutine that isn't opening files.                       *)
Moves(p) == \A q \in Procs : q # p => job'[q] = job[q]

(* AddURL takes an ID.                                                     *)
LEMMA AddURLStart ==
    ASSUME TypeInv, NEW h \in Handlers, NEW a \in Arrays, NEW url \in Urls,
           handleFilteringAddURL(h, a, url)
    PROVE  /\ controlLockFree /\ Moves(h) /\ ~filterExists(url)
           /\ job'[h].pc = "add" /\ job'[h].flt.id = nextID
           /\ nextID' = nextID + 1
<1>1. h \in Procs /\ job \in [Procs -> Jobs]
  BY DEF Procs, TypeInv
<1> QED
  BY <1>1 DEF handleFilteringAddURL, Request, Moves

(* RemoveURL needs both locks.                                             *)
LEMMA RemoveStart ==
    ASSUME TypeInv, NEW h \in Handlers, NEW a \in Arrays, NEW url \in Urls,
           handleFilteringRemoveURL(h, a, url)
    PROVE  controlLockFree /\ Unlocked /\ Moves(h) /\ job'[h].pc = "enable"
<1>1. h \in Procs /\ job \in [Procs -> Jobs]
  BY DEF Procs, TypeInv
<1> QED
  BY <1>1 DEF handleFilteringRemoveURL, Request, Moves

(* SetURL needs both locks, and a URL that no other list has.              *)
LEMMA SetURLStart ==
    ASSUME TypeInv, NEW h \in Handlers, NEW a \in Arrays, NEW url \in Urls, NEW new,
           NEW enabled \in BOOLEAN, handleFilteringSetURL(h, a, url, new, enabled)
    PROVE  /\ controlLockFree /\ Unlocked /\ Moves(h)
           /\ new # url => ~filterExists(new)
           /\ job'[h].pc \in {"enable", "idle"}
<1>1. h \in Procs /\ job \in [Procs -> Jobs]
  BY DEF Procs, TypeInv
<1>2. controlLockFree /\ Unlocked /\ (new # url => ~filterExists(new))
  BY DEF handleFilteringSetURL, Request
<1>3. PICK j \in {Idle, [pc |-> "enable"]} : job' = [job EXCEPT ![h] = j]
  BY DEF handleFilteringSetURL
<1>4. job'[h] = j /\ Moves(h)
  BY <1>1, <1>3 DEF Moves
<1>5. j.pc \in {"enable", "idle"}
  BY DEF Idle
<1> QED
  BY <1>2, <1>4, <1>5

(* The user's rules and the switch.                                        *)
LEMMA SettingsStart ==
    ASSUME TypeInv, NEW h \in Handlers, handleFilteringSetRules(h) \/ handleFilteringConfig(h)
    PROVE  controlLockFree /\ Moves(h) /\ job'[h].pc = "enable"
<1>1. h \in Procs /\ job \in [Procs -> Jobs]
  BY DEF Procs, TypeInv
<1> QED
  BY <1>1 DEF handleFilteringSetRules, handleFilteringConfig, Request, Moves

(* A refresh that is asked for.                                            *)
LEMMA RefreshStart ==
    ASSUME TypeInv, NEW h \in Handlers, NEW a \in Arrays, handleFilteringRefresh(h, a)
    PROVE  /\ controlLockFree /\ Refreshable /\ Moves(h)
           /\ job'[h].pc = "snapshot"
<1>1. h \in Procs /\ job \in [Procs -> Jobs]
  BY DEF Procs, TypeInv
<1>2. PICK j : j = Snapshot(<<a>>, TRUE, 0, FALSE)
  OBVIOUS
<1>3. job' = [job EXCEPT ![h] = j]
  BY <1>2 DEF handleFilteringRefresh, tryRefreshFilters
<1>4. Moves(h) /\ job'[h] = j
  BY <1>1, <1>3 DEF Moves
<1>5. j.pc = "snapshot"
  BY <1>2 DEF Snapshot
<1> QED
  BY <1>4, <1>5 DEF handleFilteringRefresh, tryRefreshFilters, Request

(* The rest of the handlers' steps.                                        *)
LEMMA HandlerEffect ==
    ASSUME TypeInv, NEW h \in Handlers
    PROVE  /\ AddDownload(h) =>
                 /\ job[h].pc = "add" /\ Moves(h)
                 /\ \/ job'[h] = Idle /\ ~Updated(job[h].flt)
                    \/ /\ Updated(job[h].flt) /\ job'[h].pc = "insert"
                       /\ job'[h].flt = update(job[h].flt)
           /\ filterAdd(h) => /\ job[h].pc = "insert" /\ Unlocked /\ Moves(h)
                              /\ job'[h].pc \in {"idle", "enable"}
           /\ Enable(h) => job[h].pc = "enable" /\ Moves(h) /\ job'[h].pc = "idle"
<1>1. h \in Procs /\ job \in [Procs -> Jobs]
  BY DEF Procs, TypeInv
<1>2. ASSUME AddDownload(h)
      PROVE  /\ job[h].pc = "add" /\ Moves(h)
             /\ \/ job'[h] = Idle /\ ~Updated(job[h].flt)
                \/ /\ Updated(job[h].flt) /\ job'[h].pc = "insert"
                   /\ job'[h].flt = update(job[h].flt)
  <2>1. PICK j : /\ job' = [job EXCEPT ![h] = j]
                 /\ j = IF Updated(job[h].flt)
                        THEN [pc |-> "insert", array |-> job[h].array, flt |-> update(job[h].flt)]
                        ELSE Idle
    BY <1>2 DEF AddDownload
  <2>2. job'[h] = j /\ Moves(h)
    BY <1>1, <2>1 DEF Moves
  <2>3. job[h].pc = "add"
    BY <1>2 DEF AddDownload
  <2>4. Updated(job[h].flt) => j.pc = "insert" /\ j.flt = update(job[h].flt)
    BY <2>1
  <2> QED
    BY <2>1, <2>2, <2>3, <2>4
<1>3. ASSUME filterAdd(h)
      PROVE  /\ job[h].pc = "insert" /\ Unlocked /\ Moves(h)
             /\ job'[h].pc \in {"idle", "enable"}
  <2>1. PICK j \in {Idle, [pc |-> "enable"]} : job' = [job EXCEPT ![h] = j]
    BY <1>3, AddEffect
  <2>2. job'[h] = j /\ Moves(h)
    BY <1>1, <2>1 DEF Moves
  <2>3. j.pc \in {"idle", "enable"}
    BY DEF Idle
  <2> QED
    BY <1>3, <2>2, <2>3 DEF filterAdd
<1>4. ASSUME Enable(h)
      PROVE  job[h].pc = "enable" /\ Moves(h) /\ job'[h].pc = "idle"
  BY <1>1, <1>4 DEF Enable, Moves, Idle
<1> QED
  BY <1>2, <1>3, <1>4

(* The steps of a refresh between its start and its end.                   *)
LEMMA RefreshEffect ==
    ASSUME TypeInv, NEW p \in Procs
    PROVE  /\ listsToUpdate(p) =>
                 Moves(p) /\ job[p].pc = "snapshot" /\ job'[p].pc \in {"snapshot", "download"}
           /\ Download(p) => Moves(p) /\ job[p].pc = "download" /\ job'[p].pc = "download"
           /\ refreshFiltersArray(p) =>
                 Moves(p) /\ job[p].pc = "download" /\ job'[p].pc = "snapshot"
<1>1. ASSUME listsToUpdate(p)
      PROVE  Moves(p) /\ job[p].pc = "snapshot" /\ job'[p].pc \in {"snapshot", "download"}
  <2>1. PICK j2 \in Jobs :
             /\ job' = [job EXCEPT ![p] = j2] /\ JobOK(j2)
             /\ \/ j2 = Snapshot(Tail(job[p].arrays), job[p].force, job[p].updated, job[p].netErr)
                \/ j2.pc = "download"
    BY <1>1, SnapshotEffect
  <2>2. job'[p] = j2 /\ Moves(p)
    BY <2>1, JobUpdate DEF Moves
  <2> QED
    BY <1>1, <2>1, <2>2 DEF listsToUpdate, Snapshot
<1>2. ASSUME Download(p)
      PROVE  Moves(p) /\ job[p].pc = "download" /\ job'[p].pc = "download"
  <2>1. PICK n, copies, results : Downloads(p, n, copies, results)
    BY <1>2, DownloadEffect
  <2>2. job'[p] = Downloading(job[p], copies, results) /\ Moves(p)
    BY <2>1, JobUpdate DEF Moves, Downloads
  <2> QED
    BY <1>2, <2>2 DEF Download, Downloading
<1>3. ASSUME refreshFiltersArray(p)
      PROVE  Moves(p) /\ job[p].pc = "download" /\ job'[p].pc = "snapshot"
  <2>1. PICK j2 \in Jobs : job' = [job EXCEPT ![p] = j2] /\ JobOK(j2) /\ j2.pc = "snapshot"
    BY <1>3, MergeEffect
  <2>2. job'[p] = j2 /\ Moves(p)
    BY <2>1, JobUpdate DEF Moves
  <2> QED
    BY <1>3, <2>1, <2>2 DEF refreshFiltersArray
<1> QED
  BY <1>1, <1>2, <1>3

(* The timer of the updates loop.                                          *)
LEMMA PeriodicEffect ==
    ASSUME TypeInv, periodicallyRefreshFilters
    PROVE  /\ job["loop"].pc = "idle"
           /\ \/ job' = job
              \/ /\ Refreshable /\ Moves("loop")
                 /\ job'["loop"] = Snapshot(<<"block", "allow">>, FALSE, 0, FALSE)
<1>1. "loop" \in Procs /\ job \in [Procs -> Jobs]
  BY DEF Procs, TypeInv
<1> QED
  BY <1>1 DEF periodicallyRefreshFilters, tryRefreshFilters, Moves

-----------------------------------------------------------------------------
(* The locks.                                                              *)

(* A step of p keeps the locks: a handler begins only while no other one   *)
(* works, and a refresh only while there is none.                          *)
LEMMA LockMove ==
    ASSUME LockInv, NEW p \in Procs, Moves(p),
           p \in Handlers => job[p].pc # "idle" \/ controlLockFree \/ job'[p].pc = "idle",
           Refreshing(p)' => Refreshing(p) \/ Refreshable,
           p \in Handlers /\ job'[p].pc = "install" => job'[p].locked,
           p = "loop" => job'[p].pc \notin {"enable", "add", "insert"}
    PROVE  LockInv'
<1> Handlers \subseteq Procs /\ "loop" \in Procs /\ "loop" \notin Handlers
  BY ConstantsAssumption DEF Procs
<1>1. ASSUME NEW g \in Handlers, NEW h \in Handlers, job'[g].pc # "idle", job'[h].pc # "idle"
      PROVE  g = h
  BY <1>1 DEF LockInv, Moves, controlLockFree
<1>2. Refreshable => \A q \in Procs : ~Refreshing(q)
  BY DEF Refreshable, Refreshing, Unlocked
<1>3. \A q \in Procs : q # p => (Refreshing(q)' <=> Refreshing(q))
  BY DEF Moves, Refreshing
<1>4. ASSUME NEW q \in Procs, NEW r \in Procs, Refreshing(q)', Refreshing(r)'
      PROVE  q = r
  BY <1>2, <1>3, <1>4 DEF LockInv
<1>5. \A h \in Handlers : job'[h].pc = "install" => job'[h].locked
  BY DEF LockInv, Moves
<1>6. job'["loop"].pc \notin {"enable", "add", "insert"}
  BY DEF LockInv, Moves
<1> QED
  BY <1>1, <1>4, <1>5, <1>6 DEF LockInv

(* One handler and one refresh work at a time, and only the updates loop   *)
(* builds an engine without filtersMu.                                     *)
LEMMA LockStep ==
    ASSUME TypeInv, LockInv, [Next]_vars
    PROVE  LockInv'
<1> Handlers \subseteq Procs /\ "loop" \in Procs /\ "loop" \notin Handlers
  BY ConstantsAssumption DEF Procs
<1>1. ASSUME NEW p \in Procs, initFiltering(p)
      PROVE  LockInv'
  <2>1. /\ job[p].pc = "install" /\ job'[p].pc = "idle"
        /\ \A q \in Procs : q # p => job'[q].pc = job[q].pc
        /\ \A q \in Procs : q # p /\ job[q].pc = "install" => job'[q].locked = job[q].locked
    BY <1>1, InstallEffect DEF Idle
  <2>2. \A q \in Procs : Refreshing(q)' => Refreshing(q)
    BY <2>1 DEF Refreshing
  <2>3. \A q \in Procs : job'[q].pc # "idle" => job[q].pc # "idle"
    BY <2>1
  <2>4. \A h \in Handlers : job'[h].pc = "install" => job'[h].locked
    BY <2>1 DEF LockInv
  <2>5. job'["loop"].pc \notin {"enable", "add", "insert"}
    BY <2>1 DEF LockInv
  <2> QED
    BY <2>2, <2>3, <2>4, <2>5 DEF LockInv
<1>2. ASSUME NEW h \in Handlers,
             \/ \E a \in Arrays, url \in Urls :
                   \/ handleFilteringAddURL(h, a, url)
                   \/ handleFilteringRemoveURL(h, a, url)
                   \/ \E new \in NewUrl[url], enabled \in BOOLEAN :
                         handleFilteringSetURL(h, a, url, new, enabled)
             \/ handleFilteringSetRules(h)
             \/ handleFilteringConfig(h)
      PROVE  LockInv'
  <2>1. controlLockFree /\ Moves(h) /\ job'[h].pc \in {"add", "enable", "idle"}
    BY <1>2, AddURLStart, RemoveStart, SetURLStart, SettingsStart
  <2> QED
    BY <2>1, LockMove DEF Refreshing
<1>3. ASSUME NEW h \in Handlers, NEW a \in Arrays, handleFilteringRefresh(h, a)
      PROVE  LockInv'
  <2>1. controlLockFree /\ Refreshable /\ Moves(h) /\ job'[h].pc = "snapshot"
    BY <1>3, RefreshStart
  <2> QED
    BY <2>1, LockMove
<1>4. ASSUME NEW h \in Handlers, AddDownload(h) \/ filterAdd(h) \/ Enable(h)
      PROVE  LockInv'
  <2>1. Moves(h) /\ job[h].pc # "idle" /\ job'[h].pc \in {"idle", "insert", "enable"}
    BY <1>4, HandlerEffect DEF Idle
  <2> QED
    BY <2>1, LockMove DEF Refreshing
<1>5. ASSUME NEW p \in Procs, listsToUpdate(p) \/ Download(p) \/ refreshFiltersArray(p)
      PROVE  LockInv'
  <2>1. Moves(p) /\ Refreshing(p) /\ job[p].pc # "idle" /\ job'[p].pc \in {"snapshot", "download"}
    BY <1>5, RefreshEffect DEF Refreshing
  <2> QED
    BY <2>1, LockMove
<1>6. ASSUME periodicallyRefreshFilters
      PROVE  LockInv'
  <2>1. CASE job' = job
    BY <2>1 DEF LockInv, Refreshing
  <2>2. CASE Refreshable /\ Moves("loop") /\ job'["loop"].pc = "snapshot"
    BY <2>2, LockMove
  <2> QED
    BY <1>6, <2>1, <2>2, PeriodicEffect DEF Snapshot
<1>7. ASSUME updatesLoop
      PROVE  LockInv'
  <2>1. /\ job["loop"].pc = "idle" /\ job'["loop"].pc = "install" /\ ~job'["loop"].locked
        /\ \A q \in Procs : q # "loop" => job'[q].pc = job[q].pc
        /\ \A q \in Procs : q # "loop" /\ job[q].pc = "install" => job'[q].locked = job[q].locked
    BY <1>7, LoopOpens
  <2>2. \A q \in Procs : Refreshing(q)' => Refreshing(q)
    BY <2>1 DEF Refreshing
  <2> QED
    BY <2>1, <2>2 DEF LockInv
<1>8. ASSUME NEW p \in Procs, refreshFiltersIntl(p)
      PROVE  LockInv'
  <2>1. /\ job[p].pc = "snapshot"
        /\ job'[p].pc = "idle" \/ (job'[p].pc = "install" /\ job'[p].locked)
        /\ \A q \in Procs : q # p => job'[q].pc = job[q].pc
        /\ \A q \in Procs : q # p /\ job[q].pc = "install" => job'[q].locked = job[q].locked
    BY <1>8, RefreshEnds DEF Idle
  <2>2. \A q \in Procs : Refreshing(q)' => Refreshing(q)
    BY <2>1 DEF Refreshing
  <2>3. \A q \in Procs : job'[q].pc # "idle" => job[q].pc # "idle"
    BY <2>1
  <2>4. \A h \in Handlers : job'[h].pc = "install" => job'[h].locked
    BY <2>1 DEF LockInv
  <2>5. job'["loop"].pc \notin {"enable", "add", "insert"}
    BY <2>1 DEF LockInv
  <2> QED
    BY <2>2, <2>3, <2>4, <2>5 DEF LockInv
<1>9. ASSUME New
      PROVE  LockInv'
  <2>1. \A q \in Procs : job'[q].pc = "idle"
    BY <1>9 DEF New, Idle
  <2> QED
    BY <2>1 DEF LockInv, Refreshing
<1>10. ASSUME job' = job
       PROVE  LockInv'
  BY <1>10 DEF LockInv, Refreshing
<1>11. (\E o \in Outages : RemoteChanges(o[1], o[2])) \/ TimePasses \/ UNCHANGED vars => job' = job
  BY DEF RemoteChanges, TimePasses, vars
<1> QED
  BY <1>1, <1>2, <1>3, <1>4, <1>5, <1>6, <1>7, <1>8, <1>9, <1>10, <1>11
     DEF Next, Edit, HandlerStep, LoopStep, RefreshStep

-----------------------------------------------------------------------------
(* URLs and IDs.                                                           *)

(* Steps after which the lists being added are still the same.             *)
AddsKept ==
    \A h \in Handlers : job'[h].pc \in {"add", "insert"} =>
        job[h].pc \in {"add", "insert"} /\ job'[h].flt.id = job[h].flt.id

(* Lists that keep their URLs and IDs stay apart.                          *)
LEMMA UniqueKept ==
    ASSUME TypeInv, UniqueInv, KeptLists, AddsKept, nextID' = nextID,
           saved' = saved \/ Loadable(saved'.lists, nextID)
    PROVE  UniqueInv'
<1>1. SourcesUnique'
  BY DEF SourcesUnique, UniqueInv, KeptLists
<1>2. \A a \in Arrays : \A i \in DOMAIN lists'[a] : lists'[a][i].id < nextID'
  BY DEF UniqueInv, IDsInv, KeptLists
<1>3. ASSUME NEW h \in Handlers, job'[h].pc \in {"add", "insert"}
      PROVE  /\ job'[h].flt.id < nextID'
             /\ \A a \in Arrays : \A i \in DOMAIN lists'[a] : lists'[a][i].id # job'[h].flt.id
  BY <1>3 DEF UniqueInv, IDsInv, KeptLists, AddsKept
<1>4. Loadable(saved'.lists, nextID')
  BY DEF UniqueInv, IDsInv
<1> QED
  BY <1>1, <1>2, <1>3, <1>4 DEF UniqueInv, IDsInv, Loadable

(* What WriteDiskConfig saves can be loaded.                               *)
LEMMA DiskLoadable ==
    ASSUME NEW ls \in Lists, NEW next, rules \in Nat, on \in BOOLEAN,
           UniqueLists(ls), IDsBelow(ls, next)
    PROVE  Loadable(WriteDiskConfig(ls).lists, next)
<1>1. PICK out : out = WriteDiskConfig(ls).lists
  OBVIOUS
<1>2. /\ out \in Lists
      /\ \A a \in Arrays :
            /\ DOMAIN out[a] = DOMAIN ls[a]
            /\ \A i \in DOMAIN ls[a] : out[a][i].id = ls[a][i].id /\ out[a][i].url = ls[a][i].url
  BY <1>1, DiskFacts
<1>3. "block" \in Arrays /\ "allow" \in Arrays
  BY DEF Arrays
<1>4. \A i \in DOMAIN out["block"], j \in DOMAIN out["allow"] :
         out["block"][i].url # out["allow"][j].url /\ out["block"][i].id # out["allow"][j].id
  BY <1>2, <1>3 DEF UniqueLists
<1>5. \A a \in Arrays : \A i \in DOMAIN out[a] : out[a][i].id < next
  BY <1>2 DEF IDsBelow
<1> QED
  BY <1>1, <1>2, <1>4, <1>5 DEF Loadable, Lists

(* Every step keeps the URLs and IDs of the lists apart.                   *)
LEMMA UniqueStep ==
    ASSUME TypeInv, LockInv, UniqueInv, [Next]_vars
    PROVE  UniqueInv'
<1> Handlers \subseteq Procs /\ "loop" \in Procs /\ "loop" \notin Handlers
  BY ConstantsAssumption DEF Procs
<1>1. ASSUME NEW p \in Procs, initFiltering(p)
      PROVE  UniqueInv'
  <2>1. AddsKept
    BY <1>1, InstallEffect DEF AddsKept, Idle
  <2> QED
    BY <1>1, <2>1, UniqueKept, UnchangedKept DEF initFiltering, conf
<1>2. ASSUME NEW h \in Handlers, Enable(h)
      PROVE  UniqueInv'
  <2>1. AddsKept
    BY <1>2, HandlerEffect DEF AddsKept, Moves
  <2>2. Loadable(WriteDiskConfig(lists).lists, nextID)
    BY DiskLoadable DEF TypeInv, UniqueInv, IDsInv, SourcesUnique, UniqueLists, IDsBelow
  <2> QED
    BY <1>2, <2>1, <2>2, UniqueKept, UnchangedKept DEF Enable
<1>3. ASSUME updatesLoop
      PROVE  UniqueInv'
  <2>1. AddsKept
    BY <1>3, LoopOpens DEF AddsKept
  <2> QED
    BY <1>3, <2>1, UniqueKept, UnchangedKept DEF updatesLoop, conf
<1>4. ASSUME NEW h \in Handlers, NEW a \in Arrays, NEW url \in Urls, handleFilteringAddURL(h, a, url)
      PROVE  UniqueInv'
  <2>1. /\ controlLockFree /\ Moves(h) /\ job'[h].pc = "add" /\ job'[h].flt.id = nextID
        /\ nextID' = nextID + 1 /\ nextID \in Nat /\ lists' = lists /\ saved' = saved
    BY <1>4, AddURLStart DEF TypeInv, handleFilteringAddURL, conf
  <2>2. SourcesUnique'
    BY <2>1 DEF SourcesUnique, UniqueInv
  <2>3. \A b \in Arrays : \A i \in DOMAIN lists[b] :
           lists[b][i].id \in Nat /\ lists[b][i].id < nextID
    BY ListsFacts DEF UniqueInv, IDsInv
  <2>4. \A b \in Arrays : \A i \in DOMAIN lists[b] :
           lists[b][i].id < nextID + 1 /\ lists[b][i].id # nextID
    BY <2>1, <2>3
  <2>5. \A g \in Handlers : job'[g].pc \in {"add", "insert"} => g = h
    BY <2>1 DEF controlLockFree, Moves
  <2>6. Loadable(saved.lists, nextID + 1)
    <3>1. Loadable(saved.lists, nextID)
      BY DEF UniqueInv, IDsInv
    <3>2. ASSUME NEW b \in Arrays, NEW i \in DOMAIN saved.lists[b]
          PROVE  saved.lists[b][i].id < nextID + 1
      <4>1. saved.lists[b] \in Seq(FilterYAML) /\ saved.lists[b][i].id < nextID
        BY <3>1 DEF Loadable
      <4>2. saved.lists[b][i] \in FilterYAML
        BY <4>1
      <4>3. saved.lists[b][i].id \in Nat
        BY <4>2 DEF FilterYAML
      <4> QED
        BY <2>1, <4>1, <4>3
    <3> QED
      BY <3>1, <3>2 DEF Loadable
  <2>7. nextID < nextID + 1
    BY <2>1
  <2>8. \A g \in Handlers : job'[g].pc \in {"add", "insert"} =>
          /\ job'[g].flt.id < nextID'
          /\ \A b \in Arrays : \A i \in DOMAIN lists'[b] : lists'[b][i].id # job'[g].flt.id
    BY <2>1, <2>4, <2>5, <2>7
  <2>9. IDsInv'
    BY <2>1, <2>4, <2>6, <2>8 DEF IDsInv, Loadable
  <2> QED
    BY <2>2, <2>9 DEF UniqueInv
<1>5. ASSUME NEW h \in Handlers, AddDownload(h)
      PROVE  UniqueInv'
  <2>1. job[h] \in AddJobs
    BY <1>5, JobKinds DEF AddDownload
  <2>2. update(job[h].flt).id = job[h].flt.id
    BY <2>1, UpdateFacts DEF AddJobs
  <2>3. AddsKept
    BY <1>5, <2>2, HandlerEffect DEF AddsKept, Moves, Idle
  <2> QED
    BY <1>5, <2>3, UniqueKept, UnchangedKept DEF AddDownload, conf
<1>6. ASSUME NEW h \in Handlers, filterAdd(h)
      PROVE  UniqueInv'
  <2>1. /\ job[h].pc = "insert" /\ Moves(h) /\ job'[h].pc \in {"idle", "enable"}
        /\ nextID' = nextID /\ saved' = saved
    BY <1>6, HandlerEffect DEF filterAdd
  <2>2. AddsKept
    BY <2>1 DEF AddsKept, Moves
  <2>3. CASE lists' = lists
    BY <2>1, <2>2, <2>3, UniqueKept, UnchangedKept
  <2>4. CASE lists' # lists
    <3> DEFINE a == job[h].array
               flt == job[h].flt
               n == Len(lists[a]) + 1
    <3>1. /\ ~filterExists(flt.url) /\ job[h] \in AddJobs
          /\ DOMAIN lists'[a] = 1..n /\ lists'[a][n] = flt
          /\ \A i \in DOMAIN lists[a] : lists'[a][i] = lists[a][i]
          /\ \A b \in Arrays : b # a => lists'[b] = lists[b]
      BY <1>6, <2>4, AddEffect
    <3>2. a \in Arrays
      BY <3>1 DEF AddJobs
    <3>3. DOMAIN lists[a] = 1..(n - 1) /\ n - 1 \in Nat /\ n \in Nat
      BY <3>2, ListsFacts
    <3> HIDE DEF a, flt, n
    <3>4. \A i \in DOMAIN lists'[a] : i = n \/ i \in DOMAIN lists[a]
      BY <3>1, <3>3
    <3>5. \A b \in Arrays : \A i \in DOMAIN lists[b] :
             lists[b][i].url # flt.url /\ lists[b][i].id # flt.id
      BY <2>1, <3>1 DEF filterExists, UniqueInv, IDsInv, flt
    <3>6. \A b \in Arrays : \A i \in DOMAIN lists'[b] :
             \/ b = a /\ i = n /\ lists'[b][i] = flt
             \/ i \in DOMAIN lists[b] /\ lists'[b][i] = lists[b][i]
      BY <3>1, <3>4
    <3>7. SourcesUnique'
      BY <3>5, <3>6 DEF SourcesUnique, UniqueInv
    <3>8. \A b \in Arrays : \A i \in DOMAIN lists'[b] : lists'[b][i].id < nextID'
      BY <2>1, <3>6 DEF UniqueInv, IDsInv, flt
    <3>9. \A g \in Handlers : job'[g].pc \notin {"add", "insert"}
      BY <2>1 DEF LockInv, Moves
    <3>10. Loadable(saved.lists, nextID)
      BY DEF UniqueInv, IDsInv
    <3>11. IDsInv'
      BY <2>1, <3>8, <3>9, <3>10 DEF IDsInv, Loadable
    <3> QED
      BY <3>7, <3>11 DEF UniqueInv
  <2> QED
    BY <2>3, <2>4
<1>7. ASSUME NEW h \in Handlers, NEW a \in Arrays, NEW url \in Urls, handleFilteringRemoveURL(h, a, url)
      PROVE  UniqueInv'
  <2>1. /\ controlLockFree /\ Moves(h) /\ job'[h].pc = "enable"
        /\ nextID' = nextID /\ saved' = saved
    BY <1>7, RemoveStart DEF handleFilteringRemoveURL
  <2>2. \A g \in Handlers : job'[g].pc \notin {"add", "insert"}
    BY <2>1 DEF controlLockFree, Moves
  <2>3. CASE lists' = lists
    BY <2>1, <2>2, <2>3, UniqueKept, UnchangedKept DEF AddsKept
  <2>4. CASE lists' # lists
    <3>1. PICK i \in DOMAIN lists[a] : Removes(a, i)
      BY <1>7, <2>4, RemoveEffect
    <3>2. PICK m \in [DOMAIN lists'[a] -> DOMAIN lists[a]] :
             /\ \A k \in DOMAIN lists'[a] : lists'[a][k] = lists[a][m[k]]
             /\ \A k, l \in DOMAIN lists'[a] : m[k] = m[l] => k = l
      BY <3>1 DEF Removes
    <3>3. \A b \in Arrays : b # a => lists'[b] = lists[b]
      BY <3>1 DEF Removes
    <3>4. SourcesUnique'
      <4>1. ASSUME NEW b \in Arrays, NEW c \in Arrays, NEW k \in DOMAIN lists'[b],
                   NEW l \in DOMAIN lists'[c],
                   lists'[b][k].url = lists'[c][l].url \/ lists'[b][k].id = lists'[c][l].id
            PROVE  b = c /\ k = l
        <5>1. CASE b = a /\ c = a
          BY <3>2, <4>1, <5>1 DEF UniqueInv, SourcesUnique
        <5>2. CASE b = a /\ c # a
          BY <3>2, <3>3, <4>1, <5>2 DEF UniqueInv, SourcesUnique
        <5>3. CASE b # a /\ c = a
          BY <3>2, <3>3, <4>1, <5>3 DEF UniqueInv, SourcesUnique
        <5>4. CASE b # a /\ c # a
          BY <3>3, <4>1, <5>4 DEF UniqueInv, SourcesUnique
        <5> QED
          BY <5>1, <5>2, <5>3, <5>4
      <4> QED
        BY <4>1 DEF SourcesUnique
    <3>5. \A b \in Arrays : \A k \in DOMAIN lists'[b] : lists'[b][k].id < nextID'
      BY <2>1, <3>2, <3>3 DEF UniqueInv, IDsInv
    <3>6. Loadable(saved.lists, nextID)
      BY DEF UniqueInv, IDsInv
    <3>7. IDsInv'
      BY <2>1, <2>2, <3>5, <3>6 DEF IDsInv, Loadable
    <3> QED
      BY <3>4, <3>7 DEF UniqueInv
  <2> QED
    BY <2>3, <2>4
<1>8. ASSUME NEW h \in Handlers, NEW a \in Arrays, NEW url \in Urls, NEW new \in NewUrl[url],
             NEW enabled \in BOOLEAN, handleFilteringSetURL(h, a, url, new, enabled)
      PROVE  UniqueInv'
  <2>1. /\ controlLockFree /\ Moves(h) /\ job'[h].pc \in {"enable", "idle"}
        /\ new # url => ~filterExists(new)
        /\ nextID' = nextID
    BY <1>8, SetURLStart DEF handleFilteringSetURL
  <2>2. new \in Urls
    BY ConstantsAssumption
  <2>3. PICK i \in DOMAIN lists[a] : \E res :
              /\ res = SetProperties(lists[a][i], new, enabled)
              /\ lists[a][i].url = url
              /\ saved' = IF res.err THEN saved ELSE WriteDiskConfig(lists')
              /\ lists' \in Lists
              /\ DOMAIN lists'[a] = DOMAIN lists[a]
              /\ lists'[a][i] = res.flt
              /\ \A k \in DOMAIN lists[a] : k # i => lists'[a][k] = lists[a][k]
              /\ \A b \in Arrays : b # a => lists'[b] = lists[b]
    BY <1>8, <2>2, SetURLEffect
  <2>4. PICK res :
              /\ res = SetProperties(lists[a][i], new, enabled)
              /\ lists[a][i].url = url
              /\ saved' = IF res.err THEN saved ELSE WriteDiskConfig(lists')
              /\ lists' \in Lists
              /\ DOMAIN lists'[a] = DOMAIN lists[a]
              /\ lists'[a][i] = res.flt
              /\ \A k \in DOMAIN lists[a] : k # i => lists'[a][k] = lists[a][k]
              /\ \A b \in Arrays : b # a => lists'[b] = lists[b]
    BY <2>3
  <2>5. lists'[a][i].id = lists[a][i].id /\ lists'[a][i].url \in {url, new}
    BY <2>2, <2>4, ListsFacts, SetPropertiesFacts
  <2>6. \A b \in Arrays : \A k \in DOMAIN lists'[b] :
           /\ k \in DOMAIN lists[b]
           /\ lists'[b][k].id = lists[b][k].id
           /\ ~(b = a /\ k = i) => lists'[b][k] = lists[b][k]
    BY <2>4, <2>5
  <2>7. SourcesUnique'
    <3>1. \A b \in Arrays : \A k \in DOMAIN lists[b] :
             ~(b = a /\ k = i) => lists[b][k].url # lists'[a][i].url
      BY <2>1, <2>4, <2>5 DEF UniqueInv, SourcesUnique, filterExists
    <3> QED
      BY <2>6, <3>1 DEF UniqueInv, SourcesUnique
  <2>8. \A b \in Arrays : \A k \in DOMAIN lists'[b] : lists'[b][k].id < nextID
    BY <2>6 DEF UniqueInv, IDsInv
  <2>9. Loadable(saved'.lists, nextID)
    <3>1. PICK ls \in Lists : ls = lists'
      BY <2>4
    <3>2. UniqueLists(ls) /\ IDsBelow(ls, nextID)
      BY <2>7, <2>8, <3>1 DEF UniqueLists, SourcesUnique, IDsBelow
    <3>3. Loadable(WriteDiskConfig(ls).lists, nextID)
      BY <3>2, DiskLoadable DEF TypeInv
    <3> QED
      BY <2>4, <3>1, <3>3 DEF UniqueInv, IDsInv
  <2>10. \A g \in Handlers : job'[g].pc \notin {"add", "insert"}
    BY <2>1 DEF controlLockFree, Moves
  <2>11. IDsInv'
    BY <2>1, <2>8, <2>9, <2>10 DEF IDsInv, Loadable
  <2> QED
    BY <2>7, <2>11 DEF UniqueInv
<1>9. ASSUME NEW h \in Handlers, handleFilteringSetRules(h) \/ handleFilteringConfig(h)
      PROVE  UniqueInv'
  <2>1. AddsKept
    BY <1>9, SettingsStart DEF AddsKept, Moves
  <2> QED
    BY <1>9, <2>1, UniqueKept, UnchangedKept DEF handleFilteringSetRules, handleFilteringConfig
<1>10. ASSUME NEW h \in Handlers, NEW a \in Arrays, handleFilteringRefresh(h, a)
       PROVE  UniqueInv'
  <2>1. AddsKept
    BY <1>10, RefreshStart DEF AddsKept, Moves
  <2> QED
    BY <1>10, <2>1, UniqueKept, UnchangedKept DEF handleFilteringRefresh, conf
<1>11. ASSUME periodicallyRefreshFilters
       PROVE  UniqueInv'
  <2>1. AddsKept
    BY <1>11, PeriodicEffect DEF AddsKept, Moves
  <2> QED
    BY <1>11, <2>1, UniqueKept, UnchangedKept DEF periodicallyRefreshFilters, conf
<1>12. ASSUME NEW p \in Procs, listsToUpdate(p) \/ Download(p) \/ refreshFiltersArray(p)
       PROVE  UniqueInv'
  <2>1. AddsKept
    BY <1>12, RefreshEffect DEF AddsKept, Moves
  <2>2. KeptLists
    BY <1>12, MergeEffect, UnchangedKept DEF listsToUpdate, Download, conf
  <2> QED
    BY <1>12, <2>1, <2>2, UniqueKept DEF listsToUpdate, Download, refreshFiltersArray, conf
<1>13. ASSUME NEW p \in Procs, refreshFiltersIntl(p)
       PROVE  UniqueInv'
  <2>1. AddsKept
    BY <1>13, RefreshEnds DEF AddsKept, Idle
  <2> QED
    BY <1>13, <2>1, UniqueKept, UnchangedKept DEF refreshFiltersIntl, conf
<1>14. ASSUME (\E o \in Outages : RemoteChanges(o[1], o[2])) \/ TimePasses \/ UNCHANGED vars
       PROVE  UniqueInv'
  <2>1. AddsKept
    BY <1>14 DEF AddsKept, RemoteChanges, TimePasses, vars
  <2>2. KeptLists
    BY <1>14, TimeEffect, UnchangedKept DEF RemoteChanges, conf, vars
  <2> QED
    BY <1>14, <2>1, <2>2, UniqueKept DEF RemoteChanges, TimePasses, conf, vars
<1>15. ASSUME New
       PROVE  UniqueInv'
  <2>1. PICK new : new = Loaded(saved.lists, nextID)
    OBVIOUS
  <2>2. lists' = new.lists /\ nextID' = new.next /\ saved' = saved
    BY <1>15, <2>1 DEF New
  <2>3. Loadable(saved.lists, nextID) /\ files \in Files /\ nextID \in Nat
    BY DEF UniqueInv, IDsInv, TypeInv
  <2>4. /\ new.next \in Nat /\ nextID <= new.next
        /\ UniqueLists(new.lists) /\ IDsBelow(new.lists, new.next)
    BY <2>1, <2>3, LoadedFacts
  <2>5. SourcesUnique' /\ \A a \in Arrays : \A i \in DOMAIN lists'[a] : lists'[a][i].id < nextID'
    BY <2>2, <2>4 DEF SourcesUnique, UniqueLists, IDsBelow
  <2>6. \A g \in Handlers : job'[g].pc \notin {"add", "insert"}
    BY <1>15 DEF New, Idle
  <2>7. Loadable(saved.lists, new.next)
    <3>1. ASSUME NEW b \in Arrays, NEW i \in DOMAIN saved.lists[b]
          PROVE  saved.lists[b][i].id < new.next
      <4>1. saved.lists[b] \in Seq(FilterYAML) /\ saved.lists[b][i].id < nextID
        BY <2>3 DEF Loadable
      <4>2. saved.lists[b][i] \in FilterYAML
        BY <4>1
      <4>3. saved.lists[b][i].id \in Nat
        BY <4>2 DEF FilterYAML
      <4> QED
        BY <2>3, <2>4, <4>1, <4>3
    <3> QED
      BY <2>3, <3>1 DEF Loadable
  <2>8. IDsInv'
    BY <2>2, <2>5, <2>6, <2>7 DEF IDsInv, Loadable
  <2> QED
    BY <2>5, <2>8 DEF UniqueInv
<1> QED
  BY <1>1, <1>2, <1>3, <1>4, <1>5, <1>6, <1>7, <1>8, <1>9, <1>10, <1>11, <1>12, <1>13, <1>14,
     <1>15 DEF Next, Edit, HandlerStep, LoopStep, RefreshStep

(* The first lists are those New makes of the configuration file.          *)
LEMMA InitFacts ==
    ASSUME Init
    PROVE  TypeInv /\ LockInv /\ UniqueInv
<1>1. files = <<>> /\ files \in Files
  <2>1. files = <<>> /\ <<>> \in [{} -> Sums] /\ {} \in SUBSET Nat
    BY DEF Init
  <2> QED
    BY <2>1 DEF Files
<1>2. FirstID \in Nat /\ Loadable(FirstLists, FirstID)
  BY ConstantsAssumption
<1>3. PICK new : new = Loaded(FirstLists, FirstID)
  OBVIOUS
<1>4. /\ new.lists \in Lists /\ new.next \in Nat /\ FirstID <= new.next
      /\ UniqueLists(new.lists) /\ IDsBelow(new.lists, new.next)
  BY <1>1, <1>2, <1>3, LoadedFacts
<1>5. lists = new.lists /\ nextID = new.next /\ saved = [lists |-> FirstLists, rules |-> 0, on |-> TRUE]
  BY <1>3 DEF Init
<1>6. FirstLists \in Lists
  BY <1>2 DEF Loadable, Lists
<1>7. job = [p \in Procs |-> Idle] /\ \A p \in Procs : job[p].pc = "idle" /\ job[p] \in Jobs
  BY NewJobs DEF Init
<1>8. engine \in Engines
  BY DEF Init, Engines, Rules
<1>9. \A p \in Procs : JobOK(job[p])
  BY <1>7 DEF JobOK
<1>10. job \in [Procs -> Jobs]
  BY <1>7
<1>11. saved \in [lists : Lists, rules : Nat, on : BOOLEAN]
  BY <1>5, <1>6
<1>12. rules \in Nat /\ on \in BOOLEAN /\ remote \in [Urls -> Documents \cup {Down}] /\ chan = <<>>
  BY ConstantsAssumption DEF Init
<1>13. TypeInv
  BY <1>1, <1>4, <1>5, <1>8, <1>9, <1>10, <1>11, <1>12 DEF TypeInv
<1>14. LockInv
  BY <1>7 DEF LockInv, Procs, Refreshing
<1>15. SourcesUnique
  BY <1>4, <1>5 DEF SourcesUnique, UniqueLists
<1>16. Loadable(saved.lists, nextID)
  <2>1. ASSUME NEW a \in Arrays, NEW i \in DOMAIN FirstLists[a]
        PROVE  FirstLists[a][i].id < new.next
    <3>1. FirstLists[a] \in Seq(FilterYAML) /\ FirstLists[a][i].id < FirstID
      BY <1>2 DEF Loadable
    <3>2. FirstLists[a][i] \in FilterYAML
      BY <3>1
    <3>3. FirstLists[a][i].id \in Nat
      BY <3>2 DEF FilterYAML
    <3> QED
      BY <1>2, <1>4, <3>1, <3>3
  <2> QED
    BY <1>2, <1>5, <2>1 DEF Loadable
<1>17. IDsInv
  BY <1>4, <1>5, <1>7, <1>16 DEF IDsInv, IDsBelow, Procs
<1> QED
  BY <1>13, <1>14, <1>15, <1>17 DEF UniqueInv

(* The types, the locks and the IDs.                                       *)
BasicInv == TypeInv /\ LockInv /\ UniqueInv

(* Types, locks and IDs are kept by every step.                            *)
LEMMA BasicStep ==
    ASSUME BasicInv, [Next]_vars
    PROVE  BasicInv'
<1>1. TypeInv /\ LockInv /\ UniqueInv /\ Loadable(saved.lists, nextID)
  BY DEF BasicInv, UniqueInv, IDsInv
<1> QED
  BY <1>1, TypeStep, LockStep, UniqueStep DEF BasicInv

(* filterExists, deduplicateFilters and idGenerator keep the URLs and the  *)
(* files of lists apart, for any configuration file that can be loaded and *)
(* any edits, refreshes and restarts.                                      *)
THEOREM SourcesApart == Spec => []SourcesUnique
<1>1. Init => BasicInv
  BY InitFacts DEF BasicInv
<1>2. BasicInv /\ [Next]_vars => BasicInv'
  BY BasicStep
<1>3. BasicInv => SourcesUnique
  BY DEF BasicInv, UniqueInv
<1> QED
  BY <1>1, <1>2, <1>3, PTL DEF Spec

(* No step but a restart makes a list with an ID that no list has.         *)
LEMMA NoNewIDs ==
    ASSUME TypeInv, [Next]_vars, ~New, NEW a \in Arrays, NEW i \in DOMAIN lists'[a]
    PROVE  \/ \E b \in Arrays : \E k \in DOMAIN lists[b] : lists[b][k].id = lists'[a][i].id
           \/ \E h \in Handlers : job[h].pc = "insert" /\ job[h].flt.id = lists'[a][i].id
<1> Handlers \subseteq Procs /\ "loop" \in Procs
  BY DEF Procs
<1> DEFINE Goal == \/ \E b \in Arrays : \E k \in DOMAIN lists[b] : lists[b][k].id = lists'[a][i].id
                   \/ \E h \in Handlers : job[h].pc = "insert" /\ job[h].flt.id = lists'[a][i].id
<1>1. ASSUME KeptLists PROVE Goal
  BY <1>1 DEF KeptLists
<1>2. ASSUME lists' = lists PROVE Goal
  BY <1>2
<1>3. ASSUME NEW h \in Handlers, filterAdd(h)
      PROVE  Goal
  <2>1. CASE lists' = lists
    BY <1>2, <2>1
  <2>2. CASE lists' # lists
    <3> DEFINE c == job[h].array
    <3>1. /\ job[h] \in AddJobs
          /\ DOMAIN lists'[c] = 1..(Len(lists[c]) + 1)
          /\ lists'[c][Len(lists[c]) + 1] = job[h].flt
          /\ \A k \in DOMAIN lists[c] : lists'[c][k] = lists[c][k]
          /\ \A b \in Arrays : b # c => lists'[b] = lists[b]
      BY <1>3, <2>2, AddEffect
    <3>2. c \in Arrays /\ job[h].pc = "insert"
      BY <1>3, <3>1 DEF AddJobs, filterAdd
    <3>3. DOMAIN lists[c] = 1..Len(lists[c]) /\ Len(lists[c]) \in Nat
      BY <3>2, ListsFacts
    <3> HIDE DEF c
    <3>4. CASE a # c
      BY <3>1, <3>4
    <3>5. CASE a = c
      <4>1. i \in DOMAIN lists[c] \/ i = Len(lists[c]) + 1
        BY <3>1, <3>3, <3>5
      <4> QED
        BY <3>1, <3>2, <3>5, <4>1
    <3> QED
      BY <3>4, <3>5
  <2> QED
    BY <2>1, <2>2
<1>4. ASSUME NEW h \in Handlers, NEW c \in Arrays, NEW url \in Urls, handleFilteringRemoveURL(h, c, url)
      PROVE  Goal
  <2>1. CASE lists' = lists
    BY <1>2, <2>1
  <2>2. CASE lists' # lists
    <3>1. PICK k \in DOMAIN lists[c] : Removes(c, k)
      BY <1>4, <2>2, RemoveEffect
    <3>2. PICK m \in [DOMAIN lists'[c] -> DOMAIN lists[c]] :
             \A l \in DOMAIN lists'[c] : lists'[c][l] = lists[c][m[l]]
      BY <3>1 DEF Removes
    <3>3. \A b \in Arrays : b # c => lists'[b] = lists[b]
      BY <3>1 DEF Removes
    <3>4. CASE a # c
      BY <3>3, <3>4
    <3>5. CASE a = c
      BY <3>2, <3>5
    <3> QED
      BY <3>4, <3>5
  <2> QED
    BY <2>1, <2>2
<1>5. ASSUME NEW h \in Handlers, NEW c \in Arrays, NEW url \in Urls, NEW new \in NewUrl[url],
             NEW enabled \in BOOLEAN, handleFilteringSetURL(h, c, url, new, enabled)
      PROVE  Goal
  <2>1. new \in Urls
    BY ConstantsAssumption
  <2>2. PICK k \in DOMAIN lists[c] :
              /\ DOMAIN lists'[c] = DOMAIN lists[c]
              /\ lists'[c][k] = SetProperties(lists[c][k], new, enabled).flt
              /\ \A l \in DOMAIN lists[c] : l # k => lists'[c][l] = lists[c][l]
              /\ \A b \in Arrays : b # c => lists'[b] = lists[b]
    BY <1>5, <2>1, SetURLEffect
  <2>3. lists'[c][k].id = lists[c][k].id
    BY <2>1, <2>2, ListsFacts, SetPropertiesFacts
  <2> QED
    BY <2>2, <2>3
<1>6. ASSUME NEW p \in Procs, refreshFiltersArray(p)
      PROVE  Goal
  BY <1>1, <1>6, MergeEffect
<1>7. ASSUME TimePasses
      PROVE  Goal
  BY <1>1, <1>7, TimeEffect
<1>8. \A p \in Procs :
         listsToUpdate(p) \/ Download(p) \/ refreshFiltersIntl(p) \/ initFiltering(p) => lists' = lists
  BY DEF listsToUpdate, Download, refreshFiltersIntl, initFiltering, conf
<1>9. \A h \in Handlers : AddDownload(h) \/ Enable(h) => lists' = lists
  BY DEF AddDownload, Enable, conf
<1>10. \A h \in Handlers, c \in Arrays, url \in Urls :
          handleFilteringAddURL(h, c, url) \/ handleFilteringRefresh(h, c) => lists' = lists
  BY DEF handleFilteringAddURL, handleFilteringRefresh, conf
<1>11. \A h \in Handlers : handleFilteringSetRules(h) \/ handleFilteringConfig(h) => lists' = lists
  BY DEF handleFilteringSetRules, handleFilteringConfig
<1>12. \A h \in Handlers, c \in Arrays : handleFilteringRefresh(h, c) => lists' = lists
  BY DEF handleFilteringRefresh, conf
<1>13. updatesLoop \/ periodicallyRefreshFilters \/ UNCHANGED vars => lists' = lists
  BY DEF updatesLoop, periodicallyRefreshFilters, conf, vars
<1>14. \A o \in Outages : RemoteChanges(o[1], o[2]) => lists' = lists
  BY DEF RemoteChanges, conf
<1> HIDE DEF Goal
<1>15. Goal
  BY <1>2, <1>3, <1>4, <1>5, <1>6, <1>7, <1>8, <1>9, <1>10, <1>11, <1>12, <1>13, <1>14
     DEF Next, Edit, HandlerStep, LoopStep, RefreshStep
<1> QED
  BY <1>15 DEF Goal

(* A refresh merges its results into the lists that are there, so that a   *)
(* list removed while it was downloaded stays removed.                     *)
THEOREM RemovedGone == Spec => RemovedStaysRemoved
<1> DEFINE P == \A id \in 1..(nextID - 1) :
                   /\ \A flt \in AllLists : flt.id # id
                   /\ \A h \in Handlers : job[h].pc \in {"add", "insert"} => job[h].flt.id # id
                   => New \/ \A flt \in AllLists' : flt.id # id
<1>1. BasicInv /\ [Next]_vars => P
  <2> SUFFICES ASSUME BasicInv, [Next]_vars, ~New, NEW id \in 1..(nextID - 1),
                      \A flt \in AllLists : flt.id # id,
                      \A h \in Handlers : job[h].pc \in {"add", "insert"} => job[h].flt.id # id,
                      NEW flt \in AllLists'
               PROVE  flt.id # id
    OBVIOUS
  <2>1. PICK a \in Arrays : \E i \in DOMAIN lists'[a] : flt = lists'[a][i]
    BY DEF AllLists
  <2>2. PICK i \in DOMAIN lists'[a] : flt = lists'[a][i]
    BY <2>1
  <2>3. TypeInv
    BY DEF BasicInv
  <2>4. \/ \E b \in Arrays : \E k \in DOMAIN lists[b] : lists[b][k].id = flt.id
        \/ \E h \in Handlers : job[h].pc = "insert" /\ job[h].flt.id = flt.id
    BY <2>2, <2>3, NoNewIDs
  <2>5. \A b \in Arrays : \A k \in DOMAIN lists[b] : lists[b][k] \in AllLists
    BY DEF AllLists
  <2> QED
    BY <2>4, <2>5
<1>2. BasicInv /\ [Next]_vars => [P]_vars
  BY <1>1
<1>3. Init => BasicInv
  BY InitFacts DEF BasicInv
<1>4. BasicInv /\ [Next]_vars => BasicInv'
  BY BasicStep
<1> QED
  BY <1>2, <1>3, <1>4, PTL DEF Spec, RemovedStaysRemoved

-----------------------------------------------------------------------------
(* Lists that are removed or disabled.                                     *)

(* No list is removed or disabled.                                         *)
Grows == \A a \in Arrays : FilterIDs(a) \subseteq FilterIDs(a)'

(* No engine is begun or installed.                                        *)
InstallsKept ==
    \A p \in Procs :
        /\ job'[p].pc = "install" <=> job[p].pc = "install"
        /\ job[p].pc = "install" =>
              job'[p].engine = job[p].engine /\ job'[p].locked = job[p].locked

(* Lists that keep their states.                                           *)
LEMMA KeptIDs ==
    ASSUME KeptLists
    PROVE  \A a \in Arrays : FilterIDs(a)' = FilterIDs(a)
BY DEF KeptLists, FilterIDs, EnabledIDs

(* A step that leaves the engines, the channel and the enabled lists.      *)
LEMMA DisabledKept ==
    ASSUME DisabledInv, Grows, InstallsKept, engine' = engine, chan' = chan,
           EnablePending => EnablePending'
    PROVE  DisabledInv'
<1> "loop" \in Procs
  BY DEF Procs
<1>1. \A p \in Procs : job[p].pc = "install" /\ Covered(job[p].engine) => Covered(job[p].engine)'
  BY DEF Grows, InstallsKept, Covered
<1>2. Covered(engine) => Covered(engine)'
  BY DEF Grows, Covered
<1>3. chan # <<>> /\ CoveredIDs(chan[1]) => chan' # <<>> /\ CoveredIDs(chan[1])'
  BY DEF Grows, CoveredIDs
<1>4. LoopBuilds' <=> LoopBuilds
  BY DEF LoopBuilds, InstallsKept
<1>5. \A p \in Procs : job'[p].pc = "install" /\ job'[p].locked => Covered(job[p].engine)'
  BY <1>1 DEF DisabledInv, InstallsKept
<1> QED
  BY <1>1, <1>2, <1>3, <1>4, <1>5 DEF DisabledInv, LoopBuilds

(* A step after which a handler will rebuild the engine.                   *)
LEMMA DisabledAsked ==
    ASSUME DisabledInv, Grows \/ Unlocked, InstallsKept, EnablePending'
    PROVE  DisabledInv'
<1>1. ASSUME NEW p \in Procs, job'[p].pc = "install", job'[p].locked
      PROVE  Covered(job[p].engine)'
  <2>1. job[p].pc = "install" /\ job[p].locked /\ job'[p].engine = job[p].engine
    BY <1>1 DEF InstallsKept
  <2>2. Grows /\ Covered(job[p].engine)
    BY <2>1 DEF DisabledInv, Unlocked
  <2> QED
    BY <2>1, <2>2 DEF Grows, Covered
<1> QED
  BY <1>1 DEF DisabledInv

(* The steps that don't touch engines.                                     *)
LEMMA MovesKeep ==
    ASSUME NEW p \in Procs, Moves(p), job[p].pc # "install", job'[p].pc # "install"
    PROVE  /\ InstallsKept
           /\ job[p].pc # "enable" => (EnablePending => EnablePending')
<1>1. InstallsKept
  BY DEF Moves, InstallsKept
<1>2. ASSUME job[p].pc # "enable", EnablePending
      PROVE  EnablePending'
  BY <1>2 DEF Moves, EnablePending, Procs
<1> QED
  BY <1>1, <1>2

(* An engine made from enabled lists.                                      *)
LEMMA OpenedCovered ==
    ASSUME NEW t \in Tasks, CoveredIDs(t)
    PROVE  Covered(Opened(t))
BY DEF Covered, CoveredIDs, Opened, newRuleStorage, Arrays, Tasks

(* SetURL disables a list only together with a restart of the engine.      *)
LEMMA SetURLGrows ==
    ASSUME TypeInv, NEW h \in Handlers, NEW a \in Arrays, NEW url \in Urls, NEW new \in Urls,
           NEW enabled \in BOOLEAN, handleFilteringSetURL(h, a, url, new, enabled)
    PROVE  Grows \/ job'[h].pc = "enable"
<1>1. PICK i \in DOMAIN lists[a] : \E res :
            /\ res = SetProperties(lists[a][i], new, enabled)
            /\ job' = [job EXCEPT ![h] = IF res.restart THEN [pc |-> "enable"] ELSE Idle]
            /\ DOMAIN lists'[a] = DOMAIN lists[a]
            /\ lists'[a][i] = res.flt
            /\ \A k \in DOMAIN lists[a] : k # i => lists'[a][k] = lists[a][k]
            /\ \A b \in Arrays : b # a => lists'[b] = lists[b]
  BY SetURLEffect
<1>2. PICK res :
            /\ res = SetProperties(lists[a][i], new, enabled)
            /\ job' = [job EXCEPT ![h] = IF res.restart THEN [pc |-> "enable"] ELSE Idle]
            /\ DOMAIN lists'[a] = DOMAIN lists[a]
            /\ lists'[a][i] = res.flt
            /\ \A k \in DOMAIN lists[a] : k # i => lists'[a][k] = lists[a][k]
            /\ \A b \in Arrays : b # a => lists'[b] = lists[b]
  BY <1>1
<1>3. res.flt.id = lists[a][i].id /\ (lists[a][i].enabled /\ ~res.flt.enabled => res.restart)
  BY <1>2, ListsFacts, SetPropertiesFacts
<1>4. CASE res.restart
  BY <1>2, <1>4 DEF TypeInv, Procs
<1>5. CASE ~res.restart
  <2>1. \A b \in Arrays : \A k \in DOMAIN lists[b] :
           /\ k \in DOMAIN lists'[b]
           /\ lists'[b][k].id = lists[b][k].id
           /\ lists[b][k].enabled => lists'[b][k].enabled
    BY <1>2, <1>3, <1>5
  <2> QED
    BY <2>1 DEF Grows, FilterIDs, EnabledIDs
<1> QED
  BY <1>4, <1>5

(* The inductive step.                                                     *)
LEMMA DisabledStep ==
    ASSUME BasicInv, DisabledInv, [Next]_vars
    PROVE  DisabledInv'
<1> Handlers \subseteq Procs /\ "loop" \in Procs /\ "loop" \notin Handlers /\ TypeInv /\ LockInv
  BY ConstantsAssumption DEF Procs, BasicInv
<1>0. KeptLists => Grows
  BY KeptIDs DEF Grows
<1>1. ASSUME NEW p \in Procs, initFiltering(p)
      PROVE  DisabledInv'
  <2>1. /\ job[p].pc = "install" /\ engine' = job[p].engine /\ job'[p].pc = "idle"
        /\ \A q \in Procs : q # p => (job'[q].pc = job[q].pc)
        /\ \A q \in Procs : q # p /\ job[q].pc = "install" =>
              job'[q].engine = job[q].engine /\ job'[q].locked = job[q].locked
        /\ chan' = chan /\ lists' = lists
    BY <1>1, InstallEffect DEF Idle, initFiltering, conf
  <2>2. \A a \in Arrays : FilterIDs(a)' = FilterIDs(a)
    BY <2>1 DEF FilterIDs
  <2>3. \A q \in Procs : job'[q].pc = "install" /\ job'[q].locked => Covered(job[q].engine)'
    BY <2>1, <2>2 DEF DisabledInv, Covered
  <2>4. EnablePending' <=> EnablePending
    BY <2>1 DEF EnablePending
  <2>5. chan # <<>> /\ CoveredIDs(chan[1]) => chan' # <<>> /\ CoveredIDs(chan[1])'
    BY <2>1, <2>2 DEF CoveredIDs
  <2>6. CASE p = "loop" /\ LoopBuilds
    <3>1. ~LoopBuilds'
      BY <2>1, <2>6 DEF LoopBuilds
    <3>2. Covered(job["loop"].engine) => Covered(engine)'
      BY <2>1, <2>2, <2>6 DEF Covered
    <3> QED
      BY <2>1, <2>3, <2>4, <2>5, <2>6, <3>1, <3>2 DEF DisabledInv
  <2>7. CASE ~(p = "loop" /\ LoopBuilds)
    <3>1. job[p].locked
      BY <2>1, <2>7 DEF LockInv, LoopBuilds, Procs
    <3>2. Covered(engine)'
      BY <2>1, <2>2, <3>1 DEF DisabledInv, Covered
    <3>3. LoopBuilds' <=> LoopBuilds
      BY <2>1, <2>7 DEF LoopBuilds
    <3>4. LoopBuilds /\ Covered(job["loop"].engine) => Covered(job["loop"].engine)'
      BY <2>1, <2>2, <2>7 DEF Covered, LoopBuilds
    <3> QED
      BY <2>1, <2>3, <2>4, <2>5, <3>2, <3>3, <3>4 DEF DisabledInv
  <2> QED
    BY <2>6, <2>7
<1>2. ASSUME NEW h \in Handlers, Enable(h)
      PROVE  DisabledInv'
  <2>1. /\ Moves(h) /\ job[h].pc = "enable" /\ job'[h].pc = "idle"
        /\ lists' = lists /\ chan' = <<Params>>
    BY <1>2, HandlerEffect DEF Enable, setFilters
  <2>2. InstallsKept
    BY <2>1, MovesKeep
  <2>3. \A a \in Arrays : FilterIDs(a)' = FilterIDs(a)
    BY <2>1 DEF FilterIDs
  <2>4. \A q \in Procs : job'[q].pc = "install" /\ job'[q].locked => Covered(job[q].engine)'
    BY <2>2, <2>3 DEF DisabledInv, Covered, InstallsKept
  <2>5. chan' # <<>> /\ CoveredIDs(chan[1])'
    BY <2>1, <2>3 DEF CoveredIDs, Params, Arrays
  <2> QED
    BY <2>4, <2>5 DEF DisabledInv
<1>3. ASSUME updatesLoop
      PROVE  DisabledInv'
  <2>1. PICK t \in Tasks :
              /\ chan = <<t>> /\ chan' = <<>>
              /\ job["loop"].pc = "idle"
              /\ job'["loop"].pc = "install" /\ ~job'["loop"].locked
              /\ job'["loop"].engine = Opened(t)
              /\ \A q \in Procs : q # "loop" => job'[q].pc = job[q].pc
              /\ \A q \in Procs : q # "loop" /\ job[q].pc = "install" =>
                    job'[q].engine = job[q].engine /\ job'[q].locked = job[q].locked
    BY <1>3, LoopOpens
  <2>2. lists' = lists /\ \A a \in Arrays : FilterIDs(a)' = FilterIDs(a)
    BY <1>3 DEF FilterIDs, updatesLoop, conf
  <2>3. \A q \in Procs : job'[q].pc = "install" /\ job'[q].locked => Covered(job[q].engine)'
    BY <2>1, <2>2 DEF DisabledInv, Covered
  <2>4. EnablePending => EnablePending'
    BY <2>1 DEF EnablePending
  <2>5. CoveredIDs(t) => Covered(job["loop"].engine)'
    BY <2>1, <2>2, OpenedCovered DEF Covered
  <2>6. EnablePending \/ CoveredIDs(t)
    <3>1. chan # <<>> /\ chan[1] = t
      BY <2>1
    <3> QED
      BY <3>1 DEF DisabledInv
  <2>7. LoopBuilds'
    BY <2>1 DEF LoopBuilds
  <2> QED
    BY <2>1, <2>3, <2>4, <2>5, <2>6, <2>7 DEF DisabledInv
<1>4. ASSUME NEW h \in Handlers, NEW a \in Arrays, NEW url \in Urls, handleFilteringAddURL(h, a, url)
      PROVE  DisabledInv'
  <2>1. Moves(h) /\ job[h].pc = "idle" /\ job'[h].pc = "add"
    BY <1>4, AddURLStart DEF controlLockFree
  <2>2. lists' = lists /\ engine' = engine /\ chan' = chan
    BY <1>4 DEF handleFilteringAddURL, conf
  <2> QED
    BY <1>0, <2>1, <2>2, MovesKeep, UnchangedKept, DisabledKept
<1>15. ASSUME NEW h \in Handlers, NEW a \in Arrays, handleFilteringRefresh(h, a)
       PROVE  DisabledInv'
  <2>1. Moves(h) /\ job[h].pc = "idle" /\ job'[h].pc = "snapshot"
    BY <1>15, RefreshStart DEF controlLockFree
  <2>2. lists' = lists /\ engine' = engine /\ chan' = chan
    BY <1>15 DEF handleFilteringRefresh, conf
  <2> QED
    BY <1>0, <2>1, <2>2, MovesKeep, UnchangedKept, DisabledKept
<1>5. ASSUME NEW h \in Handlers, AddDownload(h)
      PROVE  DisabledInv'
  <2>1. Moves(h) /\ job[h].pc = "add" /\ job'[h].pc \in {"idle", "insert"}
    <3>1. \/ job'[h] = Idle
          \/ job'[h].pc = "insert"
      BY <1>5, HandlerEffect
    <3>2. Moves(h) /\ job[h].pc = "add"
      BY <1>5, HandlerEffect
    <3> QED
      BY <3>1, <3>2 DEF Idle
  <2>2. lists' = lists /\ engine' = engine /\ chan' = chan
    BY <1>5 DEF AddDownload, conf
  <2> QED
    BY <1>0, <2>1, <2>2, MovesKeep, UnchangedKept, DisabledKept
<1>6. ASSUME NEW h \in Handlers, filterAdd(h)
      PROVE  DisabledInv'
  <2>1. /\ Moves(h) /\ job[h].pc = "insert" /\ Unlocked /\ job'[h].pc \in {"idle", "enable"}
        /\ engine' = engine /\ chan' = chan
    BY <1>6, HandlerEffect DEF filterAdd
  <2>2. InstallsKept /\ (EnablePending => EnablePending')
    BY <2>1, MovesKeep
  <2>3. CASE lists' = lists
    BY <1>0, <2>1, <2>2, <2>3, UnchangedKept, DisabledKept
  <2>4. CASE lists' # lists
    <3>1. job' = [job EXCEPT ![h] = [pc |-> "enable"]]
      BY <1>6, <2>4, AddEffect
    <3>2. EnablePending'
      BY <3>1 DEF EnablePending, TypeInv
    <3> QED
      BY <2>1, <2>2, <3>2, DisabledAsked
  <2> QED
    BY <2>3, <2>4
<1>7. ASSUME NEW h \in Handlers, NEW a \in Arrays, NEW url \in Urls, handleFilteringRemoveURL(h, a, url)
      PROVE  DisabledInv'
  <2>1. Moves(h) /\ job[h].pc = "idle" /\ Unlocked /\ job'[h].pc = "enable"
    BY <1>7, RemoveStart DEF controlLockFree
  <2>2. InstallsKept /\ EnablePending'
    BY <2>1, MovesKeep DEF EnablePending
  <2> QED
    BY <2>1, <2>2, DisabledAsked
<1>8. ASSUME NEW h \in Handlers, NEW a \in Arrays, NEW url \in Urls, NEW new \in NewUrl[url],
             NEW enabled \in BOOLEAN, handleFilteringSetURL(h, a, url, new, enabled)
      PROVE  DisabledInv'
  <2>1. /\ Moves(h) /\ job[h].pc = "idle" /\ Unlocked /\ job'[h].pc \in {"enable", "idle"}
        /\ engine' = engine /\ chan' = chan
    BY <1>8, SetURLStart DEF controlLockFree, handleFilteringSetURL
  <2>2. InstallsKept /\ (EnablePending => EnablePending')
    BY <2>1, MovesKeep
  <2>3. new \in Urls
    BY ConstantsAssumption
  <2>4. CASE job'[h].pc = "enable"
    <3>1. EnablePending'
      BY <2>4 DEF EnablePending
    <3> QED
      BY <2>1, <2>2, <3>1, DisabledAsked
  <2>5. CASE Grows
    BY <2>1, <2>2, <2>5, DisabledKept
  <2> QED
    BY <1>8, <2>3, <2>4, <2>5, SetURLGrows
<1>9. ASSUME NEW h \in Handlers, handleFilteringSetRules(h) \/ handleFilteringConfig(h)
      PROVE  DisabledInv'
  <2>1. Moves(h) /\ job[h].pc = "idle" /\ job'[h].pc = "enable" /\ lists' = lists
    BY <1>9, SettingsStart DEF controlLockFree, handleFilteringSetRules, handleFilteringConfig
  <2>2. InstallsKept /\ EnablePending'
    BY <2>1, MovesKeep DEF EnablePending
  <2> QED
    BY <1>0, <2>1, <2>2, UnchangedKept, DisabledAsked
<1>10. ASSUME NEW p \in Procs, listsToUpdate(p) \/ Download(p) \/ refreshFiltersArray(p)
       PROVE  DisabledInv'
  <2>1. /\ Moves(p) /\ job[p].pc \in {"snapshot", "download"}
        /\ job'[p].pc \in {"snapshot", "download"}
    BY <1>10, RefreshEffect
  <2>2. KeptLists
    BY <1>10, MergeEffect, UnchangedKept DEF listsToUpdate, Download, conf
  <2>3. engine' = engine /\ chan' = chan
    BY <1>10 DEF listsToUpdate, Download, refreshFiltersArray, conf
  <2> QED
    BY <1>0, <2>1, <2>2, <2>3, MovesKeep, DisabledKept
<1>11. ASSUME NEW p \in Procs, refreshFiltersIntl(p)
       PROVE  DisabledInv'
  <2>1. /\ job[p].pc = "snapshot"
        /\ \A q \in Procs : q # p => job'[q].pc = job[q].pc
        /\ \A q \in Procs : q # p /\ job[q].pc = "install" =>
              job'[q].engine = job[q].engine /\ job'[q].locked = job[q].locked
        /\ \/ job'[p].pc = "idle"
           \/ job'[p].pc = "install" /\ job'[p].locked /\ job'[p].engine = Opened(Params)
        /\ engine' = engine /\ chan' = chan /\ lists' = lists
    <3>1. engine' = engine /\ chan' = chan /\ lists' = lists
      BY <1>11 DEF refreshFiltersIntl, conf
    <3> QED
      BY <1>11, <3>1, RefreshEnds DEF Idle
  <2>2. \A a \in Arrays : FilterIDs(a)' = FilterIDs(a)
    BY <2>1 DEF FilterIDs
  <2>3. CoveredIDs(Params) /\ Params \in Tasks
    BY ParamsType DEF CoveredIDs, Params, Arrays
  <2>4. Covered(Opened(Params))
    BY <2>3, OpenedCovered
  <2>5. \A q \in Procs : job'[q].pc = "install" /\ job'[q].locked => Covered(job[q].engine)'
    BY <2>1, <2>2, <2>4 DEF DisabledInv, Covered
  <2>6. EnablePending => EnablePending'
    BY <2>1 DEF EnablePending
  <2>7. LoopBuilds' <=> LoopBuilds
    BY <2>1 DEF LoopBuilds
  <2>8. LoopBuilds /\ Covered(job["loop"].engine) => Covered(job["loop"].engine)'
    BY <2>1, <2>2 DEF Covered, LoopBuilds
  <2>9. Covered(engine) => Covered(engine)'
    BY <2>1, <2>2 DEF Covered
  <2>10. chan # <<>> /\ CoveredIDs(chan[1]) => chan' # <<>> /\ CoveredIDs(chan[1])'
    BY <2>1, <2>2 DEF CoveredIDs
  <2> QED
    BY <2>1, <2>5, <2>6, <2>7, <2>8, <2>9, <2>10 DEF DisabledInv
<1>12. ASSUME periodicallyRefreshFilters
       PROVE  DisabledInv'
  <2>1. engine' = engine /\ chan' = chan /\ lists' = lists
    BY <1>12 DEF periodicallyRefreshFilters, conf
  <2>2. InstallsKept /\ (EnablePending => EnablePending')
    <3>1. CASE job' = job
      BY <3>1 DEF InstallsKept, EnablePending
    <3>2. CASE /\ Moves("loop") /\ job["loop"].pc = "idle"
               /\ job'["loop"] = Snapshot(<<"block", "allow">>, FALSE, 0, FALSE)
      <4>1. job'["loop"].pc = "snapshot"
        BY <3>2 DEF Snapshot
      <4> QED
        BY <3>2, <4>1, MovesKeep
    <3> QED
      BY <1>12, <3>1, <3>2, PeriodicEffect
  <2> QED
    BY <1>0, <2>1, <2>2, UnchangedKept, DisabledKept
<1>13. ASSUME (\E o \in Outages : RemoteChanges(o[1], o[2])) \/ TimePasses \/ UNCHANGED vars
       PROVE  DisabledInv'
  <2>1. job' = job /\ engine' = engine /\ chan' = chan
    BY <1>13 DEF RemoteChanges, TimePasses, conf, vars
  <2>2. KeptLists
    BY <1>13, TimeEffect, UnchangedKept DEF RemoteChanges, conf, vars
  <2> QED
    BY <1>0, <2>1, <2>2, DisabledKept DEF InstallsKept, EnablePending
<1>14. ASSUME New
       PROVE  DisabledInv'
  <2>1. PICK t : t = [rules |-> saved.rules, block |-> EnabledIDs(lists'["block"]),
                      allow |-> EnabledIDs(lists'["allow"])]
    OBVIOUS
  <2>2. engine' = Opened(t) /\ chan' = <<>> /\ \A p \in Procs : job'[p].pc = "idle"
    BY <1>14, <2>1 DEF New, Idle
  <2>3. Covered(engine)'
    BY <2>1, <2>2 DEF Covered, Opened, newRuleStorage, FilterIDs, Arrays
  <2> QED
    BY <2>2, <2>3 DEF DisabledInv, LoopBuilds
<1> QED
  BY <1>1, <1>2, <1>3, <1>4, <1>5, <1>6, <1>7, <1>8, <1>9, <1>10, <1>11, <1>12, <1>13, <1>14, <1>15
     DEF Next, Edit, HandlerStep, LoopStep, RefreshStep

(* The channel of capacity one and filtersMu make sure that the last       *)
(* engine built after a list was removed or disabled is one without it,    *)
(* whatever refreshes and edits run at the same time.                      *)
THEOREM DisabledGone == Spec => []DisabledNotApplied
<1>1. Init => BasicInv /\ DisabledInv
  <2>1. Init => BasicInv
    BY InitFacts DEF BasicInv
  <2>2. ASSUME Init PROVE DisabledInv
    <3>1. chan = <<>> /\ engine = [rules |-> 0, block |-> {}, allow |-> {}]
          /\ \A p \in Procs : job[p].pc = "idle"
      BY <2>2 DEF Init, Idle
    <3>2. Covered(engine)
      BY <3>1 DEF Covered, Arrays
    <3>3. "loop" \in Procs
      BY DEF Procs
    <3> QED
      BY <3>1, <3>2, <3>3 DEF DisabledInv, LoopBuilds
  <2> QED
    BY <2>1, <2>2
<1>2. BasicInv /\ DisabledInv /\ [Next]_vars => BasicInv' /\ DisabledInv'
  BY BasicStep, DisabledStep
<1>3. BasicInv /\ DisabledInv => DisabledNotApplied
  <2> SUFFICES ASSUME DisabledInv, Quiet
               PROVE  Covered(engine)
    BY DEF DisabledNotApplied, Covered
  <2>1. ~EnablePending /\ ~LoopBuilds /\ chan = <<>>
    BY DEF Quiet, EnablePending, LoopBuilds, Procs
  <2> QED
    BY <2>1 DEF DisabledInv
<1> QED
  BY <1>1, <1>2, <1>3, PTL DEF Spec
-----------------------------------------------------------------------------
(* The checksums.                                                          *)

ChecksumInv == CopiesInv /\ CopiedInv /\ SumsInv

(* No refresh copies, downloads or merges.                                 *)
DownloadsKept ==
    \A p \in Procs : job[p].pc = "download" \/ job'[p].pc = "download" => job'[p] = job[p]

(* No list is added.                                                       *)
InsertsKept == \A h \in Handlers : job'[h].pc \in {"add", "insert"} => job'[h] = job[h]

(* The lists keep their checksums.                                         *)
SumsKept == \A a \in Arrays : \A i \in DOMAIN lists[a] : lists'[a][i].sum = lists[a][i].sum

(* The next list is one of the lists, with the same file.                  *)
Inherits(a, i) ==
    \E k \in DOMAIN lists[a] :
        /\ lists'[a][i].id = lists[a][k].id /\ lists'[a][i].url = lists[a][k].url
        /\ lists'[a][i].enabled = lists[a][k].enabled /\ lists'[a][i].sum = lists[a][k].sum
        /\ lists[a][k].id \in DOMAIN files =>
              lists[a][k].id \in DOMAIN files' /\ files'[lists[a][k].id] = files[lists[a][k].id]

(* The next list has the checksum of its file.                             *)
Sound(a, i) ==
    /\ ~lists'[a][i].enabled => lists'[a][i].sum = <<>>
    /\ lists'[a][i].sum # <<>> =>
          lists'[a][i].id \in DOMAIN files' /\ files'[lists'[a][i].id] = lists'[a][i].sum

(* Lists that stay what they are inherit everything.                       *)
LEMMA KeptInherits ==
    ASSUME KeptLists, SumsKept, files' = files
    PROVE  \A a \in Arrays : \A i \in DOMAIN lists'[a] : Inherits(a, i)
BY DEF KeptLists, SumsKept, Inherits

(* Copies that are left alone, with no new IDs.                            *)
LEMMA CopiesKept ==
    ASSUME CopiesInv, DownloadsKept, AddsKept, nextID' = nextID
    PROVE  CopiesInv'
<1> SUFFICES ASSUME NEW p \in Procs, job'[p].pc = "download"
             PROVE  /\ \A n \in DOMAIN job'[p].lists : job'[p].lists[n].id < nextID'
                    /\ \A m, n \in DOMAIN job'[p].lists :
                          job'[p].lists[m].id = job'[p].lists[n].id => m = n
                    /\ \A n \in DOMAIN job'[p].lists, h \in Handlers :
                          job'[h].pc \in {"add", "insert"} => job'[p].lists[n].id # job'[h].flt.id
  BY DEF CopiesInv
<1>1. job'[p] = job[p] /\ job[p].pc = "download"
  BY DEF DownloadsKept
<1> QED
  BY <1>1 DEF CopiesInv, AddsKept

(* Copies that are left alone, of lists that stay or are not in flight.    *)
LEMMA CopiedKept ==
    ASSUME CopiedInv, DownloadsKept, excused \subseteq excused',
           "edited" \notin excused' =>
               \A a \in Arrays : \A i \in DOMAIN lists'[a] :
                   Inherits(a, i) \/ ~InFlight(lists'[a][i].id)
    PROVE  CopiedInv'
<1> SUFFICES ASSUME "edited" \notin excused', NEW p \in Procs, job'[p].pc = "download",
                    NEW n \in DOMAIN job'[p].lists, NEW a \in Arrays, NEW i \in DOMAIN lists'[a],
                    lists'[a][i].id = job'[p].lists[n].id
             PROVE  /\ a = Head(job'[p].arrays)
                    /\ lists'[a][i].url = job'[p].lists[n].url
                    /\ lists'[a][i].enabled
  BY DEF CopiedInv
<1>1. job'[p] = job[p] /\ job[p].pc = "download"
  BY DEF DownloadsKept
<1>2. InFlight(lists'[a][i].id)
  BY <1>1 DEF InFlight
<1>3. PICK k \in DOMAIN lists[a] :
         /\ lists'[a][i].id = lists[a][k].id /\ lists'[a][i].url = lists[a][k].url
         /\ lists'[a][i].enabled = lists[a][k].enabled
  BY <1>2 DEF Inherits
<1> QED
  BY <1>1, <1>3 DEF CopiedInv

(* Lists that inherit their checksums, or have those of their files.       *)
LEMMA ListSumsKept ==
    ASSUME ListSums, DownloadsKept,
           \A a \in Arrays : \A i \in DOMAIN lists'[a] : Inherits(a, i) \/ Sound(a, i)
    PROVE  ListSums'
<1> SUFFICES ASSUME NEW a \in Arrays, NEW i \in DOMAIN lists'[a]
             PROVE  /\ ~lists'[a][i].enabled => lists'[a][i].sum = <<>>
                    /\ lists'[a][i].sum # <<>> =>
                          \/ /\ lists'[a][i].id \in DOMAIN files'
                             /\ files'[lists'[a][i].id] = lists'[a][i].sum
                          \/ \E p \in Procs : Carries(p, lists[a][i].id)'
  BY DEF ListSums
<1>1. CASE Sound(a, i)
  BY <1>1 DEF Sound
<1>2. CASE Inherits(a, i)
  <2>1. PICK k \in DOMAIN lists[a] :
          /\ lists'[a][i].id = lists[a][k].id
          /\ lists'[a][i].enabled = lists[a][k].enabled /\ lists'[a][i].sum = lists[a][k].sum
          /\ lists[a][k].id \in DOMAIN files =>
                lists[a][k].id \in DOMAIN files' /\ files'[lists[a][k].id] = files[lists[a][k].id]
    BY <1>2 DEF Inherits
  <2>2. /\ ~lists[a][k].enabled => lists[a][k].sum = <<>>
        /\ lists[a][k].sum # <<>> =>
              \/ lists[a][k].id \in DOMAIN files /\ files[lists[a][k].id] = lists[a][k].sum
              \/ \E p \in Procs : Carries(p, lists[a][k].id)
    BY DEF ListSums
  <2>3. \A p \in Procs : Carries(p, lists[a][k].id) => Carries(p, lists[a][i].id)'
    BY <2>1 DEF Carries, DownloadsKept
  <2> QED
    BY <2>1, <2>2, <2>3
<1> QED
  BY <1>1, <1>2

(* Lists that inherit their files, or are not in flight.                   *)
LEMMA CopySumsKept ==
    ASSUME TypeInv, CopySums, DownloadsKept,
           \A a \in Arrays : \A i \in DOMAIN lists'[a] :
               Inherits(a, i) \/ ~InFlight(lists'[a][i].id)
    PROVE  CopySums'
<1> SUFFICES ASSUME NEW p \in Procs, job'[p].pc = "download",
                    NEW n \in DOMAIN job'[p].results, job'[p].results[n] = "updated",
                    NEW a \in Arrays, NEW i \in DOMAIN lists'[a],
                    lists'[a][i].id = job'[p].lists[n].id
             PROVE  /\ lists'[a][i].id \in DOMAIN files'
                    /\ files'[lists'[a][i].id] = job'[p].lists[n].sum
  BY DEF CopySums
<1>1. job'[p] = job[p] /\ job[p].pc = "download"
  BY DEF DownloadsKept
<1>2. n \in DOMAIN job[p].lists
  BY <1>1 DEF TypeInv, JobOK
<1>3. InFlight(lists'[a][i].id)
  BY <1>1, <1>2 DEF InFlight
<1>4. PICK k \in DOMAIN lists[a] :
         /\ lists'[a][i].id = lists[a][k].id
         /\ lists[a][k].id \in DOMAIN files =>
               lists[a][k].id \in DOMAIN files' /\ files'[lists[a][k].id] = files[lists[a][k].id]
  BY <1>3 DEF Inherits
<1>5. lists[a][k].id \in DOMAIN files /\ files[lists[a][k].id] = job[p].lists[n].sum
  BY <1>1, <1>4 DEF CopySums
<1> QED
  BY <1>1, <1>4, <1>5

(* A step that leaves copies, checksums and files.                         *)
LEMMA ChecksumKept ==
    ASSUME TypeInv, ChecksumInv, DownloadsKept, InsertsKept, KeptLists, SumsKept,
           files' = files, nextID' = nextID, excused \subseteq excused'
    PROVE  ChecksumInv'
<1>1. \A a \in Arrays : \A i \in DOMAIN lists'[a] : Inherits(a, i)
  BY KeptInherits
<1>2. CopiesInv'
  BY CopiesKept DEF ChecksumInv, InsertsKept, AddsKept
<1>3. CopiedInv'
  BY <1>1, CopiedKept DEF ChecksumInv
<1>4. ASSUME excused' \cap {"edited", "fixed"} = {}
      PROVE  ListSums' /\ CopySums' /\ AddedSums'
  <2>1. ListSums /\ CopySums /\ AddedSums
    BY <1>4 DEF ChecksumInv, SumsInv
  <2>2. ListSums' /\ CopySums'
    BY <1>1, <2>1, ListSumsKept, CopySumsKept
  <2>3. AddedSums'
    BY <2>1 DEF AddedSums, InsertsKept
  <2> QED
    BY <2>2, <2>3
<1> QED
  BY <1>2, <1>3, <1>4 DEF ChecksumInv, SumsInv

(* A step of one goroutine that is neither downloading nor adding.         *)
LEMMA MovesQuietly ==
    ASSUME NEW p \in Procs, Moves(p), job[p].pc # "download",
           job'[p].pc \notin {"download", "add", "insert"}
    PROVE  DownloadsKept /\ InsertsKept
<1> Handlers \subseteq Procs
  BY DEF Procs
<1> QED
  BY DEF Moves, DownloadsKept, InsertsKept

(* A list that is being added has a new ID.                                *)
LEMMA AddURLSums ==
    ASSUME BasicInv, ChecksumInv, NEW h \in Handlers, NEW a \in Arrays, NEW url \in Urls,
           handleFilteringAddURL(h, a, url)
    PROVE  ChecksumInv'
<1> Handlers \subseteq Procs /\ "loop" \in Procs /\ TypeInv /\ h \in Procs
  BY DEF Procs, BasicInv
<1>1. /\ controlLockFree /\ Moves(h) /\ job'[h].pc = "add" /\ job'[h].flt.id = nextID
      /\ nextID' = nextID + 1 /\ nextID \in Nat
  BY AddURLStart DEF TypeInv
<1>2. lists' = lists /\ files' = files /\ excused' = excused
  BY DEF handleFilteringAddURL, conf
<1>3. job'[h].flt.enabled
  BY DEF handleFilteringAddURL, TypeInv
<1>4. DownloadsKept
  BY <1>1 DEF controlLockFree, Moves, DownloadsKept
<1>5. \A i \in Arrays : \A k \in DOMAIN lists'[i] : Inherits(i, k)
  BY <1>2, UnchangedKept, KeptInherits DEF SumsKept
<1>6. \A g \in Handlers : job'[g].pc \in {"add", "insert"} => g = h
  BY <1>1 DEF controlLockFree, Moves
<1>7. CopiesInv'
  <2> SUFFICES ASSUME NEW p \in Procs, job'[p].pc = "download"
               PROVE  /\ \A n \in DOMAIN job'[p].lists : job'[p].lists[n].id < nextID'
                      /\ \A m, n \in DOMAIN job'[p].lists :
                            job'[p].lists[m].id = job'[p].lists[n].id => m = n
                      /\ \A n \in DOMAIN job'[p].lists, g \in Handlers :
                            job'[g].pc \in {"add", "insert"} => job'[p].lists[n].id # job'[g].flt.id
    BY DEF CopiesInv
  <2>1. job'[p] = job[p] /\ job[p].pc = "download"
    BY <1>4 DEF DownloadsKept
  <2>2. ASSUME NEW n \in DOMAIN job[p].lists
        PROVE  job[p].lists[n].id < nextID + 1 /\ job[p].lists[n].id # nextID
    <3>1. job[p].lists[n].id < nextID
      BY <2>1 DEF ChecksumInv, CopiesInv
    <3>2. job[p].lists \in UNION {[S -> FilterYAML] : S \in Finite}
      BY <2>1, JobKinds DEF DownloadJobs
    <3>3. job[p].lists[n] \in FilterYAML
      BY <3>2
    <3>4. job[p].lists[n].id \in Nat
      BY <3>3 DEF FilterYAML
    <3> QED
      BY <1>1, <3>1, <3>4
  <2> QED
    BY <1>1, <1>6, <2>1, <2>2 DEF ChecksumInv, CopiesInv
<1>8. CopiedInv'
  BY <1>2, <1>4, <1>5, CopiedKept DEF ChecksumInv
<1>9. ASSUME excused' \cap {"edited", "fixed"} = {}
      PROVE  ListSums' /\ CopySums' /\ AddedSums'
  <2>1. ListSums /\ CopySums /\ AddedSums
    BY <1>2, <1>9 DEF ChecksumInv, SumsInv
  <2>2. ListSums' /\ CopySums'
    BY <1>4, <1>5, <2>1, ListSumsKept, CopySumsKept
  <2>3. AddedSums'
    BY <1>1, <1>3, <1>6 DEF AddedSums
  <2> QED
    BY <2>2, <2>3
<1> QED
  BY <1>7, <1>8, <1>9 DEF ChecksumInv, SumsInv

(* A list that is being added has a file of its own.                       *)
LEMMA AddDownloadSums ==
    ASSUME BasicInv, ChecksumInv, NEW h \in Handlers, AddDownload(h)
    PROVE  ChecksumInv'
<1> DEFINE flt == job[h].flt
<1> TypeInv /\ h \in Procs
  BY DEF Procs, BasicInv
<1>1. job[h].pc = "add" /\ Moves(h)
  BY HandlerEffect
<1>2. \/ job'[h].pc = "idle"
      \/ Updated(flt) /\ job'[h].pc = "insert" /\ job'[h].flt = update(flt)
  BY HandlerEffect, NewJobs
<1>3. files' = finalizeUpdate(flt) /\ lists' = lists /\ excused' = excused /\ nextID' = nextID
  BY DEF AddDownload, conf
<1>4. flt \in FilterYAML
  BY <1>1, JobKinds DEF AddJobs
<1>5. DownloadsKept
  BY <1>1, <1>2 DEF Moves, DownloadsKept
<1>6. update(flt).id = flt.id /\ update(flt).enabled = flt.enabled
  BY <1>4, UpdateFacts
<1>7. AddsKept
  BY <1>1, <1>2, <1>6, HandlerEffect DEF AddsKept, Moves, Procs
<1>8. \A id \in DOMAIN files : id # flt.id => id \in DOMAIN files' /\ files'[id] = files[id]
  BY <1>3, <1>4, FinalizeFacts, ReplacedFacts
<1>9. \A a \in Arrays : \A i \in DOMAIN lists'[a] : Inherits(a, i)
  <2>1. \A a \in Arrays : \A i \in DOMAIN lists[a] : lists[a][i].id # flt.id
    BY <1>1 DEF BasicInv, UniqueInv, IDsInv
  <2> QED
    BY <1>3, <1>8, <2>1 DEF Inherits
<1>10. CopiesInv'
  BY <1>3, <1>5, <1>7, CopiesKept DEF ChecksumInv
<1>11. CopiedInv'
  BY <1>3, <1>5, <1>9, CopiedKept DEF ChecksumInv
<1>12. ASSUME excused' \cap {"edited", "fixed"} = {}
       PROVE  ListSums' /\ CopySums' /\ AddedSums'
  <2>1. ListSums /\ CopySums /\ AddedSums
    BY <1>3, <1>12 DEF ChecksumInv, SumsInv
  <2>2. ListSums' /\ CopySums'
    BY <1>5, <1>9, <2>1, ListSumsKept, CopySumsKept
  <2>3. ASSUME NEW g \in Handlers, job'[g].pc \in {"add", "insert"}
        PROVE  g = h
    BY <1>1, <2>3 DEF BasicInv, LockInv, Moves, Procs
  <2>4. ASSUME job'[h].pc \in {"add", "insert"}
        PROVE  /\ job'[h].flt.enabled
               /\ job'[h].flt.id \in DOMAIN files' /\ files'[job'[h].flt.id] = job'[h].flt.sum
    <3>1. Updated(flt) /\ job'[h].flt = update(flt)
      BY <1>2, <2>4
    <3>2. flt.enabled
      BY <1>1, <2>1 DEF AddedSums
    <3>3. files' = Replaced(flt) /\ update(flt).sum = reader(flt.url).sum
      BY <1>3, <1>4, <3>1, FinalizeFacts, UpdateFacts
    <3>4. flt.id \in DOMAIN Replaced(flt) /\ Replaced(flt)[flt.id] = reader(flt.url).sum
      BY <1>4, ReplacedFacts
    <3> QED
      BY <1>6, <3>1, <3>2, <3>3, <3>4
  <2>5. AddedSums'
    BY <2>3, <2>4 DEF AddedSums
  <2> QED
    BY <2>2, <2>5
<1> QED
  BY <1>10, <1>11, <1>12 DEF ChecksumInv, SumsInv

(* A list is inserted with the checksum of its file.                       *)
LEMMA AddSums ==
    ASSUME BasicInv, ChecksumInv, NEW h \in Handlers, filterAdd(h)
    PROVE  ChecksumInv'
<1> DEFINE flt == job[h].flt
           b   == job[h].array
           n   == Len(lists[b]) + 1
<1> TypeInv /\ h \in Procs
  BY DEF Procs, BasicInv
<1>1. job[h].pc = "insert" /\ Moves(h) /\ job'[h].pc \in {"idle", "enable"}
  BY HandlerEffect
<1>2. /\ files' = files /\ excused' = excused /\ nextID' = nextID
  BY DEF filterAdd
<1>3. DownloadsKept /\ InsertsKept
  BY <1>1, MovesQuietly
<1>4. CASE lists' = lists
  BY <1>2, <1>3, <1>4, UnchangedKept, ChecksumKept DEF SumsKept
<1>5. CASE lists' # lists
  <2>1. /\ job[h] \in AddJobs
        /\ DOMAIN lists'[b] = 1..n
        /\ lists'[b][n] = flt
        /\ \A i \in DOMAIN lists[b] : lists'[b][i] = lists[b][i]
        /\ \A a \in Arrays : a # b => lists'[a] = lists[a]
    BY <1>5, AddEffect
  <2>2. b \in Arrays
    BY <2>1 DEF AddJobs
  <2>3. Len(lists[b]) \in Nat /\ DOMAIN lists[b] = 1..Len(lists[b])
    BY <2>2, ListsFacts
  <2>4. DOMAIN lists'[b] = DOMAIN lists[b] \cup {n}
    BY <2>1, <2>3
  <2> HIDE DEF n
  <2>5. \A a \in Arrays : \A i \in DOMAIN lists'[a] : Inherits(a, i) \/ (a = b /\ i = n)
    <3>1. ASSUME NEW a \in Arrays, NEW i \in DOMAIN lists'[a], ~(a = b /\ i = n)
          PROVE  i \in DOMAIN lists[a] /\ lists'[a][i] = lists[a][i]
      BY <2>1, <2>4, <3>1
    <3> QED
      BY <1>2, <3>1 DEF Inherits
  <2>6. ~InFlight(lists'[b][n].id)
    <3>1. \A p \in Procs : job[p].pc = "download" =>
             \A k \in DOMAIN job[p].lists : job[p].lists[k].id # flt.id
      BY <1>1 DEF ChecksumInv, CopiesInv
    <3> QED
      BY <2>1, <3>1 DEF InFlight
  <2>7. CopiesInv'
    BY <1>2, <1>3, CopiesKept DEF ChecksumInv, InsertsKept, AddsKept
  <2>8. CopiedInv'
    BY <1>2, <1>3, <2>5, <2>6, CopiedKept DEF ChecksumInv
  <2>9. ASSUME excused' \cap {"edited", "fixed"} = {}
        PROVE  ListSums' /\ CopySums' /\ AddedSums'
    <3>1. ListSums /\ CopySums /\ AddedSums
      BY <1>2, <2>9 DEF ChecksumInv, SumsInv
    <3>2. Sound(b, n)
      BY <1>1, <1>2, <2>1, <3>1 DEF Sound, AddedSums
    <3>3. ListSums' /\ CopySums'
      BY <1>3, <2>5, <2>6, <3>1, <3>2, ListSumsKept, CopySumsKept
    <3>4. AddedSums'
      BY <1>2, <1>3, <3>1 DEF AddedSums, InsertsKept
    <3> QED
      BY <3>3, <3>4
  <2> QED
    BY <2>7, <2>8, <2>9 DEF ChecksumInv, SumsInv
<1> QED
  BY <1>4, <1>5

(* Only the file of the removed list disappears.                           *)
LEMMA RemoveSums ==
    ASSUME BasicInv, ChecksumInv, NEW h \in Handlers, NEW a \in Arrays, NEW url \in Urls,
           handleFilteringRemoveURL(h, a, url)
    PROVE  ChecksumInv'
<1> TypeInv /\ h \in Procs
  BY DEF Procs, BasicInv
<1>1. controlLockFree /\ Moves(h) /\ job'[h].pc = "enable" /\ job[h].pc = "idle"
  BY RemoveStart DEF controlLockFree
<1>2. excused' = excused /\ nextID' = nextID
  BY DEF handleFilteringRemoveURL
<1>3. DownloadsKept /\ InsertsKept
  BY <1>1, MovesQuietly
<1>4. CASE lists' = lists /\ files' = files
  BY <1>2, <1>3, <1>4, UnchangedKept, ChecksumKept DEF SumsKept
<1>5. ASSUME NEW i \in DOMAIN lists[a], Removes(a, i)
      PROVE  ChecksumInv'
  <2>1. \A b \in Arrays : \A k \in DOMAIN lists[b] : lists[b][k].id = lists[a][i].id => b = a /\ k = i
    BY DEF BasicInv, UniqueInv, SourcesUnique
  <2>2. \A id \in DOMAIN files : id # lists[a][i].id => id \in DOMAIN files' /\ files'[id] = files[id]
    BY <1>5 DEF Removes
  <2>3. \A b \in Arrays : b # a => lists'[b] = lists[b]
    BY <1>5 DEF Removes
  <2>4. PICK m \in [DOMAIN lists'[a] -> DOMAIN lists[a]] :
          \A k \in DOMAIN lists'[a] : lists'[a][k] = lists[a][m[k]] /\ m[k] # i
    BY <1>5 DEF Removes
  <2>5. \A b \in Arrays : \A k \in DOMAIN lists'[b] : Inherits(b, k)
    <3>1. ASSUME NEW b \in Arrays, b # a, NEW k \in DOMAIN lists'[b]
          PROVE  Inherits(b, k)
      BY <2>1, <2>2, <2>3, <3>1 DEF Inherits
    <3>2. ASSUME NEW k \in DOMAIN lists'[a]
          PROVE  Inherits(a, k)
      <4>1. m[k] \in DOMAIN lists[a] /\ lists'[a][k] = lists[a][m[k]] /\ m[k] # i
        BY <2>4
      <4>2. lists[a][m[k]].id # lists[a][i].id
        BY <2>1, <4>1
      <4> QED
        BY <2>2, <4>1, <4>2 DEF Inherits
    <3> QED
      BY <3>1, <3>2
  <2>6. CopiesInv'
    BY <1>2, <1>3, CopiesKept DEF ChecksumInv, InsertsKept, AddsKept
  <2>7. CopiedInv'
    BY <1>2, <1>3, <2>5, CopiedKept DEF ChecksumInv
  <2>8. ASSUME excused' \cap {"edited", "fixed"} = {}
        PROVE  ListSums' /\ CopySums' /\ AddedSums'
    <3>1. ListSums /\ CopySums
      BY <1>2, <2>8 DEF ChecksumInv, SumsInv
    <3>2. ListSums' /\ CopySums'
      BY <1>3, <2>5, <3>1, ListSumsKept, CopySumsKept
    <3>3. AddedSums'
      BY <1>1 DEF AddedSums, controlLockFree, Moves, Procs
    <3> QED
      BY <3>2, <3>3
  <2> QED
    BY <2>6, <2>7, <2>8 DEF ChecksumInv, SumsInv
<1> QED
  BY <1>4, <1>5, RemoveEffect

(* A list that is edited while it isn't refreshed keeps the checksum of    *)
(* its file, and the other lists theirs.                                   *)
LEMMA SetURLSums ==
    ASSUME BasicInv, ChecksumInv, NEW h \in Handlers, NEW a \in Arrays, NEW url \in Urls,
           NEW new \in Urls, NEW enabled \in BOOLEAN, handleFilteringSetURL(h, a, url, new, enabled)
    PROVE  ChecksumInv'
<1> TypeInv /\ h \in Procs
  BY DEF Procs, BasicInv
<1>1. /\ controlLockFree /\ Moves(h) /\ job'[h].pc \in {"enable", "idle"} /\ job[h].pc = "idle"
  BY SetURLStart DEF controlLockFree
<1>2. nextID' = nextID
  BY DEF handleFilteringSetURL
<1>3. DownloadsKept /\ InsertsKept
  BY <1>1, MovesQuietly
<1>4. PICK i \in DOMAIN lists[a] : \E res :
         /\ res = SetProperties(lists[a][i], new, enabled)
         /\ files' = res.files
         /\ excused' = excused
              \cup (IF InFlight(lists[a][i].id) THEN {"edited"} ELSE {})
              \cup (IF enabled /\ ~lists[a][i].enabled /\ ~res.err /\ ~res.restart
                    THEN {"blank"} ELSE {})
         /\ DOMAIN lists'[a] = DOMAIN lists[a]
         /\ lists'[a][i] = res.flt
         /\ \A k \in DOMAIN lists[a] : k # i => lists'[a][k] = lists[a][k]
         /\ \A b \in Arrays : b # a => lists'[b] = lists[b]
  BY SetURLEffect
<1>5. PICK res :
         /\ res = SetProperties(lists[a][i], new, enabled)
         /\ files' = res.files
         /\ excused' = excused
              \cup (IF InFlight(lists[a][i].id) THEN {"edited"} ELSE {})
              \cup (IF enabled /\ ~lists[a][i].enabled /\ ~res.err /\ ~res.restart
                    THEN {"blank"} ELSE {})
         /\ DOMAIN lists'[a] = DOMAIN lists[a]
         /\ lists'[a][i] = res.flt
         /\ \A k \in DOMAIN lists[a] : k # i => lists'[a][k] = lists[a][k]
         /\ \A b \in Arrays : b # a => lists'[b] = lists[b]
  BY <1>4
<1>6. lists[a][i] \in FilterYAML
  BY ListsFacts
<1>7. /\ res.flt \in FilterYAML /\ res.flt.id = lists[a][i].id
      /\ res.files = files \/ res.files = Replaced(res.flt)
      /\ (~lists[a][i].enabled => lists[a][i].sum = <<>>) =>
            /\ ~res.flt.enabled => res.flt.sum = <<>>
            /\ res.flt.sum # <<>> =>
                  \/ res.flt.sum = lists[a][i].sum /\ res.files = files
                  \/ res.files = Replaced(res.flt) /\ res.flt.sum = reader(res.flt.url).sum
  BY <1>5, <1>6, SetPropertiesFacts
<1>8. /\ DOMAIN Replaced(res.flt) = DOMAIN files \cup {res.flt.id}
      /\ Replaced(res.flt)[res.flt.id] = reader(res.flt.url).sum
      /\ \A id \in DOMAIN files : id # res.flt.id => Replaced(res.flt)[id] = files[id]
  BY <1>7, ReplacedFacts
<1>9. \A id \in DOMAIN files : id # lists[a][i].id => id \in DOMAIN files' /\ files'[id] = files[id]
  BY <1>5, <1>7, <1>8
<1>10. \A b \in Arrays : \A k \in DOMAIN lists[b] : lists[b][k].id = lists[a][i].id => b = a /\ k = i
  BY DEF BasicInv, UniqueInv, SourcesUnique
<1>11. \A b \in Arrays : \A k \in DOMAIN lists'[b] : Inherits(b, k) \/ (b = a /\ k = i)
  <2>1. ASSUME NEW b \in Arrays, NEW k \in DOMAIN lists'[b], ~(b = a /\ k = i)
        PROVE  k \in DOMAIN lists[b] /\ lists'[b][k] = lists[b][k]
    BY <1>5, <2>1
  <2> QED
    BY <1>9, <1>10, <2>1 DEF Inherits
<1>12. excused \subseteq excused' /\ ("edited" \notin excused' => ~InFlight(lists'[a][i].id))
  BY <1>5, <1>7
<1>13. CopiesInv'
  BY <1>2, <1>3, CopiesKept DEF ChecksumInv, InsertsKept, AddsKept
<1>14. CopiedInv'
  BY <1>3, <1>11, <1>12, CopiedKept DEF ChecksumInv
<1>15. ASSUME excused' \cap {"edited", "fixed"} = {}
       PROVE  ListSums' /\ CopySums' /\ AddedSums'
  <2>1. ListSums /\ CopySums
    BY <1>12, <1>15 DEF ChecksumInv, SumsInv
  <2>2. ~InFlight(lists'[a][i].id)
    BY <1>12, <1>15
  <2>3. \A p \in Procs : ~Carries(p, lists[a][i].id)
    <3>1. \A p \in Procs : job[p].pc = "download" => DOMAIN job[p].results \subseteq DOMAIN job[p].lists
      BY DEF TypeInv, JobOK
    <3>2. ~InFlight(lists[a][i].id)
      BY <1>5, <1>7, <2>2
    <3> QED
      BY <3>1, <3>2 DEF Carries, InFlight
  <2>4. /\ ~lists[a][i].enabled => lists[a][i].sum = <<>>
        /\ lists[a][i].sum # <<>> =>
              lists[a][i].id \in DOMAIN files /\ files[lists[a][i].id] = lists[a][i].sum
    BY <2>1, <2>3 DEF ListSums
  <2>5. Sound(a, i)
    BY <1>5, <1>7, <1>8, <2>4 DEF Sound
  <2>6. ListSums' /\ CopySums'
    BY <1>3, <1>11, <2>1, <2>2, <2>5, ListSumsKept, CopySumsKept
  <2>7. AddedSums'
    BY <1>1 DEF AddedSums, controlLockFree, Moves, Procs
  <2> QED
    BY <2>6, <2>7
<1> QED
  BY <1>13, <1>14, <1>15 DEF ChecksumInv, SumsInv

(* The copies of a snapshot are copies of lists with IDs of their own.     *)
LEMMA SnapshotSums ==
    ASSUME BasicInv, ChecksumInv, NEW p \in Procs, listsToUpdate(p)
    PROVE  ChecksumInv'
<1> TypeInv
  BY DEF BasicInv
<1>1. /\ lists' = lists /\ files' = files /\ excused' = excused /\ nextID' = nextID
      /\ job[p].pc = "snapshot"
  BY DEF listsToUpdate, conf
<1>2. PICK j2 \in Jobs :
         /\ job' = [job EXCEPT ![p] = j2] /\ JobOK(j2)
         /\ \/ j2 = Snapshot(Tail(job[p].arrays), job[p].force, job[p].updated, job[p].netErr)
            \/ /\ j2.pc = "download" /\ j2.arrays = job[p].arrays
               /\ DOMAIN j2.results = {}
               /\ \A n \in DOMAIN j2.lists :
                     /\ n \in DOMAIN lists[Head(job[p].arrays)]
                     /\ j2.lists[n] = lists[Head(job[p].arrays)][n]
                     /\ lists[Head(job[p].arrays)][n].enabled
  BY SnapshotEffect
<1>3. job'[p] = j2 /\ \A q \in Procs : q # p => job'[q] = job[q]
  BY <1>2, JobUpdate
<1>4. CASE j2 = Snapshot(Tail(job[p].arrays), job[p].force, job[p].updated, job[p].netErr)
  <2>1. j2.pc = "snapshot"
    BY <1>4 DEF Snapshot
  <2>2. DownloadsKept /\ InsertsKept
    BY <1>1, <1>3, <2>1, MovesQuietly DEF Moves
  <2> QED
    BY <1>1, <2>2, UnchangedKept, ChecksumKept DEF SumsKept
<1>5. CASE /\ j2.pc = "download" /\ j2.arrays = job[p].arrays
           /\ DOMAIN j2.results = {}
           /\ \A n \in DOMAIN j2.lists :
                 /\ n \in DOMAIN lists[Head(job[p].arrays)]
                 /\ j2.lists[n] = lists[Head(job[p].arrays)][n]
                 /\ lists[Head(job[p].arrays)][n].enabled
  <2>1. PICK a \in Arrays : a = Head(job[p].arrays)
    BY SnapshotEffect
  <2>2. \A n \in DOMAIN j2.lists :
           n \in DOMAIN lists[a] /\ j2.lists[n] = lists[a][n] /\ lists[a][n].enabled
    BY <1>5, <2>1
  <2>3. \A q \in Procs : job'[q].pc = "download" => q = p
    <3>1. \A q \in Procs : job[q].pc = "download" => q = p
      BY <1>1 DEF BasicInv, LockInv, Refreshing
    <3> QED
      BY <1>3, <3>1
  <2>4. \A h \in Handlers : job'[h].pc \in {"add", "insert"} => job'[h] = job[h]
    BY <1>3, <1>5 DEF Procs
  <2>5. CopiesInv'
    <3>1. \A n \in DOMAIN j2.lists : j2.lists[n].id < nextID
      BY <2>2 DEF BasicInv, UniqueInv, IDsInv
    <3>2. \A m, n \in DOMAIN j2.lists : j2.lists[m].id = j2.lists[n].id => m = n
      BY <2>2 DEF BasicInv, UniqueInv, SourcesUnique
    <3>3. \A n \in DOMAIN j2.lists, h \in Handlers :
             job'[h].pc \in {"add", "insert"} => j2.lists[n].id # job'[h].flt.id
      BY <2>2, <2>4 DEF BasicInv, UniqueInv, IDsInv
    <3> QED
      BY <1>1, <1>3, <2>3, <3>1, <3>2, <3>3 DEF CopiesInv
  <2>6. CopiedInv'
    <3>1. ASSUME NEW n \in DOMAIN j2.lists, NEW b \in Arrays, NEW i \in DOMAIN lists[b],
                 lists[b][i].id = j2.lists[n].id
          PROVE  b = Head(j2.arrays) /\ lists[b][i].url = j2.lists[n].url /\ lists[b][i].enabled
      <4>1. b = a /\ i = n
        BY <2>2, <3>1 DEF BasicInv, UniqueInv, SourcesUnique
      <4> QED
        BY <1>5, <2>1, <2>2, <4>1
    <3> QED
      BY <1>1, <1>3, <2>3, <3>1 DEF CopiedInv
  <2>7. ASSUME excused' \cap {"edited", "fixed"} = {}
        PROVE  ListSums' /\ CopySums' /\ AddedSums'
    <3>1. ListSums /\ CopySums /\ AddedSums
      BY <1>1, <2>7 DEF ChecksumInv, SumsInv
    <3>2. \A q \in Procs, b \in Arrays : \A i \in DOMAIN lists[b] : ~Carries(q, lists[b][i].id)
      BY <1>1 DEF BasicInv, LockInv, Refreshing, Carries
    <3>3. ListSums'
      BY <1>1, <3>1, <3>2 DEF ListSums
    <3>4. CopySums'
      BY <1>3, <1>5, <2>3 DEF CopySums
    <3>5. AddedSums'
      BY <1>1, <2>4, <3>1 DEF AddedSums
    <3> QED
      BY <3>3, <3>4, <3>5
  <2> QED
    BY <2>5, <2>6, <2>7 DEF ChecksumInv, SumsInv
<1> QED
  BY <1>2, <1>4, <1>5

(* A download replaces the file of its copy only, and carries the new      *)
(* checksum if it does.                                                    *)
LEMMA DownloadSums ==
    ASSUME BasicInv, ChecksumInv, NEW p \in Procs, Download(p)
    PROVE  ChecksumInv'
<1> TypeInv
  BY DEF BasicInv
<1> DEFINE j == job[p]
<1>1. /\ lists' = lists /\ excused' = excused /\ nextID' = nextID /\ j.pc = "download"
  BY DEF Download, conf
<1>2. PICK n, copies, results : Downloads(p, n, copies, results)
  BY DownloadEffect
<1>3. PICK flt \in FilterYAML : flt = j.lists[n]
  BY <1>2 DEF Downloads
<1>4. PICK j2 \in Jobs : j2 = Downloading(j, copies, results)
  BY <1>2 DEF Downloads
<1>5. j2.pc = "download" /\ j2.arrays = j.arrays /\ j2.lists = copies /\ j2.results = results
  BY <1>4 DEF Downloading
<1>6. job'[p] = j2 /\ \A q \in Procs : q # p => job'[q] = job[q]
  BY <1>2, <1>4, JobUpdate DEF Downloads
<1>7. /\ n \in DOMAIN j.lists /\ n \notin DOMAIN j.results
      /\ files' = finalizeUpdate(flt)
      /\ DOMAIN copies = DOMAIN j.lists
      /\ copies[n] = update(flt)
      /\ \A m \in DOMAIN j.lists : m # n => copies[m] = j.lists[m]
      /\ DOMAIN results = DOMAIN j.results \cup {n}
      /\ results[n] = Outcome(flt)
      /\ \A m \in DOMAIN j.results : results[m] = j.results[m]
  BY <1>2, <1>3 DEF Downloads
<1>8. /\ update(flt).id = flt.id /\ update(flt).url = flt.url
      /\ Updated(flt) => update(flt).sum = reader(flt.url).sum
  BY UpdateFacts
<1>9. \A m \in DOMAIN copies : copies[m].id = j.lists[m].id /\ copies[m].url = j.lists[m].url
  BY <1>3, <1>7, <1>8
<1>10. \A q \in Procs : job'[q].pc = "download" => q = p
  <2>1. \A q \in Procs : job[q].pc = "download" => q = p
    BY <1>1 DEF BasicInv, LockInv, Refreshing
  <2> QED
    BY <1>6, <2>1
<1>11. \A h \in Handlers : job'[h].pc \in {"add", "insert"} => job'[h] = job[h]
  BY <1>5, <1>6 DEF Procs
<1>12. /\ \A m \in DOMAIN copies : copies[m].id < nextID
       /\ \A k, m \in DOMAIN copies : copies[k].id = copies[m].id => k = m
       /\ \A m \in DOMAIN copies, h \in Handlers :
             job'[h].pc \in {"add", "insert"} => copies[m].id # job'[h].flt.id
  BY <1>1, <1>7, <1>9, <1>11 DEF ChecksumInv, CopiesInv
<1>13. CopiesInv'
  BY <1>1, <1>5, <1>6, <1>10, <1>12 DEF CopiesInv
<1>14. CopiedInv'
  <2>1. ASSUME "edited" \notin excused, NEW m \in DOMAIN copies, NEW a \in Arrays,
               NEW i \in DOMAIN lists[a], lists[a][i].id = copies[m].id
        PROVE  a = Head(j2.arrays) /\ lists[a][i].url = copies[m].url /\ lists[a][i].enabled
    BY <1>1, <1>5, <1>7, <1>9, <2>1 DEF ChecksumInv, CopiedInv
  <2> QED
    BY <1>1, <1>5, <1>6, <1>10, <2>1 DEF CopiedInv
<1>15. ASSUME excused' \cap {"edited", "fixed"} = {}
       PROVE  ListSums' /\ CopySums' /\ AddedSums'
  <2>1. ListSums /\ CopySums /\ AddedSums
    BY <1>1, <1>15 DEF ChecksumInv, SumsInv
  <2>2. \A id \in DOMAIN files : id # flt.id => id \in DOMAIN files' /\ files'[id] = files[id]
    BY ZenonT(30), <1>7, FinalizeFacts, ReplacedFacts
  <2>3. Updated(flt) => /\ results[n] = "updated"
                        /\ flt.id \in DOMAIN files' /\ files'[flt.id] = reader(flt.url).sum
    BY <1>7, FinalizeFacts, ReplacedFacts DEF Outcome
  <2>4. ~Updated(flt) => results[n] # "updated" /\ files' = files
    BY <1>7, FinalizeFacts DEF Outcome
  <2>5. DOMAIN j.results \subseteq DOMAIN j.lists
    BY <1>1 DEF TypeInv, JobOK
  <2>6. ListSums'
    <3> SUFFICES ASSUME NEW a \in Arrays, NEW i \in DOMAIN lists[a], lists[a][i].sum # <<>>
                 PROVE  \/ /\ lists[a][i].id \in DOMAIN files'
                           /\ files'[lists[a][i].id] = lists[a][i].sum
                        \/ \E q \in Procs : Carries(q, lists[a][i].id)'
      BY <1>1, <2>1 DEF ListSums
    <3>1. CASE \E q \in Procs : Carries(q, lists[a][i].id)
      <4>1. PICK q \in Procs : Carries(q, lists[a][i].id)
        BY <3>1
      <4>2. q = p
        BY <1>1, <4>1 DEF Carries, BasicInv, LockInv, Refreshing
      <4>3. PICK m \in DOMAIN j.results : j.results[m] = "updated" /\ j.lists[m].id = lists[a][i].id
        BY <4>1, <4>2 DEF Carries
      <4>4. m \in DOMAIN results /\ results[m] = "updated" /\ copies[m].id = lists[a][i].id
        BY <1>7, <1>9, <2>5, <4>3
      <4>5. Carries(p, lists[a][i].id)'
        BY <1>1, <1>5, <1>6, <4>4 DEF Carries
      <4> QED
        BY <4>5
    <3>2. CASE lists[a][i].id \in DOMAIN files /\ files[lists[a][i].id] = lists[a][i].sum
      <4>1. CASE lists[a][i].id # flt.id
        BY <2>2, <3>2, <4>1
      <4>2. CASE lists[a][i].id = flt.id /\ ~Updated(flt)
        BY <2>4, <3>2, <4>2
      <4>3. CASE lists[a][i].id = flt.id /\ Updated(flt)
        <5>1. n \in DOMAIN results /\ results[n] = "updated" /\ copies[n].id = lists[a][i].id
          BY <1>7, <1>8, <2>3, <4>3
        <5>2. Carries(p, lists[a][i].id)'
          BY <1>1, <1>5, <1>6, <5>1 DEF Carries
        <5> QED
          BY <5>2
      <4> QED
        BY <4>1, <4>2, <4>3
    <3> QED
      BY <2>1, <3>1, <3>2 DEF ListSums
  <2>7. CopySums'
    <3>1. ASSUME NEW m \in DOMAIN results, results[m] = "updated", NEW a \in Arrays,
                 NEW i \in DOMAIN lists[a], lists[a][i].id = copies[m].id
          PROVE  lists[a][i].id \in DOMAIN files' /\ files'[lists[a][i].id] = copies[m].sum
      <4>1. CASE m = n
        BY <1>7, <1>8, <2>3, <2>4, <3>1, <4>1
      <4>2. CASE m # n
        <5>1. m \in DOMAIN j.results /\ j.results[m] = "updated" /\ m \in DOMAIN j.lists
              /\ copies[m] = j.lists[m]
          BY <1>7, <2>5, <3>1, <4>2
        <5>2. lists[a][i].id \in DOMAIN files /\ files[lists[a][i].id] = copies[m].sum
          BY <1>1, <2>1, <3>1, <5>1 DEF CopySums
        <5>3. copies[m].id # flt.id
          BY <1>7, <1>8, <1>12, <4>2, <5>1
        <5> QED
          BY <2>2, <3>1, <5>2, <5>3
      <4> QED
        BY <4>1, <4>2
    <3> QED
      BY <1>1, <1>5, <1>6, <1>10, <3>1 DEF CopySums
  <2>8. AddedSums'
    <3>1. ASSUME NEW h \in Handlers, job'[h].pc \in {"add", "insert"}
          PROVE  job'[h] = job[h] /\ job[h].flt.id # flt.id
      <4>1. job'[h] = job[h]
        BY <1>11, <3>1
      <4>2. copies[n].id # job'[h].flt.id
        BY <1>7, <1>12, <3>1
      <4> QED
        BY <1>7, <1>8, <4>1, <4>2
    <3> QED
      BY <2>1, <2>2, <3>1 DEF AddedSums
  <2> QED
    BY <2>6, <2>7, <2>8
<1> QED
  BY <1>13, <1>14, <1>15 DEF ChecksumInv, SumsInv

(* A merge gives a list the checksum that its copy carries.                *)
LEMMA MergeSums ==
    ASSUME BasicInv, ChecksumInv, NEW p \in Procs, refreshFiltersArray(p)
    PROVE  ChecksumInv'
<1> TypeInv
  BY DEF BasicInv
<1> DEFINE j == job[p]
<1>1. files' = files /\ excused' = excused /\ nextID' = nextID
  BY DEF refreshFiltersArray
<1>2. PICK a \in Arrays : a = Head(j.arrays)
  BY MergeEffect
<1>3. j.pc = "download" /\ DOMAIN j.results = DOMAIN j.lists /\ KeptLists
  BY MergeEffect
<1>4. Moves(p) /\ job'[p].pc = "snapshot"
  BY RefreshEffect
<1>5. \A q \in Procs : job[q].pc = "download" => q = p
  BY <1>3 DEF BasicInv, LockInv, Refreshing
<1>6. \A q \in Procs : job'[q].pc # "download"
  BY <1>4, <1>5 DEF Moves
<1>7. CopiesInv' /\ CopiedInv'
  BY <1>6 DEF CopiesInv, CopiedInv
<1>8. ASSUME excused' \cap {"edited", "fixed"} = {}
      PROVE  ListSums' /\ CopySums' /\ AddedSums'
  <2>1. ListSums /\ CopySums /\ AddedSums /\ "edited" \notin excused
    BY <1>1, <1>8 DEF ChecksumInv, SumsInv
  <2>2. CopySums' /\ AddedSums'
    BY <1>1, <1>4, <1>6, <2>1 DEF CopySums, AddedSums, Moves, Procs
  <2>3. ASSUME NEW b \in Arrays, NEW i \in DOMAIN lists[b]
        PROVE  Sound(b, i)
    <3> DEFINE flt == lists[b][i]
    <3>1. /\ flt \in FilterYAML
          /\ lists'[b][i].id = flt.id /\ lists'[b][i].enabled = flt.enabled
      BY <1>3, ListsFacts DEF KeptLists
    <3>2. /\ ~flt.enabled => flt.sum = <<>>
          /\ flt.sum # <<>> =>
                \/ flt.id \in DOMAIN files /\ files[flt.id] = flt.sum
                \/ \E q \in Procs : Carries(q, flt.id)
      BY <2>1 DEF ListSums
    <3>3. \A q \in Procs : Carries(q, flt.id) =>
             \E n \in DOMAIN j.lists : j.results[n] = "updated" /\ j.lists[n].id = flt.id
      BY <1>3, <1>5 DEF Carries
    <3>4. \A n \in DOMAIN j.lists : j.lists[n].id = flt.id =>
             b = a /\ flt.url = j.lists[n].url /\ flt.enabled
      BY <1>2, <1>3, <2>1 DEF ChecksumInv, CopiedInv
    <3>5. \A n \in DOMAIN j.lists : j.lists[n].id = flt.id /\ j.results[n] = "updated" =>
             flt.id \in DOMAIN files /\ files[flt.id] = j.lists[n].sum
      BY <1>3, <2>1 DEF CopySums
    <3>6. CASE \A n \in DOMAIN j.lists : j.lists[n].id = flt.id => j.results[n] # "updated"
      <4>1. lists'[b][i].sum = flt.sum
        <5>1. CASE lists' = lists \/ b # a
          BY <1>2, <5>1, MergeEffect
        <5>2. CASE b = a /\ lists'[a][i] = Merge(lists[a][i], p)
          BY <1>3, <3>1, <3>6, <5>2, MergeFacts
        <5> QED
          BY <1>2, <5>1, <5>2, MergeEffect
      <4> QED
        BY <1>1, <3>1, <3>2, <3>3, <3>6, <4>1 DEF Sound
    <3>7. CASE \E n \in DOMAIN j.lists : j.lists[n].id = flt.id /\ j.results[n] = "updated"
      <4>1. PICK n \in DOMAIN j.lists : j.lists[n].id = flt.id /\ j.results[n] = "updated"
        BY <3>7
      <4>2. b = a /\ flt.url = j.lists[n].url /\ flt.enabled
        BY <3>4, <4>1
      <4>3. \A m \in DOMAIN j.lists : j.lists[m].id = flt.id => m = n
        BY <1>3, <4>1 DEF ChecksumInv, CopiesInv
      <4>4. lists'[a][i] = Merge(lists[a][i], p)
        <5>1. ~\A m \in DOMAIN j.results : j.results[m] = "failed"
          BY <1>3, <4>1
        <5> QED
          BY <1>2, <4>2, <5>1, MergeEffect
      <4>5. lists'[b][i].sum = j.lists[n].sum
        BY <1>3, <3>1, <4>1, <4>2, <4>3, <4>4, MergeFacts
      <4> QED
        BY <1>1, <3>1, <3>5, <4>1, <4>2, <4>5 DEF Sound
    <3> QED
      BY <3>6, <3>7
  <2>4. ListSums'
    BY <1>3, <2>3 DEF KeptLists, Sound, ListSums
  <2> QED
    BY <2>2, <2>4
<1> QED
  BY <1>7, <1>8 DEF ChecksumInv, SumsInv

(* After a start the checksums are those of the files, unless a list took  *)
(* the ID of another one.                                                  *)
LEMMA FreshSums ==
    ASSUME \A p \in Procs : job[p].pc = "idle",
           "fixed" \notin excused =>
               \A a \in Arrays : \A i \in DOMAIN lists[a] : Fresh(lists[a][i])
    PROVE  ChecksumInv
<1> Handlers \subseteq Procs
  BY DEF Procs
<1>1. CopiesInv /\ CopiedInv /\ CopySums /\ AddedSums
  BY DEF CopiesInv, CopiedInv, CopySums, AddedSums
<1>2. ASSUME "fixed" \notin excused
      PROVE  ListSums
  BY <1>2 DEF ListSums, Fresh
<1> QED
  BY <1>1, <1>2 DEF ChecksumInv, SumsInv

(* At the first start there are no files, and no checksums.                *)
LEMMA ChecksumInit ==
    ASSUME Init
    PROVE  ChecksumInv
<1>1. TypeInv
  BY InitFacts
<1>2. /\ files = <<>> /\ lists = Loaded(FirstLists, FirstID).lists
      /\ \A p \in Procs : job[p].pc = "idle"
  BY DEF Init, Idle
<1>3. DOMAIN files = {} /\ files \in Files
  BY <1>1, <1>2 DEF TypeInv
<1>4. FirstID \in Nat /\ Loadable(FirstLists, FirstID)
  BY ConstantsAssumption
<1>5. \A a \in Arrays : \A i \in DOMAIN lists[a] : Fresh(lists[a][i])
  BY <1>2, <1>3, <1>4, LoadedFacts
<1> QED
  BY <1>2, <1>5, FreshSums

(* Every step keeps the checksums and what refreshes carry.                *)
LEMMA ChecksumStep ==
    ASSUME BasicInv, ChecksumInv, [Next]_vars
    PROVE  ChecksumInv'
<1> /\ Handlers \subseteq Procs /\ "loop" \in Procs /\ TypeInv
  BY DEF Procs, BasicInv
<1>0. lists' = lists => KeptLists /\ SumsKept
  BY UnchangedKept DEF SumsKept
<1>1. ASSUME NEW p \in Procs, initFiltering(p)
      PROVE  ChecksumInv'
  <2>1. DownloadsKept /\ InsertsKept
    BY <1>1, InstallEffect DEF DownloadsKept, InsertsKept, Idle
  <2>2. lists' = lists /\ files' = files /\ nextID' = nextID /\ excused \subseteq excused'
    BY <1>1 DEF initFiltering, conf
  <2> QED
    BY <1>0, <2>1, <2>2, ChecksumKept
<1>2. ASSUME NEW h \in Handlers, Enable(h)
      PROVE  ChecksumInv'
  <2>1. DownloadsKept /\ InsertsKept
    BY <1>2, HandlerEffect, MovesQuietly
  <2>2. lists' = lists /\ files' = files /\ nextID' = nextID /\ excused' = excused
    BY <1>2 DEF Enable
  <2> QED
    BY <1>0, <2>1, <2>2, ChecksumKept
<1>3. ASSUME updatesLoop
      PROVE  ChecksumInv'
  <2>1. DownloadsKept /\ InsertsKept
    BY <1>3, LoopOpens DEF DownloadsKept, InsertsKept
  <2>2. lists' = lists /\ files' = files /\ nextID' = nextID /\ excused' = excused
    BY <1>3 DEF updatesLoop, conf
  <2> QED
    BY <1>0, <2>1, <2>2, ChecksumKept
<1>4. ASSUME NEW h \in Handlers, NEW a \in Arrays, handleFilteringRefresh(h, a)
      PROVE  ChecksumInv'
  <2>1. DownloadsKept /\ InsertsKept
    BY <1>4, RefreshStart, MovesQuietly DEF controlLockFree
  <2>2. lists' = lists /\ files' = files /\ nextID' = nextID /\ excused' = excused
    BY <1>4 DEF handleFilteringRefresh, conf
  <2> QED
    BY <1>0, <2>1, <2>2, ChecksumKept
<1>5. ASSUME NEW h \in Handlers, handleFilteringSetRules(h) \/ handleFilteringConfig(h)
      PROVE  ChecksumInv'
  <2>1. DownloadsKept /\ InsertsKept
    BY <1>5, SettingsStart, MovesQuietly DEF controlLockFree
  <2>2. lists' = lists /\ files' = files /\ nextID' = nextID /\ excused' = excused
    BY <1>5 DEF handleFilteringSetRules, handleFilteringConfig
  <2> QED
    BY <1>0, <2>1, <2>2, ChecksumKept
<1>6. ASSUME NEW p \in Procs, refreshFiltersIntl(p)
      PROVE  ChecksumInv'
  <2>1. job'[p].pc \in {"idle", "install"} /\ job[p].pc = "snapshot"
    BY <1>6, RefreshEnds, NewJobs
  <2>2. \A q \in Procs : q # p => \/ job'[q] = job[q]
                                  \/ job[q].pc = "install" /\ job'[q].pc = "install"
    BY <1>6, RefreshEnds
  <2>3. DownloadsKept /\ InsertsKept
    BY <2>1, <2>2 DEF DownloadsKept, InsertsKept
  <2>4. lists' = lists /\ files' = files /\ nextID' = nextID /\ excused \subseteq excused'
    BY <1>6 DEF refreshFiltersIntl, conf
  <2> QED
    BY <1>0, <2>3, <2>4, ChecksumKept
<1>7. ASSUME periodicallyRefreshFilters
      PROVE  ChecksumInv'
  <2>1. DownloadsKept /\ InsertsKept
    <3>1. CASE job' = job
      BY <3>1 DEF DownloadsKept, InsertsKept
    <3>2. CASE /\ Moves("loop") /\ job["loop"].pc = "idle"
               /\ job'["loop"] = Snapshot(<<"block", "allow">>, FALSE, 0, FALSE)
      <4>1. job'["loop"].pc = "snapshot"
        BY <3>2 DEF Snapshot
      <4> QED
        BY <3>2, <4>1, MovesQuietly
    <3> QED
      BY <1>7, <3>1, <3>2, PeriodicEffect
  <2>2. lists' = lists /\ files' = files /\ nextID' = nextID /\ excused' = excused
    BY <1>7 DEF periodicallyRefreshFilters, conf
  <2> QED
    BY <1>0, <2>1, <2>2, ChecksumKept
<1>8. ASSUME (\E o \in Outages : RemoteChanges(o[1], o[2])) \/ TimePasses \/ UNCHANGED vars
      PROVE  ChecksumInv'
  <2>1. job' = job /\ files' = files /\ nextID' = nextID /\ excused' = excused
    BY <1>8 DEF RemoteChanges, TimePasses, conf, vars
  <2>2. KeptLists /\ SumsKept
    BY <1>0, <1>8, TimeEffect DEF RemoteChanges, conf, vars, SumsKept
  <2>3. DownloadsKept /\ InsertsKept
    BY <2>1 DEF DownloadsKept, InsertsKept
  <2> QED
    BY <2>1, <2>2, <2>3, ChecksumKept
<1>9. ASSUME New
      PROVE  ChecksumInv'
  <2>1. PICK new : new = Loaded(saved.lists, nextID)
    OBVIOUS
  <2>2. /\ files \in Files /\ nextID \in Nat /\ Loadable(saved.lists, nextID)
    BY DEF TypeInv, BasicInv, UniqueInv, IDsInv
  <2>3. ~new.fixed => \A a \in Arrays : \A i \in DOMAIN new.lists[a] : Fresh(new.lists[a][i])
    BY <2>1, <2>2, LoadedFacts
  <2>4. /\ lists' = new.lists /\ files' = files
        /\ excused' = IF new.fixed THEN {"fixed"} ELSE {}
        /\ \A p \in Procs : job'[p].pc = "idle"
    BY <1>9, <2>1 DEF New, Idle
  <2>5. "fixed" \notin excused' =>
           \A a \in Arrays : \A i \in DOMAIN lists'[a] : Fresh(lists[a][i])'
    BY <2>3, <2>4 DEF Fresh
  <2>6. CopiesInv' /\ CopiedInv' /\ CopySums' /\ AddedSums'
    BY <2>4 DEF CopiesInv, CopiedInv, CopySums, AddedSums
  <2>7. "fixed" \notin excused' => ListSums'
    BY <2>5 DEF ListSums, Fresh
  <2> QED
    BY <2>6, <2>7 DEF ChecksumInv, SumsInv
<1>10. \A url \in Urls : NewUrl[url] \subseteq Urls
  BY ConstantsAssumption
<1>11. ASSUME NEW h \in Handlers, Edit(h)
       PROVE  ChecksumInv'
  BY <1>4, <1>5, <1>10, <1>11, AddURLSums, RemoveSums, SetURLSums DEF Edit
<1> QED
  BY <1>1, <1>2, <1>3, <1>6, <1>7, <1>8, <1>9, <1>11,
     AddDownloadSums, AddSums, SnapshotSums, DownloadSums, MergeSums
     DEF Next, HandlerStep, LoopStep, RefreshStep

(* Copies without locks and merges by ID and URL keep the checksums in     *)
(* memory those of the files, whatever is added, removed, edited,          *)
(* refreshed or restarted, but for the two races the property names.       *)
THEOREM ChecksumsKept == Spec => []ChecksumIsFile
<1>1. Init => BasicInv /\ ChecksumInv
  BY InitFacts, ChecksumInit DEF BasicInv
<1>2. BasicInv /\ ChecksumInv /\ [Next]_vars => BasicInv' /\ ChecksumInv'
  BY BasicStep, ChecksumStep
<1>3. BasicInv /\ ChecksumInv => ChecksumIsFile
  <2> SUFFICES ASSUME ChecksumInv, Quiet, excused \cap {"edited", "fixed"} = {},
                      NEW a \in Arrays, NEW i \in DOMAIN lists[a], lists[a][i].sum # <<>>
               PROVE  lists[a][i].id \in DOMAIN files /\ files[lists[a][i].id] = lists[a][i].sum
    BY DEF ChecksumIsFile, AllLists
  <2>1. \A p \in Procs : ~Carries(p, lists[a][i].id)
    BY DEF Quiet, Carries
  <2> QED
    BY <2>1 DEF ChecksumInv, SumsInv, ListSums
<1> QED
  BY <1>1, <1>2, <1>3, PTL DEF Spec
-----------------------------------------------------------------------------
(* The engine.                                                             *)

(* No engine is begun or installed, and no task becomes late.              *)
EnginesKept ==
    \A p \in Procs :
        /\ job'[p].pc = "install" <=> job[p].pc = "install"
        /\ job[p].pc = "install" => job'[p] = job[p]

PendingKept == \A p \in Procs : RebuildPending(p) => RebuildPending(p)'

(* The files that the lists in use have stay as they are.                  *)
FilesKept ==
    \A a \in Arrays : \A id \in FilterIDs(a) :
        /\ id \in DOMAIN files' <=> id \in DOMAIN files
        /\ id \in DOMAIN files => files'[id] = files[id]

(* The engine that is wanted changes with rules, lists and files only.     *)
LEMMA WantedKept ==
    ASSUME rules' = rules, \A a \in Arrays : FilterIDs(a)' = FilterIDs(a)
    PROVE  Params' = Params /\ (FilesKept => Wanted' = Wanted)
<1>1. FilterIDs("block")' = FilterIDs("block") /\ FilterIDs("allow")' = FilterIDs("allow")
  BY DEF Arrays
<1>2. Params' = Params
  BY <1>1 DEF Params
<1>3. PICK B, A : B = FilterIDs("block") /\ A = FilterIDs("allow")
  OBVIOUS
<1>4. ASSUME FilesKept, NEW S, S = A \/ S = B
      PROVE  {<<id, files'[id]>> : id \in S \cap DOMAIN files'}
              = {<<id, files[id]>> : id \in S \cap DOMAIN files}
  <2>1. \A id \in S : /\ id \in DOMAIN files' <=> id \in DOMAIN files
                      /\ id \in DOMAIN files => files'[id] = files[id]
    BY <1>3, <1>4 DEF FilesKept, Arrays
  <2> QED
    BY <2>1
<1>5. /\ Wanted = [rules |-> rules,
                   block |-> {<<id, files[id]>> : id \in B \cap DOMAIN files},
                   allow |-> {<<id, files[id]>> : id \in A \cap DOMAIN files}]
      /\ Wanted' = [rules |-> rules',
                    block |-> {<<id, files'[id]>> : id \in B \cap DOMAIN files'},
                    allow |-> {<<id, files'[id]>> : id \in A \cap DOMAIN files'}]
  BY <1>1, <1>3 DEF Wanted, Opened, newRuleStorage, Params
<1> QED
  BY <1>2, <1>4, <1>5

(* The array of a download.                                                *)
LEMMA HeadType ==
    ASSUME TypeInv, NEW p \in Procs, job[p].pc = "download"
    PROVE  Head(job[p].arrays) \in Arrays
<1>1. job[p].arrays \in Seq(Arrays)
  BY JobKinds DEF DownloadJobs
<1>2. job[p].arrays # <<>>
  BY DEF TypeInv, JobOK
<1> QED
  BY <1>1, <1>2

(* A refresh that isn't touched rebuilds the engine as before, if the      *)
(* lists keep their URLs.                                                  *)
LEMMA PendingSame ==
    ASSUME TypeInv, NEW p \in Procs, job'[p] = job[p], KeptLists, RebuildPending(p)
    PROVE  RebuildPending(p)'
<1>1. CASE job[p].pc \in {"snapshot", "download"} /\ job[p].updated # 0
  BY <1>1 DEF RebuildPending
<1>2. CASE ~(job[p].pc \in {"snapshot", "download"} /\ job[p].updated # 0)
  <2>1. job[p].pc = "download"
    BY <1>2 DEF RebuildPending
  <2>2. PICK a \in Arrays : a = Head(job[p].arrays)
    BY <2>1, HeadType
  <2>3. PICK n \in DOMAIN job[p].results :
          /\ job[p].results[n] = "updated"
          /\ \E i \in DOMAIN lists[a] :
                lists[a][i].id = job[p].lists[n].id /\ lists[a][i].url = job[p].lists[n].url
    BY <1>2, <2>2 DEF RebuildPending
  <2>4. \E i \in DOMAIN lists'[a] :
           lists'[a][i].id = job[p].lists[n].id /\ lists'[a][i].url = job[p].lists[n].url
    BY <2>3 DEF KeptLists
  <2> QED
    BY ZenonT(30), <2>1, <2>2, <2>3, <2>4 DEF RebuildPending
<1> QED
  BY <1>1, <1>2

(* A step that leaves engines, the channel and the engine wanted.          *)
LEMMA EngineKept ==
    ASSUME TypeInv, EngineInv, EnginesKept, engine' = engine, chan' = chan, Params' = Params,
           EnablePending => EnablePending', excused \subseteq excused',
           excused' \subseteq {"fixed"} => Wanted' = Wanted /\ PendingKept
    PROVE  EngineInv'
<1> SUFFICES ASSUME excused' \subseteq {"fixed"}
             PROVE  EngineInv'
  BY DEF EngineInv
<1> "loop" \in Procs
  BY DEF Procs
<1>1. excused \subseteq {"fixed"} /\ Wanted' = Wanted /\ PendingKept
  OBVIOUS
<1>2. CASE Asked
  BY <1>2 DEF Asked, EngineInv
<1>3. CASE ~Asked
  <2>1. LoopBuilds' <=> LoopBuilds
    BY DEF LoopBuilds, EnginesKept
  <2>2. LoopBuilds => job'["loop"] = job["loop"]
    BY DEF LoopBuilds, EnginesKept
  <2>3. \A p \in Procs : (Rebuilds(p)' <=> Rebuilds(p)) /\ (Rebuilds(p) => job'[p] = job[p])
    BY DEF Rebuilds, EnginesKept
  <2>4. chan' = <<>>
    BY <1>1, <1>3 DEF EngineInv
  <2>5. ASSUME LoopBuilds'
        PROVE  \/ job'["loop"].engine = Wanted' \/ job'["loop"].late
               \/ \E p \in Procs : RebuildPending(p)'
               \/ \E p \in job'["loop"].newer : Rebuilds(p)' /\ job'[p].engine = Wanted'
    <3>1. \/ job["loop"].engine = Wanted \/ job["loop"].late
          \/ \E p \in Procs : RebuildPending(p)
          \/ \E p \in job["loop"].newer : Rebuilds(p) /\ job[p].engine = Wanted
      BY <1>1, <1>3, <2>1, <2>5 DEF EngineInv
    <3>2. CASE \E p \in job["loop"].newer : Rebuilds(p) /\ job[p].engine = Wanted
      <4>1. PICK p \in job["loop"].newer : Rebuilds(p) /\ job[p].engine = Wanted
        BY <3>2
      <4>2. p \in Procs
        BY <2>1, <2>5, <4>1, JobKinds DEF LoopBuilds, InstallJobs
      <4> QED
        BY <1>1, <2>1, <2>2, <2>3, <2>5, <4>1, <4>2
    <3>3. CASE ~ \E p \in job["loop"].newer : Rebuilds(p) /\ job[p].engine = Wanted
      BY <1>1, <2>1, <2>2, <2>5, <3>1, <3>3 DEF PendingKept
    <3> QED
      BY <3>2, <3>3
  <2>6. ASSUME ~LoopBuilds'
        PROVE  \/ engine' = Wanted'
               \/ \E p \in Procs : RebuildPending(p)' \/ (Rebuilds(p)' /\ job'[p].engine = Wanted')
    <3>1. \/ engine = Wanted
          \/ \E p \in Procs : RebuildPending(p) \/ (Rebuilds(p) /\ job[p].engine = Wanted)
      BY <1>1, <1>3, <2>1, <2>6 DEF EngineInv
    <3> QED
      BY <1>1, <2>3, <3>1 DEF PendingKept
  <2>7. ASSUME NEW p \in Procs, Rebuilds(p)'
        PROVE  \/ job'[p].engine = Wanted' \/ job'[p].late
               \/ LoopBuilds' /\ "loop" \in job'[p].newer /\ job'["loop"].engine = Wanted'
    <3>1. \/ job[p].engine = Wanted \/ job[p].late
          \/ LoopBuilds /\ "loop" \in job[p].newer /\ job["loop"].engine = Wanted
      BY <1>1, <1>3, <2>3, <2>7 DEF EngineInv
    <3> QED
      BY <1>1, <2>1, <2>2, <2>3, <2>7, <3>1
  <2> QED
    BY <2>4, <2>5, <2>6, <2>7 DEF EngineInv
<1> QED
  BY <1>2, <1>3

(* A handler that is about to ask for the engine.                          *)
LEMMA EngineAsked ==
    ASSUME EnablePending'
    PROVE  EngineInv'
BY DEF EngineInv, Asked

(* A step of one goroutine that isn't building.                            *)
LEMMA MovesEngines ==
    ASSUME NEW p \in Procs, Moves(p), job[p].pc # "install", job'[p].pc # "install"
    PROVE  /\ EnginesKept
           /\ job[p].pc # "enable" => (EnablePending => EnablePending')
<1> Handlers \subseteq Procs
  BY DEF Procs
<1> QED
  BY DEF Moves, EnginesKept, EnablePending

(* The other goroutines rebuild the engine as before.                      *)
LEMMA PendingMoves ==
    ASSUME TypeInv, KeptLists, NEW p \in Procs, Moves(p), RebuildPending(p) => RebuildPending(p)'
    PROVE  PendingKept
<1> SUFFICES ASSUME NEW q \in Procs, RebuildPending(q)
             PROVE  RebuildPending(q)'
  BY DEF PendingKept
<1>1. CASE q = p
  BY <1>1
<1>2. CASE q # p
  <2>1. job'[q] = job[q]
    BY <1>2 DEF Moves
  <2> QED
    BY <2>1, PendingSame
<1> QED
  BY <1>1, <1>2

(* A step that leaves lists, files and engines.                            *)
LEMMA EngineSame ==
    ASSUME TypeInv, EngineInv, KeptLists, FilesKept, rules' = rules, engine' = engine, chan' = chan,
           excused \subseteq excused', EnginesKept, PendingKept, EnablePending => EnablePending'
    PROVE  EngineInv'
<1>1. Params' = Params /\ Wanted' = Wanted
  BY KeptIDs, WantedKept
<1> QED
  BY <1>1, EngineKept

(* Files that nobody touches.                                              *)
LEMMA FilesSame ==
    ASSUME files' = files
    PROVE  FilesKept
BY DEF FilesKept

(* The refresh of p is the only one.                                       *)
LEMMA OneRefresh ==
    ASSUME LockInv, NEW p \in Procs, Refreshing(p)
    PROVE  \A q \in Procs : q # p => ~RebuildPending(q) /\ ~Rebuilds(q)
BY DEF LockInv, Refreshing, RebuildPending, Rebuilds

(* The engine is installed, by the updates loop or by a refresh.           *)
LEMMA InstallEngine ==
    ASSUME BasicInv, EngineInv, NEW p \in Procs, initFiltering(p)
    PROVE  EngineInv'
<1> SUFFICES ASSUME excused' \subseteq {"fixed"}
             PROVE  EngineInv'
  BY DEF EngineInv
<1> TypeInv /\ LockInv /\ "loop" \in Procs /\ Handlers \subseteq Procs
  BY DEF BasicInv, Procs
<1>1. /\ job[p].pc = "install" /\ engine' = job[p].engine
      /\ job'[p] = Idle
      /\ \A q \in Procs : q # p /\ job[q].pc # "install" => job'[q] = job[q]
      /\ \A q \in Procs : q # p /\ job[q].pc = "install" =>
            /\ job'[q].pc = "install" /\ job'[q].engine = job[q].engine
            /\ job'[q].locked = job[q].locked /\ job'[q].newer = job[q].newer
            /\ job'[q].late <=> (job[q].late \/ p \in job[q].newer)
  BY InstallEffect
<1>2. /\ lists' = lists /\ rules' = rules /\ files' = files /\ chan' = chan
      /\ excused' = IF job[p].late THEN excused \cup {"late"} ELSE excused
  BY DEF initFiltering, conf
<1>3. ~job[p].late /\ excused \subseteq {"fixed"}
  BY <1>2
<1>4. Params' = Params /\ Wanted' = Wanted
  BY <1>2, UnchangedKept, KeptIDs, WantedKept, FilesSame
<1>5. job'[p].pc = "idle"
  BY <1>1, NewJobs
<1>6. CASE Asked
  <2>1. EnablePending => EnablePending'
    BY <1>1 DEF EnablePending
  <2> QED
    BY <1>2, <1>4, <1>6, <2>1 DEF Asked, EngineInv
<1>7. CASE ~Asked /\ p = "loop" /\ ~job["loop"].locked
  <2>1. LoopBuilds /\ ~LoopBuilds'
    BY <1>1, <1>5, <1>7 DEF LoopBuilds
  <2>2. PendingKept
    <3> SUFFICES ASSUME NEW q \in Procs, RebuildPending(q)
                 PROVE  RebuildPending(q)'
      BY DEF PendingKept
    <3>1. job[q].pc # "install"
      BY DEF RebuildPending
    <3>2. job'[q] = job[q]
      BY <1>1, <3>1
    <3> QED
      BY <1>2, <3>2, UnchangedKept, PendingSame
  <2>3. \/ job["loop"].engine = Wanted
        \/ \E q \in Procs : RebuildPending(q)
        \/ \E q \in job["loop"].newer : Rebuilds(q) /\ job[q].engine = Wanted
    BY <1>3, <1>7, <2>1 DEF EngineInv
  <2>4. \/ engine' = Wanted'
        \/ \E q \in Procs : RebuildPending(q)' \/ (Rebuilds(q)' /\ job'[q].engine = Wanted')
    <3>1. CASE \E q \in job["loop"].newer : Rebuilds(q) /\ job[q].engine = Wanted
      <4>1. PICK q \in job["loop"].newer : Rebuilds(q) /\ job[q].engine = Wanted
        BY <3>1
      <4>2. q \in Procs
        BY <1>1, <1>7, JobKinds DEF InstallJobs
      <4>3. q # p
        BY <1>7, <4>1 DEF Rebuilds
      <4>4. Rebuilds(q)' /\ job'[q].engine = Wanted'
        BY <1>1, <1>4, <4>1, <4>2, <4>3 DEF Rebuilds
      <4> QED
        BY <4>2, <4>4
    <3> QED
      BY <1>1, <1>4, <1>7, <2>2, <2>3, <3>1 DEF PendingKept
  <2>5. ASSUME NEW q \in Procs, Rebuilds(q)'
        PROVE  job'[q].engine = Wanted' \/ job'[q].late
    <3>1. q # p
      BY <1>5, <2>5 DEF Rebuilds
    <3>2. job[q].pc = "install"
      BY <1>1, <2>5, <3>1 DEF Rebuilds
    <3>3. Rebuilds(q)
      BY <1>1, <2>5, <3>1, <3>2 DEF Rebuilds
    <3>4. job[q].engine = Wanted \/ job[q].late \/ "loop" \in job[q].newer
      BY <1>3, <1>7, <3>3 DEF EngineInv
    <3> QED
      BY <1>1, <1>4, <1>7, <3>1, <3>2, <3>4
  <2>6. chan' = <<>>
    BY <1>2, <1>3, <1>7 DEF EngineInv
  <2> QED
    BY <2>1, <2>4, <2>5, <2>6 DEF EngineInv
<1>8. CASE ~Asked /\ ~(p = "loop" /\ ~job["loop"].locked)
  <2>1. job[p].locked
    BY <1>1, <1>8 DEF LockInv, Procs
  <2>2. Rebuilds(p) /\ Refreshing(p)
    BY <1>1, <2>1 DEF Rebuilds, Refreshing
  <2>3. \A q \in Procs : ~RebuildPending(q) /\ (q # p => ~Rebuilds(q))
    BY <1>1, <2>2, OneRefresh DEF RebuildPending
  <2>4. \/ job[p].engine = Wanted
        \/ LoopBuilds /\ "loop" \in job[p].newer /\ job["loop"].engine = Wanted
    BY <1>3, <1>8, <2>2 DEF EngineInv
  <2>5. \A q \in Procs : ~Rebuilds(q)'
    BY <1>1, <1>5, <2>3 DEF Rebuilds
  <2>6. LoopBuilds => p # "loop"
    BY <2>1 DEF LoopBuilds
  <2>7. LoopBuilds' <=> LoopBuilds
    BY <1>1, <1>5, <2>1 DEF LoopBuilds
  <2>8. ASSUME LoopBuilds
        PROVE  job'["loop"].engine = Wanted' \/ job'["loop"].late
    <3>1. \/ job["loop"].engine = Wanted \/ job["loop"].late
          \/ \E q \in job["loop"].newer : Rebuilds(q) /\ job[q].engine = Wanted
      BY <1>3, <1>8, <2>3, <2>8 DEF EngineInv
    <3>2. job["loop"].newer \subseteq Procs
      BY <2>8, JobKinds DEF LoopBuilds, InstallJobs
    <3>3. job["loop"].engine = Wanted \/ job["loop"].late \/ p \in job["loop"].newer
      BY <2>3, <3>1, <3>2
    <3> QED
      BY <1>1, <1>4, <2>6, <2>8, <3>3 DEF LoopBuilds
  <2>9. ~LoopBuilds => engine' = Wanted'
    BY <1>1, <1>4, <2>4
  <2>10. chan' = <<>>
    BY <1>2, <1>3, <1>8 DEF EngineInv
  <2> QED
    BY <2>5, <2>7, <2>8, <2>9, <2>10 DEF EngineInv
<1> QED
  BY <1>6, <1>7, <1>8

(* The updates loop opens the files for the task of the channel, after any *)
(* refresh that is still to set the engine.                                *)
LEMMA LoopEngine ==
    ASSUME BasicInv, EngineInv, updatesLoop
    PROVE  EngineInv'
<1> SUFFICES ASSUME excused \subseteq {"fixed"}
             PROVE  EngineInv'
  BY DEF EngineInv, updatesLoop
<1> TypeInv /\ LockInv /\ "loop" \in Procs /\ Handlers \subseteq Procs
  BY DEF BasicInv, Procs
<1>1. PICK t \in Tasks :
         /\ chan = <<t>> /\ chan' = <<>>
         /\ job["loop"].pc = "idle"
         /\ job'["loop"].pc = "install" /\ ~job'["loop"].locked
         /\ job'["loop"].engine = Opened(t)
         /\ \A q \in Procs : q # "loop" /\ job[q].pc # "install" => job'[q] = job[q]
         /\ \A q \in Procs : q # "loop" /\ job[q].pc = "install" =>
               /\ job'[q].pc = "install" /\ job'[q].engine = job[q].engine
               /\ job'[q].locked = job[q].locked /\ job'[q].late = job[q].late
               /\ job'[q].newer = job[q].newer \cup {"loop"}
  BY LoopOpens
<1>2. lists' = lists /\ rules' = rules /\ files' = files
  BY DEF updatesLoop, conf
<1>3. Params' = Params /\ Wanted' = Wanted
  BY <1>2, UnchangedKept, KeptIDs, WantedKept, FilesSame
<1>4. CASE EnablePending
  <2>1. EnablePending'
    BY <1>1, <1>4 DEF EnablePending
  <2> QED
    BY <2>1, EngineAsked
<1>5. CASE ~EnablePending
  <2>1. <<t>> # <<>>
    OBVIOUS
  <2>2. chan = <<Params>>
    BY <1>1, <1>5, <2>1 DEF EngineInv, Asked
  <2>3. t = Params
    BY <1>1, <2>2
  <2>4. LoopBuilds' /\ job'["loop"].engine = Wanted'
    BY <1>1, <1>3, <2>3 DEF LoopBuilds, Wanted
  <2>5. \A q \in Procs : Rebuilds(q)' => "loop" \in job'[q].newer
    BY <1>1 DEF Rebuilds
  <2> QED
    BY <1>1, <2>4, <2>5 DEF EngineInv
<1> QED
  BY <1>4, <1>5

(* A refresh that has updated something opens the files of the engine that *)
(* is wanted, after the updates loop has opened its own.                   *)
LEMMA RefreshEngine ==
    ASSUME BasicInv, EngineInv, NEW p \in Procs, refreshFiltersIntl(p)
    PROVE  EngineInv'
<1> SUFFICES ASSUME excused' \subseteq {"fixed"}
             PROVE  EngineInv'
  BY DEF EngineInv
<1> TypeInv /\ LockInv /\ "loop" \in Procs /\ Handlers \subseteq Procs
  BY DEF BasicInv, Procs
<1>1. job[p].pc = "snapshot"
  BY DEF refreshFiltersIntl
<1>2. /\ lists' = lists /\ rules' = rules /\ files' = files /\ chan' = chan /\ engine' = engine
      /\ excused' = IF job[p].netErr /\ job[p].updated # 0 THEN excused \cup {"network"} ELSE excused
  BY DEF refreshFiltersIntl, conf
<1>3. excused \subseteq {"fixed"} /\ ~(job[p].netErr /\ job[p].updated # 0)
  BY <1>2
<1>4. Params' = Params /\ Wanted' = Wanted
  BY <1>2, UnchangedKept, KeptIDs, WantedKept, FilesSame
<1>5. Refreshing(p)
  BY <1>1 DEF Refreshing
<1>6. CASE /\ job'[p] = Idle
           /\ job[p].netErr \/ job[p].updated = 0
           /\ \A q \in Procs : q # p => job'[q] = job[q]
  <2>1. ~RebuildPending(p)
    BY <1>1, <1>3, <1>6 DEF RebuildPending
  <2>2. job'[p].pc = "idle"
    BY <1>6, NewJobs
  <2>3. Moves(p)
    BY <1>6 DEF Moves
  <2>4. PendingKept /\ EnginesKept /\ (EnablePending => EnablePending')
    BY <1>1, <1>2, <2>1, <2>2, <2>3, UnchangedKept, PendingMoves, MovesEngines
  <2> QED
    BY <1>2, <2>4, UnchangedKept, FilesSame, EngineSame
<1>7. CASE /\ job'[p].pc = "install" /\ job'[p].locked /\ job'[p].engine = Opened(Params)
           /\ \A q \in Procs : q # p /\ job[q].pc # "install" => job'[q] = job[q]
           /\ \A q \in Procs : q # p /\ job[q].pc = "install" =>
                 /\ job'[q].pc = "install" /\ job'[q].engine = job[q].engine
                 /\ job'[q].locked = job[q].locked /\ job'[q].late = job[q].late
                 /\ job'[q].newer = job[q].newer \cup {p}
  <2>1. Rebuilds(p)' /\ job'[p].engine = Wanted'
    BY <1>4, <1>7 DEF Rebuilds, Wanted
  <2>2. \A q \in Procs : q # p => ~Rebuilds(q)'
    BY <1>5, <1>7, OneRefresh DEF Rebuilds
  <2>3. LoopBuilds' => p \in job'["loop"].newer
    BY <1>7 DEF LoopBuilds
  <2>4. CASE Asked
    <3>1. EnablePending => EnablePending'
      BY <1>1, <1>7 DEF EnablePending
    <3> QED
      BY <1>2, <1>4, <2>4, <3>1 DEF Asked, EngineInv
  <2>5. CASE ~Asked
    <3>1. chan' = <<>>
      BY <1>2, <1>3, <2>5 DEF EngineInv
    <3> QED
      BY <2>1, <2>2, <2>3, <3>1 DEF EngineInv
  <2> QED
    BY <2>4, <2>5
<1> QED
  BY <1>6, <1>7, RefreshEnds

(* The file of a list that is being added is not one of the engine's.      *)
LEMMA AddDownloadEngine ==
    ASSUME BasicInv, EngineInv, NEW h \in Handlers, AddDownload(h)
    PROVE  EngineInv'
<1> DEFINE flt == job[h].flt
<1> TypeInv /\ h \in Procs
  BY DEF Procs, BasicInv
<1>1. job[h].pc = "add" /\ Moves(h)
  BY HandlerEffect
<1>2. job'[h].pc \in {"idle", "insert"}
  BY HandlerEffect, NewJobs
<1>3. /\ files' = finalizeUpdate(flt) /\ lists' = lists /\ rules' = rules /\ excused' = excused
      /\ engine' = engine /\ chan' = chan
  BY DEF AddDownload, conf
<1>4. flt \in FilterYAML
  BY <1>1, JobKinds DEF AddJobs
<1>5. FilesKept
  <2>1. \A a \in Arrays : flt.id \notin FilterIDs(a)
    BY <1>1 DEF BasicInv, UniqueInv, IDsInv, FilterIDs, EnabledIDs
  <2>2. \A id : id # flt.id => /\ id \in DOMAIN files' <=> id \in DOMAIN files
                               /\ id \in DOMAIN files => files'[id] = files[id]
    BY ZenonT(30), <1>3, <1>4, FinalizeFacts, ReplacedFacts
  <2> QED
    BY <2>1, <2>2 DEF FilesKept
<1>6. EnginesKept /\ (EnablePending => EnablePending')
  BY <1>1, <1>2, MovesEngines
<1>7. PendingKept
  <2>1. ~RebuildPending(h)
    BY <1>1 DEF RebuildPending
  <2> QED
    BY <1>1, <1>3, <2>1, UnchangedKept, PendingMoves
<1> QED
  BY <1>3, <1>5, <1>6, <1>7, UnchangedKept, EngineSame

(* An edit that asks for no engine changes neither the enabled lists nor   *)
(* the files, unless it enables a blank list.                              *)
LEMMA SetURLEngine ==
    ASSUME BasicInv, EngineInv, NEW h \in Handlers, NEW a \in Arrays, NEW url \in Urls,
           NEW new \in Urls, NEW enabled \in BOOLEAN, handleFilteringSetURL(h, a, url, new, enabled)
    PROVE  EngineInv'
<1> SUFFICES ASSUME excused' \subseteq {"fixed"}
             PROVE  EngineInv'
  BY DEF EngineInv
<1> TypeInv /\ h \in Procs
  BY DEF Procs, BasicInv
<1>1. controlLockFree /\ Moves(h) /\ job'[h].pc \in {"enable", "idle"} /\ job[h].pc = "idle"
  BY SetURLStart DEF controlLockFree
<1>2. rules' = rules /\ engine' = engine /\ chan' = chan
  BY DEF handleFilteringSetURL
<1>3. PICK i \in DOMAIN lists[a] : \E res :
         /\ res = SetProperties(lists[a][i], new, enabled)
         /\ files' = res.files
         /\ job' = [job EXCEPT ![h] = IF res.restart THEN [pc |-> "enable"] ELSE Idle]
         /\ excused' = excused
              \cup (IF InFlight(lists[a][i].id) THEN {"edited"} ELSE {})
              \cup (IF enabled /\ ~lists[a][i].enabled /\ ~res.err /\ ~res.restart
                    THEN {"blank"} ELSE {})
         /\ DOMAIN lists'[a] = DOMAIN lists[a]
         /\ lists'[a][i] = res.flt
         /\ \A k \in DOMAIN lists[a] : k # i => lists'[a][k] = lists[a][k]
         /\ \A b \in Arrays : b # a => lists'[b] = lists[b]
  BY SetURLEffect
<1>4. PICK res :
         /\ res = SetProperties(lists[a][i], new, enabled)
         /\ files' = res.files
         /\ job' = [job EXCEPT ![h] = IF res.restart THEN [pc |-> "enable"] ELSE Idle]
         /\ excused' = excused
              \cup (IF InFlight(lists[a][i].id) THEN {"edited"} ELSE {})
              \cup (IF enabled /\ ~lists[a][i].enabled /\ ~res.err /\ ~res.restart
                    THEN {"blank"} ELSE {})
         /\ DOMAIN lists'[a] = DOMAIN lists[a]
         /\ lists'[a][i] = res.flt
         /\ \A k \in DOMAIN lists[a] : k # i => lists'[a][k] = lists[a][k]
         /\ \A b \in Arrays : b # a => lists'[b] = lists[b]
  BY <1>3
<1>5. lists[a][i] \in FilterYAML /\ lists[a][i].enabled \in BOOLEAN
  BY ListsFacts
<1>6. /\ res.flt \in FilterYAML /\ res.flt.id = lists[a][i].id
      /\ ~res.restart => res.files = files
      /\ lists[a][i].enabled /\ ~res.flt.enabled => res.restart
      /\ ~lists[a][i].enabled /\ res.flt.enabled => enabled /\ ~res.err
  BY <1>4, <1>5, SetPropertiesFacts
<1>7. CASE res.restart
  <2>1. job'[h] = [pc |-> "enable"]
    BY <1>4, <1>7 DEF TypeInv
  <2>2. EnablePending'
    BY <2>1 DEF EnablePending
  <2> QED
    BY <2>2, EngineAsked
<1>8. CASE ~res.restart
  <2>1. excused \subseteq excused'
    BY <1>4
  <2>2. ~InFlight(lists[a][i].id)
    BY <1>4
  <2>3. ~(enabled /\ ~lists[a][i].enabled /\ ~res.err)
    BY <1>4, <1>8
  <2>4. res.flt.enabled <=> lists[a][i].enabled
    BY <1>6, <1>8, <2>3
  <2>5. res.flt.enabled = lists[a][i].enabled
    BY <1>5, <1>6, <2>4 DEF FilterYAML
  <2>6. \A b \in Arrays : /\ DOMAIN lists'[b] = DOMAIN lists[b]
                          /\ \A k \in DOMAIN lists[b] : /\ lists'[b][k].id = lists[b][k].id
                                                        /\ lists'[b][k].enabled = lists[b][k].enabled
    BY <1>4, <1>6, <2>5
  <2>7. \A b \in Arrays : FilterIDs(b)' = FilterIDs(b)
    BY <2>6 DEF FilterIDs, EnabledIDs
  <2>8. files' = files
    BY <1>4, <1>6, <1>8
  <2>9. Params' = Params /\ Wanted' = Wanted
    BY <1>2, <2>7, <2>8, WantedKept, FilesSame
  <2>10. job'[h].pc = "idle"
    BY <1>4, <1>8, NewJobs DEF TypeInv
  <2>11. EnginesKept /\ (EnablePending => EnablePending')
    BY <1>1, <2>10, MovesEngines
  <2>12. ASSUME NEW q \in Procs, RebuildPending(q)
         PROVE  RebuildPending(q)'
    <3>1. q # h
      BY <1>1, <2>12 DEF RebuildPending
    <3>2. job'[q] = job[q]
      BY <1>1, <3>1 DEF Moves
    <3>3. CASE job[q].pc \in {"snapshot", "download"} /\ job[q].updated # 0
      BY <3>2, <3>3 DEF RebuildPending
    <3>4. CASE ~(job[q].pc \in {"snapshot", "download"} /\ job[q].updated # 0)
      <4>1. job[q].pc = "download"
        BY <2>12, <3>4 DEF RebuildPending
      <4>2. PICK b \in Arrays : b = Head(job[q].arrays)
        BY <4>1, HeadType
      <4>3. PICK n \in DOMAIN job[q].results :
              /\ job[q].results[n] = "updated"
              /\ \E k \in DOMAIN lists[b] :
                    lists[b][k].id = job[q].lists[n].id /\ lists[b][k].url = job[q].lists[n].url
        BY <2>12, <3>4, <4>2 DEF RebuildPending
      <4>4. PICK k \in DOMAIN lists[b] :
              lists[b][k].id = job[q].lists[n].id /\ lists[b][k].url = job[q].lists[n].url
        BY <4>3
      <4>5. n \in DOMAIN job[q].lists
        BY <4>1 DEF TypeInv, JobOK
      <4>6. ~(b = a /\ k = i)
        BY <2>2, <4>1, <4>4, <4>5 DEF InFlight
      <4>7. k \in DOMAIN lists'[b] /\ lists'[b][k] = lists[b][k]
        BY <1>4, <4>6
      <4>8. /\ b = Head(job'[q].arrays) /\ k \in DOMAIN lists'[b]
            /\ lists'[b][k].id = job'[q].lists[n].id /\ lists'[b][k].url = job'[q].lists[n].url
        BY ONLY <3>2, <4>2, <4>4, <4>7
      <4>9. /\ k \in DOMAIN lists'[Head(job'[q].arrays)]
            /\ lists'[Head(job'[q].arrays)][k].id = job'[q].lists[n].id
            /\ lists'[Head(job'[q].arrays)][k].url = job'[q].lists[n].url
        BY ONLY <4>8
      <4>10. n \in DOMAIN job'[q].results /\ job'[q].results[n] = "updated" /\ job'[q].pc = "download"
        BY <3>2, <4>1, <4>3
      <4> QED
        BY ONLY <4>9, <4>10 DEF RebuildPending
    <3> QED
      BY SMTT(30), <3>3, <3>4
  <2>13. PendingKept
    BY <2>12 DEF PendingKept
  <2> QED
    BY <1>2, <2>1, <2>9, <2>11, <2>13, EngineKept
<1> QED
  BY <1>7, <1>8

(* A download that replaces the file of a list will rebuild the engine.    *)
LEMMA DownloadEngine ==
    ASSUME BasicInv, ChecksumInv, EngineInv, NEW p \in Procs, Download(p)
    PROVE  EngineInv'
<1> SUFFICES ASSUME excused' \subseteq {"fixed"}
             PROVE  EngineInv'
  BY DEF EngineInv
<1> TypeInv /\ LockInv
  BY DEF BasicInv
<1> DEFINE j == job[p]
<1>1. /\ lists' = lists /\ rules' = rules /\ excused' = excused /\ engine' = engine /\ chan' = chan
      /\ j.pc = "download"
  BY DEF Download, conf
<1>2. PICK n, copies, results : Downloads(p, n, copies, results)
  BY DownloadEffect
<1>3. PICK flt \in FilterYAML : flt = j.lists[n]
  BY <1>2 DEF Downloads
<1>4. PICK j2 \in Jobs : j2 = Downloading(j, copies, results)
  BY <1>2 DEF Downloads
<1>5. /\ j2.pc = "download" /\ j2.arrays = j.arrays /\ j2.lists = copies /\ j2.results = results
      /\ j2.updated = j.updated
  BY <1>4 DEF Downloading
<1>6. job'[p] = j2 /\ Moves(p)
  BY <1>2, <1>4, JobUpdate DEF Downloads, Moves
<1>7. /\ n \in DOMAIN j.lists /\ n \notin DOMAIN j.results
      /\ files' = finalizeUpdate(flt)
      /\ DOMAIN copies = DOMAIN j.lists
      /\ copies[n] = update(flt)
      /\ \A m \in DOMAIN j.lists : m # n => copies[m] = j.lists[m]
      /\ DOMAIN results = DOMAIN j.results \cup {n}
      /\ results[n] = Outcome(flt)
      /\ \A m \in DOMAIN j.results : results[m] = j.results[m]
  BY <1>2, <1>3 DEF Downloads
<1>8. PICK a \in Arrays : a = Head(j.arrays)
  BY <1>1, HeadType
<1>9. update(flt).id = flt.id /\ update(flt).url = flt.url
  BY UpdateFacts
<1>10. RebuildPending(p) => RebuildPending(p)'
  <2>1. CASE j.updated # 0
    BY <1>5, <1>6, <2>1 DEF RebuildPending
  <2>2. ASSUME NEW m \in DOMAIN j.results, j.results[m] = "updated", NEW i \in DOMAIN lists[a],
               lists[a][i].id = j.lists[m].id, lists[a][i].url = j.lists[m].url
        PROVE  RebuildPending(p)'
    <3>1. m \in DOMAIN j.lists
      BY <1>1 DEF TypeInv, JobOK
    <3>2. m \in DOMAIN results /\ results[m] = "updated" /\ copies[m] = j.lists[m]
      BY <1>7, <2>2, <3>1
    <3> QED
      BY <1>1, <1>5, <1>6, <1>8, <2>2, <3>2 DEF RebuildPending
  <2> QED
    BY <1>1, <1>8, <2>1, <2>2 DEF RebuildPending
<1>11. EnginesKept /\ (EnablePending => EnablePending')
  BY <1>1, <1>5, <1>6, MovesEngines
<1>12. PendingKept
  BY <1>1, <1>6, <1>10, UnchangedKept, PendingMoves
<1>13. \A id : id # flt.id => /\ id \in DOMAIN files' <=> id \in DOMAIN files
                              /\ id \in DOMAIN files => files'[id] = files[id]
  BY ZenonT(30), <1>7, FinalizeFacts, ReplacedFacts
<1>14. CASE ~Updated(flt)
  <2>1. files' = files
    BY <1>7, <1>14, FinalizeFacts
  <2> QED
    BY <1>1, <1>11, <1>12, <2>1, UnchangedKept, FilesSame, EngineSame
<1>15. CASE \A b \in Arrays : flt.id \notin FilterIDs(b)
  <2>1. FilesKept
    BY <1>13, <1>15 DEF FilesKept
  <2> QED
    BY <1>1, <1>11, <1>12, <2>1, UnchangedKept, EngineSame
<1>16. ASSUME Updated(flt), NEW b \in Arrays, flt.id \in FilterIDs(b)
       PROVE  EngineInv'
  <2>1. PICK i \in DOMAIN lists[b] : lists[b][i].id = flt.id
    BY <1>16 DEF FilterIDs, EnabledIDs
  <2>2. "edited" \notin excused
    BY <1>1
  <2>3. b = a /\ lists[b][i].url = flt.url
    BY <1>1, <1>3, <1>7, <1>8, <2>1, <2>2 DEF ChecksumInv, CopiedInv
  <2>4. results[n] = "updated" /\ n \in DOMAIN results
    BY <1>7, <1>16 DEF Outcome
  <2>5. RebuildPending(p)'
    BY <1>1, <1>5, <1>6, <1>7, <1>8, <1>9, <2>1, <2>3, <2>4 DEF RebuildPending
  <2>6. \A q \in Procs : ~Rebuilds(q)'
    <3>1. Refreshing(p)
      BY <1>1 DEF Refreshing
    <3>2. \A q \in Procs : q # p => ~Rebuilds(q)
      BY <3>1, OneRefresh
    <3> QED
      BY <1>5, <1>6, <3>2 DEF Moves, Rebuilds
  <2>7. CASE Asked
    <3>1. Params' = Params
      BY <1>1, UnchangedKept, KeptIDs, WantedKept
    <3> QED
      BY <1>1, <1>11, <2>7, <3>1 DEF Asked, EngineInv
  <2>8. CASE ~Asked
    <3>1. chan' = <<>>
      BY <1>1, <2>8 DEF EngineInv
    <3> QED
      BY <2>5, <2>6, <3>1 DEF EngineInv
  <2> QED
    BY <2>7, <2>8
<1> QED
  BY <1>14, <1>15, <1>16

(* A snapshot doesn't forget that something was updated.                   *)
LEMMA SnapshotEngine ==
    ASSUME BasicInv, EngineInv, NEW p \in Procs, listsToUpdate(p)
    PROVE  EngineInv'
<1> TypeInv
  BY DEF BasicInv
<1>1. /\ lists' = lists /\ files' = files /\ rules' = rules /\ excused' = excused
      /\ engine' = engine /\ chan' = chan
  BY DEF listsToUpdate, conf
<1>2. Moves(p) /\ job[p].pc = "snapshot" /\ job'[p].pc \in {"snapshot", "download"}
  BY RefreshEffect
<1>3. PICK j2 \in Jobs : job' = [job EXCEPT ![p] = j2] /\ JobOK(j2) /\ j2.updated = job[p].updated
  BY SnapshotEffect
<1>4. job'[p] = j2
  BY <1>3, JobUpdate
<1>5. RebuildPending(p) => RebuildPending(p)'
  BY <1>2, <1>3, <1>4 DEF RebuildPending
<1>6. PendingKept /\ EnginesKept /\ (EnablePending => EnablePending')
  BY <1>1, <1>2, <1>5, UnchangedKept, PendingMoves, MovesEngines
<1> QED
  BY <1>1, <1>6, UnchangedKept, FilesSame, EngineSame

(* A merge that updates a list counts it.                                  *)
LEMMA MergeEngine ==
    ASSUME BasicInv, EngineInv, NEW p \in Procs, refreshFiltersArray(p)
    PROVE  EngineInv'
<1> TypeInv
  BY DEF BasicInv
<1> DEFINE j == job[p]
<1>1. /\ files' = files /\ rules' = rules /\ excused' = excused
      /\ engine' = engine /\ chan' = chan
  BY DEF refreshFiltersArray
<1>2. Moves(p) /\ j.pc = "download" /\ job'[p].pc = "snapshot"
  BY RefreshEffect
<1>3. KeptLists /\ DOMAIN j.results = DOMAIN j.lists
  BY MergeEffect
<1>4. PICK j2 \in Jobs :
         /\ job' = [job EXCEPT ![p] = j2] /\ JobOK(j2)
         /\ \/ /\ \A n \in DOMAIN j.results : j.results[n] = "failed"
               /\ j2.updated = j.updated
            \/ /\ j2.updated = j.updated + UpdateCount(p)
               /\ UpdateCount(p) \in Nat /\ j.updated \in Nat
  BY MergeEffect
<1>5. job'[p] = j2
  BY <1>4, JobUpdate
<1>6. ASSUME RebuildPending(p)
      PROVE  j2.updated # 0
  <2>1. CASE j.updated # 0
    BY <1>4, <2>1
  <2>2. ASSUME NEW n \in DOMAIN j.lists, j.results[n] = "updated",
               NEW i \in DOMAIN lists[Head(j.arrays)],
               lists[Head(j.arrays)][i].id  = j.lists[n].id,
               lists[Head(j.arrays)][i].url = j.lists[n].url
        PROVE  j2.updated # 0
    <3>1. UpdateCount(p) # 0
      BY <1>2, <2>2, UpdateCountType
    <3>2. ~\A m \in DOMAIN j.results : j.results[m] = "failed"
      BY <1>3, <2>2
    <3> QED
      BY <1>4, <3>1, <3>2
  <2> QED
    BY <1>2, <1>3, <1>6, <2>1, <2>2 DEF RebuildPending
<1>7. RebuildPending(p) => RebuildPending(p)'
  BY <1>2, <1>5, <1>6 DEF RebuildPending
<1>8. PendingKept /\ EnginesKept /\ (EnablePending => EnablePending')
  BY <1>2, <1>3, <1>7, PendingMoves, MovesEngines
<1> QED
  BY <1>1, <1>3, <1>8, FilesSame, EngineSame

(* Whatever a goroutine, the network or a restart does, the engine that is *)
(* wanted is in use, being built or asked for.                             *)
LEMMA EngineStep ==
    ASSUME BasicInv, ChecksumInv, EngineInv, [Next]_vars
    PROVE  EngineInv'
<1> Handlers \subseteq Procs /\ "loop" \in Procs /\ TypeInv
  BY DEF Procs, BasicInv
<1>1. ASSUME NEW h \in Handlers, Enable(h)
      PROVE  EngineInv'
  <2>1. chan' = <<Params>> /\ lists' = lists /\ rules' = rules
    BY <1>1 DEF Enable, setFilters
  <2>2. Params' = Params
    BY <2>1, UnchangedKept, KeptIDs, WantedKept
  <2> QED
    BY <2>1, <2>2 DEF EngineInv, Asked
<1>2. ASSUME NEW h \in Handlers, NEW a \in Arrays, NEW url \in Urls, handleFilteringAddURL(h, a, url)
      PROVE  EngineInv'
  <2>1. Moves(h) /\ job[h].pc = "idle" /\ job'[h].pc = "add"
    BY <1>2, AddURLStart DEF controlLockFree
  <2>2. /\ lists' = lists /\ files' = files /\ rules' = rules /\ excused' = excused
        /\ engine' = engine /\ chan' = chan
    BY <1>2 DEF handleFilteringAddURL, conf
  <2>3. ~RebuildPending(h)
    BY <2>1 DEF RebuildPending
  <2>4. PendingKept /\ EnginesKept /\ (EnablePending => EnablePending')
    BY <2>1, <2>2, <2>3, UnchangedKept, PendingMoves, MovesEngines
  <2> QED
    BY <2>2, <2>4, UnchangedKept, FilesSame, EngineSame
<1>3. ASSUME NEW h \in Handlers, NEW a \in Arrays, handleFilteringRefresh(h, a)
      PROVE  EngineInv'
  <2>1. Moves(h) /\ job[h].pc = "idle" /\ job'[h].pc = "snapshot"
    BY <1>3, RefreshStart DEF controlLockFree
  <2>2. /\ lists' = lists /\ files' = files /\ rules' = rules /\ excused' = excused
        /\ engine' = engine /\ chan' = chan
    BY <1>3 DEF handleFilteringRefresh, conf
  <2>3. ~RebuildPending(h)
    BY <2>1 DEF RebuildPending
  <2>4. PendingKept /\ EnginesKept /\ (EnablePending => EnablePending')
    BY <2>1, <2>2, <2>3, UnchangedKept, PendingMoves, MovesEngines
  <2> QED
    BY <2>2, <2>4, UnchangedKept, FilesSame, EngineSame
<1>4. ASSUME NEW h \in Handlers, filterAdd(h)
      PROVE  EngineInv'
  <2>1. Moves(h) /\ job[h].pc = "insert" /\ job'[h].pc \in {"idle", "enable"}
    BY <1>4, HandlerEffect
  <2>2. /\ files' = files /\ rules' = rules /\ excused' = excused
        /\ engine' = engine /\ chan' = chan
    BY <1>4 DEF filterAdd
  <2>3. CASE lists' = lists
    <3>1. ~RebuildPending(h)
      BY <2>1 DEF RebuildPending
    <3>2. PendingKept /\ EnginesKept /\ (EnablePending => EnablePending')
      BY <2>1, <2>3, <3>1, UnchangedKept, PendingMoves, MovesEngines
    <3> QED
      BY <2>2, <2>3, <3>2, UnchangedKept, FilesSame, EngineSame
  <2>4. CASE lists' # lists
    <3>1. job' = [job EXCEPT ![h] = [pc |-> "enable"]]
      BY <1>4, <2>4, AddEffect
    <3>2. EnablePending'
      BY <3>1 DEF EnablePending, TypeInv
    <3> QED
      BY <3>2, EngineAsked
  <2> QED
    BY <2>3, <2>4
<1>5. ASSUME NEW h \in Handlers, NEW a \in Arrays, NEW url \in Urls, handleFilteringRemoveURL(h, a, url)
      PROVE  EngineInv'
  <2>1. EnablePending'
    BY <1>5, RemoveStart DEF EnablePending
  <2> QED
    BY <2>1, EngineAsked
<1>6. ASSUME NEW h \in Handlers, handleFilteringSetRules(h) \/ handleFilteringConfig(h)
      PROVE  EngineInv'
  <2>1. EnablePending'
    BY <1>6, SettingsStart DEF EnablePending
  <2> QED
    BY <2>1, EngineAsked
<1>7. ASSUME periodicallyRefreshFilters
      PROVE  EngineInv'
  <2>1. /\ lists' = lists /\ files' = files /\ rules' = rules /\ excused' = excused
        /\ engine' = engine /\ chan' = chan
    BY <1>7 DEF periodicallyRefreshFilters, conf
  <2>2. job["loop"].pc = "idle"
    BY <1>7, PeriodicEffect
  <2>3. ~RebuildPending("loop")
    BY <2>2 DEF RebuildPending
  <2>4. Moves("loop") /\ job'["loop"].pc # "install"
    <3>1. CASE job' = job
      BY <2>2, <3>1 DEF Moves
    <3>2. CASE Moves("loop") /\ job'["loop"] = Snapshot(<<"block", "allow">>, FALSE, 0, FALSE)
      BY <3>2 DEF Snapshot
    <3> QED
      BY <1>7, <3>1, <3>2, PeriodicEffect
  <2>5. PendingKept /\ EnginesKept /\ (EnablePending => EnablePending')
    BY <2>1, <2>2, <2>3, <2>4, UnchangedKept, PendingMoves, MovesEngines
  <2> QED
    BY <2>1, <2>5, UnchangedKept, FilesSame, EngineSame
<1>8. ASSUME (\E o \in Outages : RemoteChanges(o[1], o[2])) \/ TimePasses \/ UNCHANGED vars
      PROVE  EngineInv'
  <2>1. /\ job' = job /\ files' = files /\ rules' = rules /\ excused' = excused
        /\ engine' = engine /\ chan' = chan
    BY <1>8 DEF RemoteChanges, TimePasses, conf, vars
  <2>2. KeptLists
    BY <1>8, TimeEffect, UnchangedKept DEF RemoteChanges, conf, vars
  <2>3. EnginesKept /\ (EnablePending => EnablePending')
    BY <2>1 DEF EnginesKept, EnablePending
  <2>4. PendingKept
    BY <2>1, <2>2, PendingSame DEF PendingKept
  <2> QED
    BY <2>1, <2>2, <2>3, <2>4, FilesSame, EngineSame
<1>9. ASSUME New
      PROVE  EngineInv'
  <2>1. /\ engine' = Opened([rules |-> saved.rules, block |-> EnabledIDs(lists'["block"]),
                             allow |-> EnabledIDs(lists'["allow"])])
        /\ rules' = saved.rules /\ files' = files /\ chan' = <<>>
        /\ \A p \in Procs : job'[p].pc = "idle"
    BY <1>9 DEF New, Idle
  <2>2. engine' = Wanted'
    BY <2>1 DEF Wanted, Opened, newRuleStorage, Params, FilterIDs
  <2> QED
    BY <2>1, <2>2 DEF EngineInv, LoopBuilds, Rebuilds
<1>10. \A url \in Urls : NewUrl[url] \subseteq Urls
  BY ConstantsAssumption
<1>11. ASSUME NEW h \in Handlers, Edit(h)
       PROVE  EngineInv'
  BY <1>2, <1>3, <1>5, <1>6, <1>10, <1>11, SetURLEngine DEF Edit
<1> QED
  BY <1>1, <1>4, <1>7, <1>8, <1>9, <1>11, InstallEngine, LoopEngine, RefreshEngine,
     AddDownloadEngine, SnapshotEngine, DownloadEngine, MergeEngine
     DEF Next, HandlerStep, LoopStep, RefreshStep

(* At the end of every burst of edits, refreshes, source changes and       *)
(* restarts the engine has the user's rules and the files of exactly the   *)
(* enabled lists, but for the four races that the property names.          *)
THEOREM EngineFollows == Spec => []EngineCurrent
<1>1. Init => BasicInv /\ ChecksumInv /\ EngineInv
  <2>1. Init => BasicInv /\ ChecksumInv
    BY InitFacts, ChecksumInit DEF BasicInv
  <2>2. ASSUME Init PROVE EngineInv
    <3>1. /\ chan = <<>> /\ engine = [rules |-> 0, block |-> {}, allow |-> {}]
          /\ rules = 0 /\ files = <<>> /\ \A p \in Procs : job[p].pc = "idle"
      BY <2>2 DEF Init, Idle
    <3>2. DOMAIN files = {}
      BY <3>1
    <3>3. engine = Wanted
      BY <3>1, <3>2 DEF Wanted, Opened, newRuleStorage, Params
    <3>4. "loop" \in Procs
      BY DEF Procs
    <3> QED
      BY <3>1, <3>3, <3>4 DEF EngineInv, LoopBuilds, Rebuilds
  <2> QED
    BY <2>1, <2>2
<1>2. BasicInv /\ ChecksumInv /\ EngineInv /\ [Next]_vars => BasicInv' /\ ChecksumInv' /\ EngineInv'
  BY BasicStep, ChecksumStep, EngineStep
<1>3. BasicInv /\ ChecksumInv /\ EngineInv => EngineCurrent
  <2> SUFFICES ASSUME EngineInv, Quiet, excused \subseteq {"fixed"}
               PROVE  engine = Wanted
    BY DEF EngineCurrent, Wanted
  <2> Handlers \subseteq Procs /\ "loop" \in Procs
    BY DEF Procs
  <2>1. ~EnablePending /\ ~LoopBuilds /\ \A p \in Procs : ~RebuildPending(p) /\ ~Rebuilds(p)
    BY DEF Quiet, EnablePending, LoopBuilds, RebuildPending, Rebuilds
  <2>2. chan = <<>> /\ <<>> # <<Params>>
    BY DEF Quiet
  <2>3. ~Asked
    BY <2>1, <2>2 DEF Asked
  <2> QED
    BY <2>1, <2>3 DEF EngineInv
<1> QED
  BY <1>1, <1>2, <1>3, PTL DEF Spec
=============================================================================
