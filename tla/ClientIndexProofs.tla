-------------------------- MODULE ClientIndexProofs --------------------------
(***************************************************************************)
(* Proofs about ClientIndex for every set of clients, names and texts: the *)
(* maps of the index agree, the storage implements ClientRegistry, lookups *)
(* find the owner, and the upstreams a client is served with are current.  *)
(***************************************************************************)
EXTENDS ClientIndex, WellFoundedInduction, TLAPS

(* The maps as Go's types have them.                                       *)
IndexType ==
    [name   : [Names -> UIDs \cup {NoUID}],
     id     : [Kinds -> [Strings -> UIDs \cup {NoUID}]],
     client : [UIDs -> Client \cup {NoClient}]]

(* IndexesAgree, of any index.                                             *)
Agree(ix) ==
    /\ \A n \in Names, u \in UIDs :
        ix.name[n] = u <=> (ix.client[u] # NoClient /\ ix.client[u].name = n)
    /\ \A k \in Kinds, s \in Strings, u \in UIDs :
        ix.id[k][s] = u <=> (ix.client[u] # NoClient /\ <<k, s>> \in ix.client[u].ids)

(* What Storage.Update leaves behind between its two halves: the UID is    *)
(* free, and the client it is to add does not clash.                       *)
WriterInv ==
    \/ writer = Idle
    \/ writer = [Idle EXCEPT !.pc = "save"]
    \/ /\ writer.pc = "readd"
       /\ writer.uid \in UIDs /\ writer.new \in Client
       /\ index.client[writer.uid] = NoClient
       /\ ~clashes(index, writer.uid, writer.new)

StorageInv ==
    /\ index \in IndexType
    /\ saved \in [UIDs -> Client \cup {NoClient}]
    /\ Agree(index)
    /\ WriterInv

-----------------------------------------------------------------------------
(* SetIDs gives identifiers of the four kinds.                             *)
LEMMA SetIDsType ==
    ASSUME NEW ss \in SUBSET Strings
    PROVE  SetIDs(ss) \in SUBSET Ids
BY ConstantsAssumption DEF SetIDs, setID, Ids, Kinds

(* What jsonToClient makes has a name and identifiers, and is a client.    *)
LEMMA ClientFacts ==
    /\ \A n \in Names, t \in Templates : jsonToClient(n, t) \in Client
    /\ \A c \in Client :
        /\ c.name \in Names
        /\ c.ids \in SUBSET Ids
        /\ c # NoClient
<1>1. \A n \in Names, t \in Templates :
        /\ jsonToClient(n, t) \in Client
        /\ jsonToClient(n, t).name = n
        /\ jsonToClient(n, t).ids = SetIDs(t.ids)
  BY DEF Client, jsonToClient
<1>2. \A t \in Templates : SetIDs(t.ids) \in SUBSET Ids
  BY TextsAssumption, SetIDsType
<1>3. ASSUME NEW c \in Client
      PROVE  c.name \in Names /\ c.ids \in SUBSET Ids /\ c # NoClient
  <2>1. PICK n \in Names, t \in Templates : c = jsonToClient(n, t)
    BY DEF Client
  <2> QED
    BY <1>1, <1>2, <2>1, ConstantsAssumption
<1> QED
  BY <1>1, <1>3

(* The maps of an index, apart.                                            *)
LEMMA IndexFacts ==
    ASSUME NEW ix \in IndexType
    PROVE  /\ ix.name \in [Names -> UIDs \cup {NoUID}]
           /\ ix.id \in [Kinds -> [Strings -> UIDs \cup {NoUID}]]
           /\ ix.client \in [UIDs -> Client \cup {NoClient}]
BY DEF IndexType

(* index.add keeps the maps in agreement when clashes has found nothing.   *)
LEMMA AddAgrees ==
    ASSUME NEW ix \in IndexType, Agree(ix), NEW u \in UIDs, NEW c \in Client,
           ix.client[u] = NoClient, ~clashes(ix, u, c)
    PROVE  /\ add(ix, u, c) \in IndexType
           /\ Agree(add(ix, u, c))
<1> DEFINE new == add(ix, u, c)
<1>1. /\ new.name = [ix.name EXCEPT ![c.name] = u]
      /\ new.id = [k \in Kinds |-> [s \in Strings |->
                      IF <<k, s>> \in c.ids THEN u ELSE ix.id[k][s]]]
      /\ new.client = [ix.client EXCEPT ![u] = c]
      /\ new = [name |-> new.name, id |-> new.id, client |-> new.client]
  BY DEF add
<1>2. c.name \in Names /\ c.ids \in SUBSET Ids /\ c # NoClient
  BY ClientFacts
<1>3. new \in IndexType
  <2>1. new.name \in [Names -> UIDs \cup {NoUID}]
    BY <1>1, <1>2, IndexFacts
  <2>2. new.id \in [Kinds -> [Strings -> UIDs \cup {NoUID}]]
    BY <1>1, IndexFacts
  <2>3. new.client \in [UIDs -> Client \cup {NoClient}]
    BY <1>1, IndexFacts
  <2> HIDE DEF new
  <2> QED
    BY <1>1, <2>1, <2>2, <2>3 DEF IndexType
<1>4. ix.name[c.name] \in {NoUID, u}
  BY DEF clashes
<1>5. \A k \in Kinds, s \in Strings : <<k, s>> \in c.ids => ix.id[k][s] \in {NoUID, u}
  <2> SUFFICES ASSUME NEW k \in Kinds, NEW s \in Strings, <<k, s>> \in c.ids
               PROVE  ix.id[k][s] \in {NoUID, u}
    OBVIOUS
  <2> QED
    BY DEF clashes
<1> HIDE DEF new
<1>6. ASSUME NEW n \in Names, NEW v \in UIDs
      PROVE  new.name[n] = v <=> (new.client[v] # NoClient /\ new.client[v].name = n)
  <2>1. ix.name[n] = v <=> (ix.client[v] # NoClient /\ ix.client[v].name = n)
    BY DEF Agree
  <2>2. ix.name[c.name] # v \/ v = u
    BY <1>4, ConstantsAssumption
  <2>3. new.name[n] = IF n = c.name THEN u ELSE ix.name[n]
    BY <1>1, <1>2, IndexFacts
  <2>4. new.client[v] = IF v = u THEN c ELSE ix.client[v]
    BY <1>1, IndexFacts
  <2> QED
    BY <1>2, <2>1, <2>2, <2>3, <2>4
<1>7. ASSUME NEW k \in Kinds, NEW s \in Strings, NEW v \in UIDs
      PROVE  new.id[k][s] = v <=> (new.client[v] # NoClient /\ <<k, s>> \in new.client[v].ids)
  <2>1. ix.id[k][s] = v <=> (ix.client[v] # NoClient /\ <<k, s>> \in ix.client[v].ids)
    BY DEF Agree
  <2>2. <<k, s>> \in c.ids => (ix.id[k][s] # v \/ v = u)
    BY <1>5, ConstantsAssumption
  <2>3. new.id[k][s] = IF <<k, s>> \in c.ids THEN u ELSE ix.id[k][s]
    BY <1>1
  <2>4. new.client[v] = IF v = u THEN c ELSE ix.client[v]
    BY <1>1, IndexFacts
  <2> QED
    BY <1>2, <2>1, <2>2, <2>3, <2>4
<1> QED
  BY <1>3, <1>6, <1>7 DEF Agree, new

(* index.remove keeps the maps in agreement, frees the UID, and creates no *)
(* new clash.                                                              *)
LEMMA RemoveAgrees ==
    ASSUME NEW ix \in IndexType, Agree(ix), NEW u \in UIDs, ix.client[u] # NoClient
    PROVE  /\ remove(ix, u) \in IndexType
           /\ Agree(remove(ix, u))
           /\ remove(ix, u).client = [ix.client EXCEPT ![u] = NoClient]
           /\ \A c \in Client : ~clashes(ix, u, c) => ~clashes(remove(ix, u), u, c)
<1> DEFINE new == remove(ix, u)
           c == ix.client[u]
<1>1. /\ new.name = [ix.name EXCEPT ![c.name] = NoUID]
      /\ new.id = [k \in Kinds |-> [s \in Strings |->
                      IF <<k, s>> \in c.ids THEN NoUID ELSE ix.id[k][s]]]
      /\ new.client = [ix.client EXCEPT ![u] = NoClient]
      /\ new = [name |-> new.name, id |-> new.id, client |-> new.client]
  BY DEF remove
<1>2. c \in Client
  BY IndexFacts
<1>3. c.name \in Names /\ c.ids \in SUBSET Ids
  BY <1>2, ClientFacts
<1> HIDE DEF new
<1>4. new \in IndexType
  <2>1. new.name \in [Names -> UIDs \cup {NoUID}]
    BY <1>1, <1>3, IndexFacts
  <2>2. new.id \in [Kinds -> [Strings -> UIDs \cup {NoUID}]]
    BY <1>1, IndexFacts
  <2>3. new.client \in [UIDs -> Client \cup {NoClient}]
    BY <1>1, IndexFacts
  <2> QED
    BY <1>1, <2>1, <2>2, <2>3 DEF IndexType
<1>5. ix.name[c.name] = u
  BY <1>3 DEF Agree
<1>6. ASSUME NEW n \in Names, NEW v \in UIDs
      PROVE  new.name[n] = v <=> (new.client[v] # NoClient /\ new.client[v].name = n)
  <2>1. ix.name[n] = v <=> (ix.client[v] # NoClient /\ ix.client[v].name = n)
    BY DEF Agree
  <2>2. new.name[n] = IF n = c.name THEN NoUID ELSE ix.name[n]
    BY <1>1, <1>3, IndexFacts
  <2>3. new.client[v] = IF v = u THEN NoClient ELSE ix.client[v]
    BY <1>1, IndexFacts
  <2> QED
    BY <1>5, <2>1, <2>2, <2>3, ConstantsAssumption
<1>7. \A k \in Kinds, s \in Strings : <<k, s>> \in c.ids => ix.id[k][s] = u
  BY DEF Agree
<1>8. ASSUME NEW k \in Kinds, NEW s \in Strings, NEW v \in UIDs
      PROVE  new.id[k][s] = v <=> (new.client[v] # NoClient /\ <<k, s>> \in new.client[v].ids)
  <2>1. ix.id[k][s] = v <=> (ix.client[v] # NoClient /\ <<k, s>> \in ix.client[v].ids)
    BY DEF Agree
  <2>2. new.id[k][s] = IF <<k, s>> \in c.ids THEN NoUID ELSE ix.id[k][s]
    BY <1>1
  <2>3. new.client[v] = IF v = u THEN NoClient ELSE ix.client[v]
    BY <1>1, IndexFacts
  <2> QED
    BY <1>7, <2>1, <2>2, <2>3, ConstantsAssumption
<1>9. ASSUME NEW d \in Client, ~clashes(ix, u, d)
      PROVE  ~clashes(new, u, d)
  <2>1. d.name \in Names /\ d.ids \in SUBSET Ids
    BY ClientFacts
  <2>2. new.name[d.name] \in {NoUID, u}
    <3>1. ix.name[d.name] \in {NoUID, u}
      BY <1>9 DEF clashes
    <3> QED
      BY <1>1, <1>3, <2>1, <3>1, IndexFacts
  <2>3. ASSUME NEW id \in d.ids
        PROVE  new.id[id[1]][id[2]] \in {NoUID, u}
    <3>1. ix.id[id[1]][id[2]] \in {NoUID, u}
      BY <1>9 DEF clashes
    <3>2. id[1] \in Kinds /\ id[2] \in Strings
      BY <2>1 DEF Ids
    <3> QED
      BY <1>1, <3>1, <3>2
  <2> QED
    BY <2>2, <2>3 DEF clashes
<1> QED
  BY <1>1, <1>4, <1>6, <1>8, <1>9 DEF Agree, new

(* Clients of a file that loads share neither a name nor an identifier:    *)
(* the clash tests of NewStorage on the maps are as good as a comparison   *)
(* of any two of them.                                                     *)
LEMMA LoadsFacts ==
    ASSUME NEW reg \in [UIDs -> Client \cup {NoClient}]
    PROVE  Loads(reg) <=>
            \A u, v \in UIDs :
                (u # v /\ reg[u] # NoClient /\ reg[v] # NoClient)
                    => reg[u].name # reg[v].name /\ reg[u].ids \cap reg[v].ids = {}
<1> SUFFICES ASSUME NEW u \in UIDs, NEW v \in UIDs, u # v,
                    reg[u] # NoClient, reg[v] # NoClient
             PROVE  ~clashes(add(newIndex, u, reg[u]), v, reg[v])
                    <=> (reg[u].name # reg[v].name /\ reg[u].ids \cap reg[v].ids = {})
  BY DEF Loads
<1> DEFINE c == reg[u]
           d == reg[v]
           ix == add(newIndex, u, c)
<1>1. c \in Client /\ d \in Client
  OBVIOUS
<1>2. /\ c.name \in Names /\ c.ids \in SUBSET Ids
      /\ d.name \in Names /\ d.ids \in SUBSET Ids
  BY <1>1, ClientFacts
<1>3. ix.name[d.name] = IF d.name = c.name THEN u ELSE NoUID
  BY <1>2 DEF add, newIndex
<1>4. ASSUME NEW id \in d.ids
      PROVE  ix.id[id[1]][id[2]] = IF id \in c.ids THEN u ELSE NoUID
  <2>1. PICK k \in Kinds, s \in Strings : id = <<k, s>>
    BY <1>2 DEF Ids
  <2> QED
    BY <2>1 DEF add, newIndex
<1> HIDE DEF c, d, ix
<1>5. clashes(ix, v, d) <=> \/ ix.name[d.name] \notin {NoUID, v}
                            \/ \E id \in d.ids : ix.id[id[1]][id[2]] \notin {NoUID, v}
  BY DEF clashes
<1>6. ~clashes(ix, v, d) <=> (c.name # d.name /\ c.ids \cap d.ids = {})
  BY <1>3, <1>4, <1>5, ConstantsAssumption
<1> QED
  BY <1>6 DEF c, d, ix

(* NewStorage makes maps that agree.                                       *)
LEMMA LoadedAgrees ==
    ASSUME NEW reg \in [UIDs -> Client \cup {NoClient}], Loads(reg)
    PROVE  /\ loaded(reg) \in IndexType
           /\ Agree(loaded(reg))
           /\ loaded(reg).client = reg
<1> DEFINE Holder(us) == IF us = {} THEN NoUID ELSE CHOOSE u \in us : TRUE
           Named(n) == {u \in {u \in UIDs : reg[u] # NoClient} : reg[u].name = n}
           With(k, s) == {u \in {u \in UIDs : reg[u] # NoClient} : <<k, s>> \in reg[u].ids}
           ix == loaded(reg)
<1>1. /\ ix.name = [n \in Names |-> Holder(Named(n))]
      /\ ix.id = [k \in Kinds |-> [s \in Strings |-> Holder(With(k, s))]]
      /\ ix.client = reg
      /\ ix = [name |-> ix.name, id |-> ix.id, client |-> ix.client]
  BY DEF loaded
<1>2. \A us \in SUBSET UIDs :
        /\ Holder(us) \in UIDs \cup {NoUID}
        /\ us # {} => Holder(us) \in us
        /\ us = {} => Holder(us) = NoUID
  OBVIOUS
<1>3. /\ \A n \in Names : Named(n) \in SUBSET UIDs
      /\ \A k \in Kinds, s \in Strings : With(k, s) \in SUBSET UIDs
  OBVIOUS
<1>4. \A u, v \in UIDs :
        (u # v /\ reg[u] # NoClient /\ reg[v] # NoClient)
            => reg[u].name # reg[v].name /\ reg[u].ids \cap reg[v].ids = {}
  BY LoadsFacts
<1>5. ASSUME NEW n \in Names, NEW u \in UIDs
      PROVE  Holder(Named(n)) = u <=> (reg[u] # NoClient /\ reg[u].name = n)
  <2>1. u \in Named(n) <=> (reg[u] # NoClient /\ reg[u].name = n)
    OBVIOUS
  <2>2. \A v \in Named(n) : v \in UIDs /\ (u \in Named(n) => v = u)
    BY <1>4
  <2> HIDE DEF Holder, Named
  <2> QED
    BY <1>2, <1>3, <2>1, <2>2, ConstantsAssumption
<1>6. ASSUME NEW k \in Kinds, NEW s \in Strings, NEW u \in UIDs
      PROVE  Holder(With(k, s)) = u <=> (reg[u] # NoClient /\ <<k, s>> \in reg[u].ids)
  <2>1. u \in With(k, s) <=> (reg[u] # NoClient /\ <<k, s>> \in reg[u].ids)
    OBVIOUS
  <2>2. \A v \in With(k, s) : v \in UIDs /\ (u \in With(k, s) => v = u)
    BY <1>4
  <2> HIDE DEF Holder, With
  <2> QED
    BY <1>2, <1>3, <2>1, <2>2, ConstantsAssumption
<1> HIDE DEF Holder, Named, With, ix
<1>7. ix \in IndexType
  <2>1. ix.name \in [Names -> UIDs \cup {NoUID}]
    BY <1>1, <1>2, <1>3
  <2>2. ix.id \in [Kinds -> [Strings -> UIDs \cup {NoUID}]]
    BY <1>1, <1>2, <1>3
  <2> QED
    BY <1>1, <2>1, <2>2 DEF IndexType
<1>8. Agree(ix)
  BY <1>1, <1>5, <1>6 DEF Agree
<1> QED
  BY <1>1, <1>7, <1>8 DEF ix

-----------------------------------------------------------------------------
(* Steps of the lookups, of the upstreams and of DHCP.                     *)
Others ==
    \/ UpdateCommonUpstreamConfig
    \/ \E r \in Requests :
        CustomUpstreamConfig(r[1], r[2]) \/ ApplyClientFiltering(r[1], r[2])
    \/ ApplyStep
    \/ \E l \in Leases : LeaseChanges(l[1], l[2])
    \/ Shutdown

(* None of them touches the index, the file or the handler that changes    *)
(* clients.                                                                *)
LEMMA OthersKeep == Others => UNCHANGED <<index, saved, writer>>
BY DEF Others, UpdateCommonUpstreamConfig, CustomUpstreamConfig, ApplyClientFiltering,
       ApplyStep, Lookup, ApplyLoad, LeaseChanges, Shutdown

(* The maps of an index that agrees lead to clients.                       *)
LEMMA NameFacts ==
    ASSUME StorageInv, NEW n \in Names, index.name[n] # NoUID
    PROVE  index.name[n] \in UIDs /\ index.client[index.name[n]] # NoClient
BY IndexFacts DEF StorageInv, Agree

(* The written file reads back as the same clients: the identifiers are    *)
(* written as texts, and SetIDs makes of them what it made before.         *)
LEMMA ForConfigFacts ==
    ASSUME NEW ix \in IndexType
    PROVE  forConfig(ix) = ix.client
<1>1. ASSUME NEW u \in UIDs, ix.client[u] # NoClient
      PROVE  [ix.client[u] EXCEPT !.ids = SetIDs({id[2] : id \in @})] = ix.client[u]
  <2>1. PICK n \in Names, t \in Templates : ix.client[u] = jsonToClient(n, t)
    BY <1>1, IndexFacts DEF Client
  <2>2. \A s \in Strings : setID(setID(s)[2]) = setID(s) /\ setID(s)[2] \in Strings
    BY ConstantsAssumption, TextsAssumption DEF setID
  <2>3. SetIDs({id[2] : id \in SetIDs(t.ids)}) = SetIDs(t.ids)
    BY <2>2, TextsAssumption DEF SetIDs
  <2> QED
    BY <2>1, <2>3 DEF jsonToClient
<1> QED
  BY <1>1, IndexFacts DEF forConfig

(* The first state has empty maps.                                         *)
LEMMA StorageInit == Init => StorageInv
<1> SUFFICES ASSUME Init PROVE StorageInv
  OBVIOUS
<1>1. index = newIndex /\ writer = Idle /\ saved \in [UIDs -> Client \cup {NoClient}]
  BY ConstantsAssumption DEF Init
<1>2. newIndex \in IndexType
  BY DEF newIndex, IndexType
<1>3. Agree(newIndex)
  BY ConstantsAssumption DEF newIndex, Agree
<1> QED
  BY <1>1, <1>2, <1>3 DEF StorageInv, WriterInv

(* Every step of the handlers, and a restart, keeps the maps in agreement. *)
LEMMA StorageStep == StorageInv /\ [Next]_vars => StorageInv'
<1> SUFFICES ASSUME StorageInv, [Next]_vars PROVE StorageInv'
  OBVIOUS
<1> USE DEF StorageInv
<1>0. Idle.pc = "idle" /\ [Idle EXCEPT !.pc = "save"].pc = "save"
  BY DEF Idle
<1>1. ASSUME NEW n \in Names, NEW t \in Templates, NEW u \in UIDs, handleAddClient(u, n, t)
      PROVE  StorageInv'
  <2> DEFINE c == jsonToClient(n, t)
  <2>1. /\ index' = add(index, u, c) /\ saved' = saved
        /\ writer' = [Idle EXCEPT !.pc = "save"]
        /\ index.client[u] = NoClient /\ ~clashes(index, u, c)
    BY <1>1 DEF handleAddClient, Add, clashesUID
  <2>2. c \in Client
    BY ClientFacts
  <2> HIDE DEF c
  <2>3. add(index, u, c) \in IndexType /\ Agree(add(index, u, c))
    BY <2>1, <2>2, AddAgrees
  <2> QED
    BY <2>1, <2>3 DEF WriterInv, Idle, Agree
<1>2. ASSUME NEW n \in Names, NEW t \in Templates, NEW old \in Names,
             handleUpdateClient(old, n, t)
      PROVE  StorageInv'
  <2> DEFINE c == jsonToClient(n, t)
             u == index.name[old]
  <2>1. /\ u # NoUID /\ ~clashes(index, u, c)
        /\ index' = remove(index, u) /\ saved' = saved
        /\ writer' = [pc |-> "readd", uid |-> u, old |-> index.client[u], new |-> c]
    BY <1>2 DEF handleUpdateClient
  <2>2. u \in UIDs /\ index.client[u] # NoClient /\ c \in Client
    BY <2>1, NameFacts, ClientFacts
  <2> HIDE DEF c, u
  <2>3. /\ remove(index, u) \in IndexType /\ Agree(remove(index, u))
        /\ remove(index, u).client = [index.client EXCEPT ![u] = NoClient]
        /\ ~clashes(remove(index, u), u, c)
    BY <2>1, <2>2, RemoveAgrees
  <2>4. remove(index, u).client[u] = NoClient
    BY <2>2, <2>3, IndexFacts
  <2>5. WriterInv'
    BY <2>1, <2>2, <2>3, <2>4 DEF WriterInv, clashes
  <2> QED
    BY <2>1, <2>3, <2>5 DEF Agree
<1>3. ASSUME NEW n \in Names, handleDelClient(n)
      PROVE  StorageInv'
  <2> DEFINE u == index.name[n]
  <2>1. /\ u # NoUID /\ index' = remove(index, u) /\ saved' = saved
        /\ writer' = [Idle EXCEPT !.pc = "save"]
    BY <1>3 DEF handleDelClient, RemoveByName
  <2>2. u \in UIDs /\ index.client[u] # NoClient
    BY <2>1, NameFacts
  <2> HIDE DEF u
  <2>3. remove(index, u) \in IndexType /\ Agree(remove(index, u))
    BY <2>2, RemoveAgrees
  <2> QED
    BY <2>1, <2>3 DEF WriterInv, Idle, Agree
<1>4. ASSUME UpdateAdd
      PROVE  StorageInv'
  <2>1. /\ writer.pc = "readd" /\ index' = add(index, writer.uid, writer.new)
        /\ writer' = [Idle EXCEPT !.pc = "save"] /\ saved' = saved
    BY <1>4 DEF UpdateAdd, Locked
  <2>2. /\ writer.uid \in UIDs /\ writer.new \in Client
        /\ index.client[writer.uid] = NoClient /\ ~clashes(index, writer.uid, writer.new)
    BY <1>0, <2>1 DEF WriterInv
  <2>3. /\ add(index, writer.uid, writer.new) \in IndexType
        /\ Agree(add(index, writer.uid, writer.new))
    BY <2>2, AddAgrees
  <2> QED
    BY <2>1, <2>3 DEF WriterInv, Agree
<1>5. ASSUME onConfigModified
      PROVE  StorageInv'
  <2>1. /\ index' = index /\ writer' = Idle
        /\ saved' = forConfig(index) \/ saved' = saved
    BY <1>5 DEF onConfigModified
  <2>2. saved' \in [UIDs -> Client \cup {NoClient}]
    BY <2>1, ForConfigFacts, IndexFacts
  <2> QED
    BY <2>1, <2>2 DEF WriterInv, Agree
<1>6. ASSUME NewStorage
      PROVE  StorageInv'
  <2>1. /\ index' = loaded(saved) /\ Loads(saved) /\ saved' = saved /\ writer' = Idle
    BY <1>6 DEF NewStorage
  <2>2. loaded(saved) \in IndexType /\ Agree(loaded(saved))
    BY <2>1, LoadedAgrees
  <2> QED
    BY <2>1, <2>2 DEF WriterInv, Agree
<1>7. ASSUME Others \/ UNCHANGED vars
      PROVE  StorageInv'
  <2>1. UNCHANGED <<index, saved, writer>>
    BY <1>7, OthersKeep DEF vars
  <2> QED
    BY <2>1 DEF WriterInv, Agree, clashes
<1> QED
  BY <1>1, <1>2, <1>3, <1>4, <1>5, <1>6, <1>7 DEF Next, Others

(* The inductive invariant of the storage.                                 *)
LEMMA StorageInvariant == Spec => []StorageInv
BY StorageInit, StorageStep, PTL DEF Spec

(* For every set of names, texts and clients, and however requests to add, *)
(* update and delete clients, restarts and lookups follow each other: the  *)
(* six maps of client.index agree in every state, between the two halves   *)
(* of Storage.Update too.                                                  *)
THEOREM MapsAgree == Spec => []IndexesAgree
<1>1. StorageInv => IndexesAgree
  BY DEF StorageInv, Agree, IndexesAgree, Ids
<1> QED
  BY <1>1, StorageInvariant, PTL

-----------------------------------------------------------------------------
(* The clash tests on the maps are as good as a comparison with every      *)
(* other client of the registry.                                           *)
LEMMA ClashesIsConflict ==
    ASSUME StorageInv, NEW u \in UIDs, NEW c \in Client, ~clashes(index, u, c),
           \A v \in UIDs \ {u} : RegistryClients[v] = index.client[v]
    PROVE  Registry!Fits(u, c)
<1> SUFFICES ASSUME NEW v \in UIDs \ {u}, index.client[v] # NoClient
             PROVE  c.name # index.client[v].name /\ c.ids \cap index.client[v].ids = {}
  BY DEF Registry!Fits, Registry!Conflict
<1>1. c.name \in Names /\ c.ids \in SUBSET Ids
  BY ClientFacts
<1>2. c.name # index.client[v].name
  <2>1. index.name[c.name] # v
    BY ConstantsAssumption DEF clashes
  <2> QED
    BY <1>1, <2>1 DEF StorageInv, Agree
<1>3. ASSUME NEW id \in c.ids
      PROVE  id \notin index.client[v].ids
  <2>1. PICK k \in Kinds, s \in Strings : id = <<k, s>>
    BY <1>1 DEF Ids
  <2>2. index.id[k][s] # v
    BY <2>1, ConstantsAssumption DEF clashes
  <2> QED
    BY <2>1, <2>2 DEF StorageInv, Agree
<1> QED
  BY <1>2, <1>3

(* The registry has the clients of the index when no Update is under way.  *)
LEMMA RegistryFacts ==
    ASSUME StorageInv
    PROVE  /\ RegistryClients \in [UIDs -> Client \cup {NoClient, writer.old}]
           /\ writer.pc # "readd" => RegistryClients = index.client
           /\ \A u \in UIDs :
                RegistryClients[u] = IF writer.pc = "readd" /\ u = writer.uid
                                     THEN writer.old ELSE index.client[u]
BY IndexFacts DEF RegistryClients, StorageInv, Locked

(* The first state of the storage is one of the registry's.                *)
LEMMA RegistryInit == Init => Registry!Init
<1> SUFFICES ASSUME Init PROVE Registry!Init
  OBVIOUS
<1>1. StorageInv
  BY StorageInit
<1>2. RegistryClients = [u \in UIDs |-> NoClient]
  BY DEF Init, RegistryClients, Locked, Idle, newIndex
<1>3. saved \in [UIDs -> Client \cup {NoClient}] /\ Loads(saved)
  BY ConstantsAssumption DEF Init
<1>4. Registry!Disjoint(saved)
  BY <1>3, LoadsFacts DEF Registry!Disjoint, Registry!Conflict
<1> QED
  BY <1>2, <1>3, <1>4 DEF Registry!Init

(* Every step of the storage is one of the registry, or leaves it alone.   *)
LEMMA RegistryStep ==
    ASSUME StorageInv, StorageInv', [Next]_vars
    PROVE  [Registry!Next]_Registry!vars
<1>0. Idle.pc = "idle" /\ [Idle EXCEPT !.pc = "save"].pc = "save"
  BY DEF Idle
<1>f. /\ RegistryClients \in [UIDs -> Client \cup {NoClient, writer.old}]
      /\ writer.pc # "readd" => RegistryClients = index.client
      /\ \A u \in UIDs :
            RegistryClients[u] = IF writer.pc = "readd" /\ u = writer.uid
                                 THEN writer.old ELSE index.client[u]
  BY RegistryFacts
<1>g. /\ RegistryClients' \in [UIDs -> Client \cup {NoClient, writer'.old}]
      /\ writer'.pc # "readd" => RegistryClients' = index'.client
      /\ \A u \in UIDs :
            RegistryClients'[u] = IF writer'.pc = "readd" /\ u = writer'.uid
                                  THEN writer'.old ELSE index'.client[u]
  BY IndexFacts DEF RegistryClients, StorageInv, Locked
<1>t. index.client \in [UIDs -> Client \cup {NoClient}]
  BY IndexFacts DEF StorageInv
<1>1. ASSUME NEW n \in Names, NEW t \in Templates, NEW u \in UIDs, handleAddClient(u, n, t)
      PROVE  Registry!Next
  <2> DEFINE c == jsonToClient(n, t)
  <2>1. /\ index' = add(index, u, c) /\ saved' = saved
        /\ writer = Idle /\ writer' = [Idle EXCEPT !.pc = "save"]
        /\ ~clashes(index, u, c)
    BY <1>1 DEF handleAddClient, Add
  <2>2. c \in Client
    BY ClientFacts
  <2> HIDE DEF c
  <2>3. RegistryClients = index.client /\ RegistryClients' = index'.client
    BY <1>0, <1>f, <1>g, <2>1
  <2>4. Registry!Fits(u, c)
    BY <2>1, <2>2, <2>3, ClashesIsConflict
  <2>5. RegistryClients' = [RegistryClients EXCEPT ![u] = c]
    BY <2>1, <2>3 DEF add
  <2> QED
    BY <2>1, <2>2, <2>4, <2>5 DEF Registry!Next, Registry!Put
<1>2. ASSUME NEW n \in Names, NEW t \in Templates, NEW old \in Names,
             handleUpdateClient(old, n, t)
      PROVE  UNCHANGED <<RegistryClients, saved>>
  <2> DEFINE c == jsonToClient(n, t)
             u == index.name[old]
  <2>1. /\ u # NoUID /\ saved' = saved /\ writer = Idle
        /\ index' = remove(index, u)
        /\ writer' = [pc |-> "readd", uid |-> u, old |-> index.client[u], new |-> c]
    BY <1>2 DEF handleUpdateClient
  <2>2. u \in UIDs /\ index.client[u] # NoClient
    BY <2>1, NameFacts
  <2> HIDE DEF c, u
  <2>3. index'.client = [index.client EXCEPT ![u] = NoClient]
    BY <2>1 DEF remove
  <2>4. ASSUME NEW v \in UIDs
        PROVE  RegistryClients'[v] = RegistryClients[v]
    BY <1>0, <1>f, <1>g, <1>t, <2>1, <2>2, <2>3
  <2> QED
    BY <1>f, <1>g, <2>1, <2>4
<1>3. ASSUME NEW n \in Names, handleDelClient(n)
      PROVE  Registry!Next
  <2> DEFINE u == index.name[n]
  <2>1. /\ u # NoUID /\ index' = remove(index, u) /\ saved' = saved
        /\ writer = Idle /\ writer' = [Idle EXCEPT !.pc = "save"]
    BY <1>3 DEF handleDelClient, RemoveByName
  <2>2. u \in UIDs /\ index.client[u] # NoClient
    BY <2>1, NameFacts
  <2> HIDE DEF u
  <2>3. RegistryClients = index.client /\ RegistryClients' = index'.client
    BY <1>0, <1>f, <1>g, <2>1
  <2>4. RegistryClients' = [RegistryClients EXCEPT ![u] = NoClient]
    BY <2>1, <2>3 DEF remove
  <2> QED
    BY <2>1, <2>2, <2>3, <2>4 DEF Registry!Next, Registry!Remove
<1>4. ASSUME UpdateAdd
      PROVE  Registry!Next
  <2> DEFINE u == writer.uid
             c == writer.new
  <2>1. /\ writer.pc = "readd" /\ index' = add(index, u, c)
        /\ writer' = [Idle EXCEPT !.pc = "save"] /\ saved' = saved
    BY <1>4 DEF UpdateAdd, Locked
  <2>2. u \in UIDs /\ c \in Client /\ ~clashes(index, u, c)
    BY <1>0, <2>1 DEF StorageInv, WriterInv
  <2>3. \A v \in UIDs \ {u} : RegistryClients[v] = index.client[v]
    BY <1>f
  <2>4. Registry!Fits(u, c)
    BY <2>2, <2>3, ClashesIsConflict
  <2>5. RegistryClients' = index'.client
    BY <1>0, <1>g, <2>1
  <2>6. index'.client = [index.client EXCEPT ![u] = c]
    BY <2>1 DEF add
  <2> HIDE DEF u, c
  <2>7. RegistryClients' = [RegistryClients EXCEPT ![u] = c]
    BY <1>f, <1>t, <2>2, <2>3, <2>5, <2>6
  <2> QED
    BY <2>1, <2>2, <2>4, <2>7 DEF Registry!Next, Registry!Put
<1>5. ASSUME onConfigModified
      PROVE  [Registry!Next]_Registry!vars
  <2>1. /\ index' = index /\ writer' = Idle /\ writer.pc = "save"
        /\ saved' = forConfig(index) \/ saved' = saved
    BY <1>5 DEF onConfigModified
  <2>2. RegistryClients = index.client /\ RegistryClients' = index.client
    BY <1>0, <1>f, <1>g, <2>1
  <2>3. forConfig(index) = index.client
    BY ForConfigFacts DEF StorageInv
  <2> QED
    BY <2>1, <2>2, <2>3 DEF Registry!Next, Registry!Save, Registry!vars
<1>6. ASSUME NewStorage
      PROVE  Registry!Next
  <2>1. index' = loaded(saved) /\ saved' = saved /\ writer' = Idle
    BY <1>6 DEF NewStorage
  <2>2. RegistryClients' = index'.client
    BY <1>0, <1>g, <2>1
  <2>3. index'.client = saved
    BY <2>1 DEF loaded
  <2> QED
    BY <2>1, <2>2, <2>3 DEF Registry!Next, Registry!Reload
<1>7. ASSUME Others \/ UNCHANGED vars
      PROVE  UNCHANGED <<RegistryClients, saved>>
  <2>1. UNCHANGED <<index, saved, writer>>
    BY <1>7, OthersKeep DEF vars
  <2> QED
    BY <2>1 DEF RegistryClients, Locked
<1> QED
  BY <1>1, <1>2, <1>3, <1>4, <1>5, <1>6, <1>7 DEF Next, Others, Registry!vars

(* The storage with its six maps, its Update in two steps and its file of  *)
(* texts implements the registry of clients with disjoint names and        *)
(* identifiers, for all values of the constants.                           *)
THEOREM StorageImplementsRegistry == Spec => ImplementsRegistry
<1>1. Init => Registry!Init
  BY RegistryInit
<1>2. StorageInv /\ StorageInv' /\ [Next]_vars => [Registry!Next]_Registry!vars
  BY RegistryStep
<1> QED
  BY <1>1, <1>2, StorageInvariant, PTL DEF Spec, ImplementsRegistry, Registry!Spec

-----------------------------------------------------------------------------
(* Min gives the least element of a set of natural numbers that has one.   *)
LEMMA MinFacts ==
    ASSUME NEW S, S \subseteq Nat, S # {}
    PROVE  Min(S) \in S /\ \A y \in S : Min(S) <= y
<1> DEFINE R == OpToRel(<, Nat)
<1>1. IsWellFoundedOn(R, Nat)
  BY NatLessThanWellFounded
<1>2. \A i, j \in Nat : i < j => <<i, j>> \in R
  BY DEF OpToRel
<1> HIDE DEF R
<1>3. PICK x \in S : \A y \in S : ~ (<<y, x>> \in R)
  BY <1>1, WFMin
<1>4. \A y \in S : x \in Nat /\ y \in Nat /\ ~(y < x)
  BY <1>2, <1>3
<1>5. \A y \in S : x <= y
  BY <1>4
<1> QED
  BY <1>5 DEF Min

(* First takes the first of two lookups that has found a client.           *)
LEMMA FirstOfTwo ==
    ASSUME NEW a, NEW b
    PROVE  First(<<a, b>>) =
            IF a # NoUID THEN a ELSE b
<1> DEFINE q == <<a, b>>
           found == {i \in 1..Len(q) : q[i] # NoUID}
<1>1. First(q) = IF found = {} THEN NoUID ELSE q[Min(found)]
  BY DEF First
<1>2. found \subseteq {1, 2} /\ found \subseteq Nat
  OBVIOUS
<1>3. (1 \in found <=> a # NoUID) /\ (2 \in found <=> b # NoUID)
  OBVIOUS
<1>4. q[1] = a /\ q[2] = b
  OBVIOUS
<1> HIDE DEF found, q
<1>5. found # {} => Min(found) \in found /\ \A y \in found : Min(found) <= y
  BY <1>2, MinFacts
<1>6. a # NoUID => First(q) = a
  <2> SUFFICES ASSUME a # NoUID PROVE Min(found) = 1 /\ found # {}
    BY <1>1, <1>4
  <2>1. 1 \in found /\ Min(found) \in found /\ Min(found) <= 1
    BY <1>3, <1>5
  <2>2. Min(found) \in {1, 2}
    BY <1>2, <1>3, <2>1
  <2> QED
    BY <2>1, <2>2
<1>7. a = NoUID /\ b # NoUID => First(q) = b
  <2> SUFFICES ASSUME a = NoUID /\ b # NoUID PROVE Min(found) = 2 /\ found # {}
    BY <1>1, <1>4
  <2>1. 2 \in found /\ Min(found) \in found /\ Min(found) <= 2
    BY <1>3, <1>5
  <2>2. Min(found) \in {2}
    BY <1>2, <1>3, <2>1
  <2> QED
    BY <2>1, <2>2
<1>8. a = NoUID /\ b = NoUID => First(q) = NoUID
  BY <1>1, <1>2, <1>3
<1> QED
  BY <1>6, <1>7, <1>8 DEF q

(* First takes the first of three lookups that has found a client.         *)
LEMMA FirstOfThree ==
    ASSUME NEW a, NEW b, NEW c
    PROVE  First(<<a, b, c>>) =
            IF a # NoUID THEN a ELSE IF b # NoUID THEN b ELSE c
<1> DEFINE q == <<a, b, c>>
           found == {i \in 1..Len(q) : q[i] # NoUID}
<1>1. First(q) = IF found = {} THEN NoUID ELSE q[Min(found)]
  BY DEF First
<1>2. found \subseteq {1, 2, 3} /\ found \subseteq Nat
  OBVIOUS
<1>3. (1 \in found <=> a # NoUID) /\ (2 \in found <=> b # NoUID) /\ (3 \in found <=> c # NoUID)
  OBVIOUS
<1>4. q[1] = a /\ q[2] = b /\ q[3] = c
  OBVIOUS
<1> HIDE DEF found, q
<1>5. found # {} => Min(found) \in found /\ \A y \in found : Min(found) <= y
  BY <1>2, MinFacts
<1>6. a # NoUID => First(q) = a
  <2> SUFFICES ASSUME a # NoUID PROVE Min(found) = 1 /\ found # {}
    BY <1>1, <1>4
  <2>1. 1 \in found /\ Min(found) \in found /\ Min(found) <= 1
    BY <1>3, <1>5
  <2>2. Min(found) \in {1, 2, 3}
    BY <1>2, <1>3, <2>1
  <2> QED
    BY <2>1, <2>2
<1>7. a = NoUID /\ b # NoUID => First(q) = b
  <2> SUFFICES ASSUME a = NoUID /\ b # NoUID PROVE Min(found) = 2 /\ found # {}
    BY <1>1, <1>4
  <2>1. 2 \in found /\ Min(found) \in found /\ Min(found) <= 2
    BY <1>3, <1>5
  <2>2. Min(found) \in {2, 3}
    BY <1>2, <1>3, <2>1
  <2> QED
    BY <2>1, <2>2
<1>8. a = NoUID /\ b = NoUID /\ c # NoUID => First(q) = c
  <2> SUFFICES ASSUME a = NoUID /\ b = NoUID /\ c # NoUID PROVE Min(found) = 3 /\ found # {}
    BY <1>1, <1>4
  <2>1. 3 \in found /\ Min(found) \in found /\ Min(found) <= 3
    BY <1>3, <1>5
  <2>2. Min(found) \in {3}
    BY <1>2, <1>3, <2>1
  <2> QED
    BY <2>1, <2>2
<1>9. a = NoUID /\ b = NoUID /\ c = NoUID => First(q) = NoUID
  BY <1>1, <1>2, <1>3
<1> QED
  BY <1>6, <1>7, <1>8, <1>9 DEF q

(* First takes the first of four lookups that has found a client.          *)
LEMMA FirstOfFour ==
    ASSUME NEW a, NEW b, NEW c, NEW d
    PROVE  First(<<a, b, c, d>>) =
            IF a # NoUID THEN a ELSE IF b # NoUID THEN b ELSE IF c # NoUID THEN c ELSE d
<1> DEFINE q == <<a, b, c, d>>
           found == {i \in 1..Len(q) : q[i] # NoUID}
<1>1. First(q) = IF found = {} THEN NoUID ELSE q[Min(found)]
  BY DEF First
<1>2. found \subseteq {1, 2, 3, 4} /\ found \subseteq Nat
  OBVIOUS
<1>3. (1 \in found <=> a # NoUID) /\ (2 \in found <=> b # NoUID) /\ (3 \in found <=> c # NoUID) /\ (4 \in found <=> d # NoUID)
  OBVIOUS
<1>4. q[1] = a /\ q[2] = b /\ q[3] = c /\ q[4] = d
  OBVIOUS
<1> HIDE DEF found, q
<1>5. found # {} => Min(found) \in found /\ \A y \in found : Min(found) <= y
  BY <1>2, MinFacts
<1>6. a # NoUID => First(q) = a
  <2> SUFFICES ASSUME a # NoUID PROVE Min(found) = 1 /\ found # {}
    BY <1>1, <1>4
  <2>1. 1 \in found /\ Min(found) \in found /\ Min(found) <= 1
    BY <1>3, <1>5
  <2>2. Min(found) \in {1, 2, 3, 4}
    BY <1>2, <1>3, <2>1
  <2> QED
    BY <2>1, <2>2
<1>7. a = NoUID /\ b # NoUID => First(q) = b
  <2> SUFFICES ASSUME a = NoUID /\ b # NoUID PROVE Min(found) = 2 /\ found # {}
    BY <1>1, <1>4
  <2>1. 2 \in found /\ Min(found) \in found /\ Min(found) <= 2
    BY <1>3, <1>5
  <2>2. Min(found) \in {2, 3, 4}
    BY <1>2, <1>3, <2>1
  <2> QED
    BY <2>1, <2>2
<1>8. a = NoUID /\ b = NoUID /\ c # NoUID => First(q) = c
  <2> SUFFICES ASSUME a = NoUID /\ b = NoUID /\ c # NoUID PROVE Min(found) = 3 /\ found # {}
    BY <1>1, <1>4
  <2>1. 3 \in found /\ Min(found) \in found /\ Min(found) <= 3
    BY <1>3, <1>5
  <2>2. Min(found) \in {3, 4}
    BY <1>2, <1>3, <2>1
  <2> QED
    BY <2>1, <2>2
<1>9. a = NoUID /\ b = NoUID /\ c = NoUID /\ d # NoUID => First(q) = d
  <2> SUFFICES ASSUME a = NoUID /\ b = NoUID /\ c = NoUID /\ d # NoUID PROVE Min(found) = 4 /\ found # {}
    BY <1>1, <1>4
  <2>1. 4 \in found /\ Min(found) \in found /\ Min(found) <= 4
    BY <1>3, <1>5
  <2>2. Min(found) \in {4}
    BY <1>2, <1>3, <2>1
  <2> QED
    BY <2>1, <2>2
<1>10. a = NoUID /\ b = NoUID /\ c = NoUID /\ d = NoUID => First(q) = NoUID
  BY <1>1, <1>2, <1>3
<1> QED
  BY <1>6, <1>7, <1>8, <1>9, <1>10 DEF q

(* The subnets of the model are texts.                                     *)
LEMMA SubnetFacts ==
    /\ Len(Subnets) \in Nat
    /\ \A i \in 1..Len(Subnets) : Subnets[i] \in Nets /\ Subnets[i] \in Strings
    /\ Nets \subseteq Strings
BY ConstantsAssumption DEF Nets

(* A lookup gives a UID or nothing.                                        *)
LEMMA LookupTypes ==
    ASSUME NEW ix \in IndexType, dhcp \in [IPs -> MACs \cup {NoAddr}]
    PROVE  /\ \A s \in Strings \cup {NoAddr} : findByClientID(ix, s) \in UIDs \cup {NoUID}
           /\ \A s \in Strings \cup {NoAddr} : findByMAC(ix, s) \in UIDs \cup {NoUID}
           /\ \A s \in IPs \cup {NoAddr} : findByIP(ix, s) \in UIDs \cup {NoUID}
           /\ \A s \in IPs \cup {NoAddr} : MACByIP(s) \in MACs \cup {NoAddr}
<1>1. ix.id \in [Kinds -> [Strings -> UIDs \cup {NoUID}]]
  BY IndexFacts
<1>2. \A k \in Kinds, s \in Strings : ix.id[k][s] \in UIDs \cup {NoUID}
  BY <1>1
<1>3. {"ip", "net", "mac", "cid"} \subseteq Kinds
  BY DEF Kinds
<1>4. \A s \in Strings \cup {NoAddr} : findByClientID(ix, s) \in UIDs \cup {NoUID}
  BY <1>2, <1>3 DEF findByClientID
<1>5. \A s \in Strings \cup {NoAddr} : findByMAC(ix, s) \in UIDs \cup {NoUID}
  BY <1>2, <1>3 DEF findByMAC
<1>6. ASSUME NEW s \in IPs \cup {NoAddr}
      PROVE  findByIP(ix, s) \in UIDs \cup {NoUID}
  <2> DEFINE hits == {i \in 1..Len(Subnets) :
                        <<Subnets[i], s>> \in Contains /\ ix.id["net"][Subnets[i]] # NoUID}
  <2>1. findByIP(ix, s) = IF s = NoAddr THEN NoUID
                          ELSE IF ix.id["ip"][s] # NoUID THEN ix.id["ip"][s]
                          ELSE IF hits # {} THEN ix.id["net"][Subnets[Min(hits)]]
                          ELSE NoUID
    BY DEF findByIP
  <2>2. hits # {} => Min(hits) \in hits
    <3>1. hits \subseteq Nat
      OBVIOUS
    <3> HIDE DEF hits
    <3> QED
      BY <3>1, MinFacts
  <2>3. hits # {} => Subnets[Min(hits)] \in Strings
    BY <2>2, SubnetFacts
  <2>4. s # NoAddr => s \in Strings
    BY ConstantsAssumption
  <2> HIDE DEF hits
  <2> QED
    BY <1>2, <1>3, <2>1, <2>3, <2>4
<1>7. \A s \in IPs \cup {NoAddr} : MACByIP(s) \in MACs \cup {NoAddr}
  BY DEF MACByIP
<1> QED
  BY <1>4, <1>5, <1>6, <1>7

(* What the lookups of a request with a ClientID and an address come to.   *)
Resolve(ix, cid, ip) ==
    IF findByClientID(ix, cid) # NoUID THEN findByClientID(ix, cid)
    ELSE IF findByIP(ix, ip) # NoUID THEN findByIP(ix, ip)
    ELSE findByMAC(ix, MACByIP(ip))

(* Storage.Find and Storage.CustomUpstreamConfig resolve a request.        *)
LEMMA FindIsResolve ==
    ASSUME NEW cid, NEW ip
    PROVE  /\ First(<<findByClientID(index, cid), StorageFindByIP(index, ip)>>)
                = Resolve(index, cid, ip)
           /\ Find(index, [cid |-> cid, ip |-> ip, net |-> NoAddr, mac |-> NoAddr])
                = Resolve(index, cid, ip)
<1>1. StorageFindByIP(index, ip) = IF findByIP(index, ip) # NoUID THEN findByIP(index, ip)
                                   ELSE findByMAC(index, MACByIP(ip))
  BY FirstOfTwo DEF StorageFindByIP
<1>2. First(<<findByClientID(index, cid), StorageFindByIP(index, ip)>>)
        = Resolve(index, cid, ip)
  BY <1>1, FirstOfTwo DEF Resolve
<1>3. findByMAC(index, NoAddr) = NoUID
  BY DEF findByMAC
<1> DEFINE p == [cid |-> cid, ip |-> ip, net |-> NoAddr, mac |-> NoAddr]
<1>4. Find(index, p) = First(<<findByClientID(index, cid), StorageFindByIP(index, ip),
                               NoUID, NoUID>>)
  BY <1>3 DEF Find
<1>5. Find(index, p) = Resolve(index, cid, ip)
  BY <1>1, <1>4, FirstOfFour DEF Resolve
<1> QED
  BY <1>2, <1>5

(* In maps that agree, an entry is the one client that has the identifier. *)
LEMMA HolderFacts ==
    ASSUME index \in IndexType, Agree(index), NEW k \in Kinds
    PROVE  /\ \A s \in Strings :
                {u \in UIDs : index.client[u] # NoClient /\ <<k, s>> \in index.client[u].ids}
                    = IF index.id[k][s] = NoUID THEN {} ELSE {index.id[k][s]}
           /\ {u \in UIDs : index.client[u] # NoClient /\ <<k, NoAddr>> \in index.client[u].ids}
                = {}
<1>1. index.id \in [Kinds -> [Strings -> UIDs \cup {NoUID}]]
  BY IndexFacts
<1>2. \A u \in UIDs : index.client[u] # NoClient => index.client[u].ids \in SUBSET Ids
  BY IndexFacts, ClientFacts
<1>3. \A u \in UIDs : index.client[u] # NoClient => <<k, NoAddr>> \notin index.client[u].ids
  BY <1>2, ConstantsAssumption DEF Ids
<1>4. ASSUME NEW s \in Strings
      PROVE  {u \in UIDs : index.client[u] # NoClient /\ <<k, s>> \in index.client[u].ids}
                = IF index.id[k][s] = NoUID THEN {} ELSE {index.id[k][s]}
  <2>1. index.id[k][s] \in UIDs \cup {NoUID}
    BY <1>1
  <2>2. \A u \in UIDs : index.id[k][s] = u
            <=> (index.client[u] # NoClient /\ <<k, s>> \in index.client[u].ids)
    BY DEF Agree
  <2> QED
    BY <2>1, <2>2, ConstantsAssumption
<1> QED
  BY <1>3, <1>4

(* Resolving a request on maps that agree gives the owner: the longest     *)
(* prefix wins because subnetToUID is sorted and the first hit is taken.   *)
LEMMA ResolveIsOwner ==
    ASSUME index \in IndexType, Agree(index), dhcp \in [IPs -> MACs \cup {NoAddr}],
           NEW cid \in ClientIDs \cup {NoAddr}, NEW ip \in IPs
    PROVE  Owner(cid, ip) = IF Resolve(index, cid, ip) = NoUID THEN {}
                            ELSE {Resolve(index, cid, ip)}
<1> DEFINE Has(k, s) == {u \in UIDs : index.client[u] # NoClient
                                      /\ <<k, s>> \in index.client[u].ids}
           around == {i \in 1..Len(Subnets) : <<Subnets[i], ip>> \in Contains
                                              /\ Has("net", Subnets[i]) # {}}
           hits == {i \in 1..Len(Subnets) : <<Subnets[i], ip>> \in Contains
                                            /\ index.id["net"][Subnets[i]] # NoUID}
           near == IF around = {} THEN {} ELSE Has("net", Subnets[Min(around)])
           choices == <<Has("cid", cid), Has("ip", ip), near, Has("mac", MACByIP(ip))>>
           found == {i \in 1..4 : choices[i] # {}}
           Only(u) == IF u = NoUID THEN {} ELSE {u}
<1>1. Owner(cid, ip) = IF found = {} THEN {} ELSE choices[Min(found)]
  BY DEF Owner
<1>2. "ip" \in Kinds /\ "net" \in Kinds /\ "mac" \in Kinds /\ "cid" \in Kinds
  BY DEF Kinds
<1>3. \A k \in Kinds, s \in Strings : Has(k, s) = Only(index.id[k][s])
  BY HolderFacts
<1>4. \A k \in Kinds : Has(k, NoAddr) = {}
  BY HolderFacts
<1>5. ip \in Strings /\ ip # NoAddr
  BY ConstantsAssumption
<1>6. MACByIP(ip) \in Strings \cup {NoAddr}
  BY LookupTypes, ConstantsAssumption
<1>7. around = hits
  <2> HIDE DEF Has
  <2>1. ASSUME NEW i \in 1..Len(Subnets)
        PROVE  Has("net", Subnets[i]) # {} <=> index.id["net"][Subnets[i]] # NoUID
    <3>1. Subnets[i] \in Strings
      BY SubnetFacts
    <3> QED
      BY <1>2, <1>3, <3>1
  <2> QED
    BY <2>1
<1>8. hits # {} => Min(hits) \in hits
  <2>1. hits \subseteq Nat
    OBVIOUS
  <2> HIDE DEF hits
  <2> QED
    BY <2>1, MinFacts
<1>9. hits # {} => Min(hits) \in 1..Len(Subnets) /\ index.id["net"][Subnets[Min(hits)]] # NoUID
  BY <1>8
<1>10. findByIP(index, ip) =
         IF index.id["ip"][ip] # NoUID THEN index.id["ip"][ip]
         ELSE IF hits # {} THEN index.id["net"][Subnets[Min(hits)]] ELSE NoUID
  BY <1>5 DEF findByIP
<1> HIDE DEF Has, around, hits
<1>11. near = IF hits = {} THEN {} ELSE {index.id["net"][Subnets[Min(hits)]]}
  BY <1>2, <1>3, <1>7, <1>9, SubnetFacts
<1>12. Has("cid", cid) = Only(findByClientID(index, cid))
  BY <1>2, <1>3, <1>4, ConstantsAssumption DEF findByClientID
<1>13. Has("mac", MACByIP(ip)) = Only(findByMAC(index, MACByIP(ip)))
  BY <1>2, <1>3, <1>4, <1>6, ConstantsAssumption DEF findByMAC
<1>14. Has("ip", ip) = Only(index.id["ip"][ip])
  BY <1>2, <1>3, <1>5
<1>15. choices[1] = Has("cid", cid) /\ choices[2] = Has("ip", ip) /\ choices[3] = near
       /\ choices[4] = Has("mac", MACByIP(ip))
  OBVIOUS
<1> HIDE DEF choices, near
<1>16. /\ found \subseteq {1, 2, 3, 4} /\ found \subseteq Nat
       /\ \A i \in {1, 2, 3, 4} : i \in found <=> choices[i] # {}
  OBVIOUS
<1> HIDE DEF found
<1>17. found # {} => Min(found) \in found /\ \A y \in found : Min(found) <= y
  BY <1>16, MinFacts
<1>18. ASSUME NEW i \in {1, 2, 3, 4}, i \in found, \A j \in {1, 2, 3, 4} : j < i => j \notin found
       PROVE  Owner(cid, ip) = choices[i]
  <2>1. Min(found) \in {1, 2, 3, 4} /\ Min(found) \in found /\ Min(found) <= i
    BY <1>16, <1>17, <1>18
  <2>2. Min(found) = i
    BY <1>18, <2>1
  <2> QED
    BY <1>1, <1>18, <2>2
<1>19. CASE 1 \in found
  <2>1. Owner(cid, ip) = choices[1] /\ choices[1] # {}
    BY <1>16, <1>18, <1>19
  <2> QED
    BY <1>12, <1>15, <2>1 DEF Resolve
<1>20. CASE 1 \notin found /\ 2 \in found
  <2>1. Owner(cid, ip) = choices[2] /\ choices[2] # {} /\ choices[1] = {}
    BY <1>16, <1>18, <1>20
  <2> QED
    BY <1>10, <1>12, <1>14, <1>15, <2>1 DEF Resolve
<1>21. CASE 1 \notin found /\ 2 \notin found /\ 3 \in found
  <2>1. Owner(cid, ip) = choices[3] /\ choices[3] # {} /\ choices[1] = {} /\ choices[2] = {}
    BY <1>16, <1>18, <1>21
  <2>2. hits # {} /\ Owner(cid, ip) = {index.id["net"][Subnets[Min(hits)]]}
    BY <1>11, <1>15, <2>1
  <2>3. findByClientID(index, cid) = NoUID /\ index.id["ip"][ip] = NoUID
    BY <1>12, <1>14, <1>15, <2>1
  <2>4. findByIP(index, ip) = index.id["net"][Subnets[Min(hits)]] /\ findByIP(index, ip) # NoUID
    BY <1>9, <1>10, <2>2, <2>3
  <2> QED
    BY <2>2, <2>3, <2>4 DEF Resolve
<1>22. CASE 1 \notin found /\ 2 \notin found /\ 3 \notin found /\ 4 \in found
  <2>1. /\ Owner(cid, ip) = choices[4] /\ choices[4] # {}
        /\ choices[1] = {} /\ choices[2] = {} /\ choices[3] = {}
    BY <1>16, <1>18, <1>22
  <2> QED
    BY <1>10, <1>11, <1>12, <1>13, <1>14, <1>15, <2>1 DEF Resolve
<1>23. CASE found = {}
  <2>1. choices[1] = {} /\ choices[2] = {} /\ choices[3] = {} /\ choices[4] = {}
    BY <1>16, <1>23
  <2> QED
    BY <1>1, <1>10, <1>11, <1>12, <1>13, <1>14, <1>15, <1>23, <2>1 DEF Resolve
<1> QED
  BY <1>16, <1>19, <1>20, <1>21, <1>22, <1>23

-----------------------------------------------------------------------------
(* A stored ClientID is a valid one, and nothing else.                     *)
Valid(c) ==
    \A s \in Strings : <<"cid", s>> \in c.ids => s \in ClientIDs \ (IPs \cup Nets \cup MACs)

ValidInv ==
    /\ \A u \in UIDs : index.client[u] # NoClient => Valid(index.client[u])
    /\ \A u \in UIDs : saved[u] # NoClient => Valid(saved[u])
    /\ writer.pc = "readd" => Valid(writer.new)

Settings == {NoSettings, NilClient} \cup {Apply(c) : c \in Client}

ReaderType ==
    [pc : {"idle", "cid", "ip", "mac", "load", "done"}, cid : ClientIDs \cup {NoAddr},
     ip : IPs \cup {NoAddr}, uid : UIDs \cup {NoUID}, got : Settings, raced : BOOLEAN]

(* What a call of ApplyClientFiltering that nothing has come between knows *)
(* after each of its reads.                                                *)
Seen ==
    /\ reader.pc = "ip" => findByClientID(index, reader.cid) = NoUID
    /\ reader.pc = "mac" => /\ findByClientID(index, reader.cid) = NoUID
                            /\ findByIP(index, reader.ip) = NoUID
    /\ reader.pc = "load" => reader.uid = Resolve(index, reader.cid, reader.ip)
    /\ reader.pc = "done" =>
        IF Resolve(index, reader.cid, reader.ip) = NoUID THEN reader.got = NoSettings
        ELSE reader.got = Apply(index.client[Resolve(index, reader.cid, reader.ip)])

LookupInv ==
    /\ dhcp \in [IPs -> MACs \cup {NoAddr}]
    /\ reader \in ReaderType
    /\ reader.pc # "idle" => reader.ip \in IPs
    /\ reader.pc \in {"cid", "ip", "mac", "load"} => reader.got = NoSettings
    /\ reader.pc = "load" => reader.uid # NoUID
    /\ ~reader.raced => Seen

(* What a request gives parses: SetIDs fails otherwise, and the handler    *)
(* with it.                                                                *)
LEMMA ValidFacts ==
    ASSUME NEW n \in Names, NEW t \in Templates, ~SetIDsFails(t.ids)
    PROVE  Valid(jsonToClient(n, t))
<1> SUFFICES ASSUME NEW s \in Strings, <<"cid", s>> \in SetIDs(t.ids)
             PROVE  s \in ClientIDs \ (IPs \cup Nets \cup MACs)
  BY DEF Valid, jsonToClient
<1>1. PICK r \in t.ids : setID(r) = <<"cid", s>>
  BY DEF SetIDs
<1>2. r \in Strings /\ r \notin IPs \cup Nets \cup MACs /\ s = Lower[r]
  BY <1>1, TextsAssumption DEF setID
<1>3. r \in ClientIDs
  BY <1>2 DEF SetIDsFails
<1> QED
  BY <1>2, <1>3, TextsAssumption

(* A client of any kind has no ClientID that parses as something else.     *)
LEMMA ClientIDFacts ==
    ASSUME NEW c \in Client, NEW s \in Strings, <<"cid", s>> \in c.ids
    PROVE  s \notin IPs \cup Nets \cup MACs
<1>1. PICK n \in Names, t \in Templates : c = jsonToClient(n, t)
  BY DEF Client
<1>2. PICK r \in t.ids : setID(r) = <<"cid", s>>
  BY <1>1 DEF SetIDs, jsonToClient
<1>3. r \in Strings /\ r \notin IPs \cup Nets \cup MACs /\ s = Lower[r]
  BY <1>2, TextsAssumption DEF setID
<1> QED
  BY <1>3, TextsAssumption

(* At first there are no clients but those of the file.                    *)
LEMMA ValidInit == Init => ValidInv
<1> SUFFICES ASSUME Init PROVE ValidInv
  OBVIOUS
<1>1. saved \in InitialFiles /\ writer.pc = "idle" /\ \A u \in UIDs : index.client[u] = NoClient
  BY DEF Init, Idle, newIndex
<1>2. ASSUME NEW u \in UIDs, saved[u] # NoClient
      PROVE  Valid(saved[u])
  <2>1. saved[u] \in Client
    BY <1>1, <1>2, ConstantsAssumption
  <2> QED
    BY <1>1, <1>2, <2>1, ClientIDFacts, TextsAssumption DEF Valid
<1> QED
  BY <1>1, <1>2 DEF ValidInv

(* Handlers, restarts and saves keep only valid clients.                   *)
LEMMA ValidStep ==
    ASSUME StorageInv, ValidInv, [Next]_vars
    PROVE  ValidInv'
<1>0. Idle.pc = "idle" /\ [Idle EXCEPT !.pc = "save"].pc = "save"
  BY DEF Idle
<1>t. index.client \in [UIDs -> Client \cup {NoClient}]
  BY IndexFacts DEF StorageInv
<1>1. ASSUME NEW n \in Names, NEW t \in Templates, NEW u \in UIDs, handleAddClient(u, n, t)
      PROVE  ValidInv'
  <2> DEFINE c == jsonToClient(n, t)
  <2>1. /\ index'.client = [index.client EXCEPT ![u] = c] /\ saved' = saved
        /\ writer' = [Idle EXCEPT !.pc = "save"]
    BY <1>1 DEF handleAddClient, Add, add
  <2>2. Valid(c)
    BY <1>1, ValidFacts DEF handleAddClient
  <2> HIDE DEF c
  <2> QED
    BY <1>0, <1>t, <2>1, <2>2 DEF ValidInv, Valid
<1>2. ASSUME NEW n \in Names, NEW t \in Templates, NEW old \in Names,
             handleUpdateClient(old, n, t)
      PROVE  ValidInv'
  <2> DEFINE c == jsonToClient(n, t)
             u == index.name[old]
  <2>1. /\ index'.client = [index.client EXCEPT ![u] = NoClient] /\ saved' = saved
        /\ writer'.new = c
    BY <1>2 DEF handleUpdateClient, remove
  <2>2. Valid(c)
    BY <1>2, ValidFacts DEF handleUpdateClient
  <2> HIDE DEF c, u
  <2> QED
    BY <1>t, <2>1, <2>2 DEF ValidInv, Valid
<1>3. ASSUME NEW n \in Names, handleDelClient(n)
      PROVE  ValidInv'
  <2> DEFINE u == index.name[n]
  <2>1. /\ index'.client = [index.client EXCEPT ![u] = NoClient] /\ saved' = saved
        /\ writer' = [Idle EXCEPT !.pc = "save"]
    BY <1>3 DEF handleDelClient, RemoveByName, remove
  <2> HIDE DEF u
  <2> QED
    BY <1>0, <1>t, <2>1 DEF ValidInv, Valid
<1>4. ASSUME UpdateAdd
      PROVE  ValidInv'
  <2>1. /\ index'.client = [index.client EXCEPT ![writer.uid] = writer.new] /\ saved' = saved
        /\ writer' = [Idle EXCEPT !.pc = "save"] /\ writer.pc = "readd"
    BY <1>4 DEF UpdateAdd, Locked, add
  <2> QED
    BY <1>0, <1>t, <2>1 DEF ValidInv, Valid
<1>5. ASSUME onConfigModified
      PROVE  ValidInv'
  <2>1. /\ index' = index /\ writer' = Idle
        /\ saved' = forConfig(index) \/ saved' = saved
    BY <1>5 DEF onConfigModified
  <2>2. forConfig(index) = index.client
    BY ForConfigFacts DEF StorageInv
  <2> QED
    BY <1>0, <2>1, <2>2 DEF ValidInv, Valid
<1>6. ASSUME NewStorage
      PROVE  ValidInv'
  <2>1. index'.client = saved /\ saved' = saved /\ writer' = Idle
    BY <1>6 DEF NewStorage, loaded
  <2> QED
    BY <1>0, <2>1 DEF ValidInv, Valid
<1>7. ASSUME Others \/ UNCHANGED vars
      PROVE  ValidInv'
  <2>1. UNCHANGED <<index, saved, writer>>
    BY <1>7, OthersKeep DEF vars
  <2> QED
    BY <2>1 DEF ValidInv, Valid
<1> QED
  BY <1>1, <1>2, <1>3, <1>4, <1>5, <1>6, <1>7 DEF Next, Others

(* What a request resolves to is an entry of one of the maps.              *)
LEMMA ResolveFound ==
    ASSUME NEW ix \in IndexType, dhcp \in [IPs -> MACs \cup {NoAddr}],
           NEW cid \in ClientIDs \cup {NoAddr}, NEW ip \in IPs,
           Resolve(ix, cid, ip) # NoUID
    PROVE  \E k \in Kinds, s \in Strings : ix.id[k][s] = Resolve(ix, cid, ip)
<1>1. "ip" \in Kinds /\ "net" \in Kinds /\ "mac" \in Kinds /\ "cid" \in Kinds
  BY DEF Kinds
<1>2. CASE Resolve(ix, cid, ip) = findByClientID(ix, cid)
  BY <1>1, <1>2, ConstantsAssumption DEF findByClientID
<1>3. CASE Resolve(ix, cid, ip) = findByIP(ix, ip)
  <2> DEFINE hits == {i \in 1..Len(Subnets) :
                        <<Subnets[i], ip>> \in Contains /\ ix.id["net"][Subnets[i]] # NoUID}
  <2>1. ip \in Strings /\ ip # NoAddr
    BY ConstantsAssumption
  <2>2. findByIP(ix, ip) = IF ix.id["ip"][ip] # NoUID THEN ix.id["ip"][ip]
                           ELSE IF hits # {} THEN ix.id["net"][Subnets[Min(hits)]]
                           ELSE NoUID
    BY <2>1 DEF findByIP
  <2>3. hits # {} => Min(hits) \in hits
    <3>1. hits \subseteq Nat
      OBVIOUS
    <3> HIDE DEF hits
    <3> QED
      BY <3>1, MinFacts
  <2>4. hits # {} => Subnets[Min(hits)] \in Strings
    BY <2>3, SubnetFacts
  <2> HIDE DEF hits
  <2> QED
    BY <1>1, <1>3, <2>1, <2>2, <2>4
<1>4. CASE Resolve(ix, cid, ip) = findByMAC(ix, MACByIP(ip))
  <2>1. MACByIP(ip) \in MACs \cup {NoAddr}
    BY LookupTypes
  <2> QED
    BY <1>1, <1>4, <2>1, ConstantsAssumption DEF findByMAC
<1> QED
  BY <1>2, <1>3, <1>4 DEF Resolve

(* The settings of a client, those of no client, and the idle lookup.      *)
LEMMA ReaderFacts ==
    /\ NoReader \in ReaderType
    /\ NoReader.pc = "idle"
    /\ \A c \in Client : Apply(c) \in Settings
    /\ NoSettings \in Settings /\ NilClient \in Settings
<1>1. NoSettings \in Settings /\ NilClient \in Settings /\ \A c \in Client : Apply(c) \in Settings
  BY DEF Settings
<1> QED
  BY <1>1 DEF NoReader, ReaderType

(* A change of the maps or of the leases ends a lookup that is done, and   *)
(* marks one that is under way.                                            *)
LEMMA DisturbFacts ==
    ASSUME LookupInv, DisturbReader, dhcp' \in [IPs -> MACs \cup {NoAddr}]
    PROVE  LookupInv'
<1>1. CASE reader.pc = "done"
  BY <1>1, ReaderFacts DEF LookupInv, DisturbReader, Seen
<1>2. CASE reader.pc # "done"
  <2>1. reader' = [reader EXCEPT !.raced = @ \/ reader.pc # "idle"]
    BY <1>2 DEF DisturbReader
  <2>2. /\ reader' \in ReaderType
        /\ reader'.pc = reader.pc /\ reader'.ip = reader.ip /\ reader'.uid = reader.uid
        /\ reader'.got = reader.got
        /\ reader.pc # "idle" => reader'.raced
    BY <2>1 DEF LookupInv, ReaderType
  <2> QED
    BY <2>2 DEF LookupInv, Seen
<1> QED
  BY <1>1, <1>2

(* Every step keeps what the lookups have seen.                            *)
LEMMA LookupStep ==
    ASSUME StorageInv, LookupInv, [Next]_vars
    PROVE  LookupInv'
<1>t. /\ index \in IndexType /\ Agree(index)
      /\ dhcp \in [IPs -> MACs \cup {NoAddr}] /\ reader \in ReaderType
  BY DEF StorageInv, LookupInv
<1>r. /\ reader.pc \in {"idle", "cid", "ip", "mac", "load", "done"}
      /\ reader.cid \in ClientIDs \cup {NoAddr} /\ reader.ip \in IPs \cup {NoAddr}
      /\ reader.uid \in UIDs \cup {NoUID}
  BY <1>t DEF ReaderType
<1>1. ASSUME NEW n \in Names, NEW t \in Templates, NEW u \in UIDs, handleAddClient(u, n, t)
      PROVE  LookupInv'
  BY <1>1, <1>t, DisturbFacts DEF handleAddClient
<1>2. ASSUME NEW n \in Names, NEW t \in Templates, NEW old \in Names,
             handleUpdateClient(old, n, t)
      PROVE  LookupInv'
  BY <1>2, <1>t, DisturbFacts DEF handleUpdateClient
<1>3. ASSUME NEW n \in Names, handleDelClient(n)
      PROVE  LookupInv'
  BY <1>3, <1>t, DisturbFacts DEF handleDelClient
<1>4. ASSUME UpdateAdd
      PROVE  LookupInv'
  BY <1>4, <1>t, DisturbFacts DEF UpdateAdd
<1>5. ASSUME NEW l \in Leases, LeaseChanges(l[1], l[2])
      PROVE  LookupInv'
  <2>1. l[1] \in IPs /\ l[2] \in MACs
    BY ConstantsAssumption
  <2>2. DisturbReader /\ dhcp' \in [IPs -> MACs \cup {NoAddr}]
    BY <1>5, <1>t, <2>1 DEF LeaseChanges
  <2> QED
    BY <2>2, DisturbFacts
<1>6. ASSUME NewStorage
      PROVE  LookupInv'
  <2>1. reader' = NoReader /\ dhcp' = dhcp
    BY <1>6 DEF NewStorage
  <2> QED
    BY <1>t, <2>1, ReaderFacts DEF LookupInv, Seen
<1>7. ASSUME \/ onConfigModified \/ UpdateCommonUpstreamConfig \/ Shutdown
             \/ \E r \in Requests : CustomUpstreamConfig(r[1], r[2])
             \/ UNCHANGED vars
      PROVE  LookupInv'
  <2>1. UNCHANGED <<index, reader, dhcp>>
    BY <1>7 DEF onConfigModified, UpdateCommonUpstreamConfig, CustomUpstreamConfig, Shutdown, vars
  <2> QED
    BY ZenonT(30), <2>1 DEF LookupInv, Seen, Resolve, findByClientID, findByIP, findByMAC, MACByIP, Apply
<1>8. ASSUME NEW r \in Requests, ApplyClientFiltering(r[1], r[2])
      PROVE  LookupInv'
  <2>1. r[1] \in ClientIDs \cup {NoAddr} /\ r[2] \in IPs
    BY ConstantsAssumption
  <2>2. reader' = [NoReader EXCEPT !.pc = "cid", !.cid = r[1], !.ip = r[2]] /\ dhcp' = dhcp
    BY <1>8 DEF ApplyClientFiltering
  <2>3. /\ reader' \in ReaderType /\ reader'.pc = "cid" /\ reader'.ip \in IPs
        /\ reader'.got = NoSettings
    BY <2>1, <2>2, ReaderFacts DEF NoReader, ReaderType
  <2> QED
    BY <1>t, <2>2, <2>3 DEF LookupInv, Seen
<1>9. ASSUME NEW at \in {"cid", "ip", "mac"}, NEW next \in {"ip", "mac", "done"},
             NEW uid \in UIDs \cup {NoUID}, Lookup(at, uid, next),
             /\ at = "cid" => next = "ip" /\ uid = findByClientID(index, reader.cid)
             /\ at = "ip" => next = "mac" /\ uid = findByIP(index, reader.ip)
             /\ at = "mac" => next = "done" /\ uid = findByMAC(index, MACByIP(reader.ip))
      PROVE  LookupInv'
  <2>1. /\ reader.pc = at /\ index' = index /\ dhcp' = dhcp
        /\ reader' = [reader EXCEPT !.uid = uid, !.pc = IF uid # NoUID THEN "load" ELSE next]
    BY <1>9 DEF Lookup, upstreamVars
  <2>2. /\ reader' \in ReaderType
        /\ reader'.pc = IF uid # NoUID THEN "load" ELSE next
        /\ reader'.uid = uid /\ reader'.ip = reader.ip /\ reader'.cid = reader.cid
        /\ reader'.got = reader.got /\ reader'.raced = reader.raced
    BY <1>t, <2>1 DEF ReaderType
  <2>3. reader.ip \in IPs /\ reader.got = NoSettings
    BY <2>1 DEF LookupInv
  <2>4. /\ \A c : findByClientID(index, c)' = findByClientID(index, c)
        /\ \A i : findByIP(index, i)' = findByIP(index, i)
        /\ \A c, i : Resolve(index, c, i)' = Resolve(index, c, i)
    BY <2>1 DEF Resolve, findByClientID, findByIP, findByMAC, MACByIP
  <2>5. ASSUME ~reader.raced
        PROVE  Seen'
    <3>1. Seen
      BY <2>5 DEF LookupInv
    <3>2. CASE at = "cid"
      BY <1>9, <2>1, <2>2, <2>3, <2>4, <3>2 DEF Seen, Resolve
    <3>3. CASE at = "ip"
      BY <1>9, <2>1, <2>2, <2>3, <2>4, <3>1, <3>3 DEF Seen, Resolve
    <3>4. CASE at = "mac"
      BY <1>9, <2>1, <2>2, <2>3, <2>4, <3>1, <3>4 DEF Seen, Resolve
    <3> QED
      BY <3>2, <3>3, <3>4
  <2> QED
    BY <1>t, <2>1, <2>2, <2>3, <2>5 DEF LookupInv
<1>10. ASSUME ApplyLoad
       PROVE  LookupInv'
  <2> DEFINE got == IF index.client[reader.uid] = NoClient THEN NilClient
                    ELSE Apply(index.client[reader.uid])
  <2>1. /\ reader.pc = "load" /\ index' = index /\ dhcp' = dhcp
        /\ reader' = [reader EXCEPT !.pc = "done", !.uid = NoUID, !.got = got]
    BY <1>10 DEF ApplyLoad, upstreamVars
  <2>2. reader.uid \in UIDs /\ reader.ip \in IPs
    BY <1>r, <2>1 DEF LookupInv
  <2>3. got \in Settings
    BY <1>t, <2>2, IndexFacts, ReaderFacts
  <2> HIDE DEF got
  <2>4. /\ reader' \in ReaderType /\ reader'.pc = "done" /\ reader'.ip = reader.ip
        /\ reader'.cid = reader.cid /\ reader'.got = got /\ reader'.raced = reader.raced
    BY <1>t, <2>1, <2>3 DEF ReaderType
  <2>5. ASSUME ~reader.raced
        PROVE  Seen'
    <3> DEFINE u == Resolve(index, reader.cid, reader.ip)
    <3>1. reader.uid = u
      BY <2>1, <2>5 DEF LookupInv, Seen
    <3>2. u \in UIDs /\ u # NoUID
      BY <2>2, <3>1, ConstantsAssumption
    <3>3. index.client[u] # NoClient
      <4>1. \A k \in Kinds, s \in Strings, v \in UIDs :
              index.id[k][s] = v => index.client[v] # NoClient
        BY <1>t DEF Agree
      <4>2. \E k \in Kinds, s \in Strings : index.id[k][s] = u
        BY <1>t, <1>r, <2>2, <3>2, ResolveFound
      <4> QED
        BY <3>2, <4>1, <4>2
    <3>4. got = Apply(index.client[u])
      BY <3>1, <3>3 DEF got
    <3>5. Resolve(index, reader.cid, reader.ip)' = u
      BY <2>1, <2>4 DEF Resolve, findByClientID, findByIP, findByMAC, MACByIP
    <3> QED
      BY <2>1, <2>4, <3>2, <3>4, <3>5 DEF Seen, Apply
  <2> QED
    BY <1>t, <2>1, <2>2, <2>4, <2>5 DEF LookupInv
<1>11. ASSUME ApplyStep
       PROVE  LookupInv'
  <2>1. /\ findByClientID(index, reader.cid) \in UIDs \cup {NoUID}
        /\ findByIP(index, reader.ip) \in UIDs \cup {NoUID}
        /\ findByMAC(index, MACByIP(reader.ip)) \in UIDs \cup {NoUID}
    BY <1>t, <1>r, LookupTypes, ConstantsAssumption
  <2>2. CASE Lookup("cid", findByClientID(index, reader.cid), "ip")
    BY <1>9, <2>1, <2>2
  <2>3. CASE Lookup("ip", findByIP(index, reader.ip), "mac")
    BY <1>9, <2>1, <2>3
  <2>4. CASE Lookup("mac", findByMAC(index, MACByIP(reader.ip)), "done")
    BY <1>9, <2>1, <2>4
  <2> QED
    BY <1>10, <1>11, <2>2, <2>3, <2>4 DEF ApplyStep
<1> QED
  BY <1>1, <1>2, <1>3, <1>4, <1>5, <1>6, <1>7, <1>8, <1>11 DEF Next

(* The first state has no lookup.                                          *)
LEMMA LookupInit == Init => LookupInv
<1> SUFFICES ASSUME Init PROVE LookupInv
  OBVIOUS
<1>1. reader = NoReader /\ dhcp = [s \in IPs |-> NoAddr]
  BY DEF Init
<1> QED
  BY <1>1, ReaderFacts DEF LookupInv, Seen

(* The inductive invariant of the lookups.                                 *)
LEMMA LookupInvariant == Spec => [](StorageInv /\ ValidInv /\ LookupInv)
<1>1. Init => StorageInv /\ ValidInv /\ LookupInv
  BY StorageInit, ValidInit, LookupInit
<1>2. StorageInv /\ ValidInv /\ LookupInv /\ [Next]_vars
        => (StorageInv /\ ValidInv /\ LookupInv)'
  BY StorageStep, ValidStep, LookupStep
<1> QED
  BY <1>1, <1>2, PTL DEF Spec

(* The texts of the identifiers of a client lead to it, in the search      *)
(* handler and in the query log.                                           *)
LEMMA TextsResolve ==
    ASSUME StorageInv, ValidInv, LookupInv
    PROVE  IdentifiersResolve
<1> SUFFICES ASSUME NEW u \in UIDs, NEW s \in Strings, index.client[u] # NoClient,
                    Lower[s] = s, setID(s) \in index.client[u].ids
             PROVE  /\ Find(index, FindParamsSet(s)) = u
                    /\ s \notin Nets => FindLoose(index, s) = u
  BY DEF IdentifiersResolve
<1> DEFINE p == FindParamsSet(s)
<1>t. index \in IndexType /\ Agree(index)
  BY DEF StorageInv
<1>k. "ip" \in Kinds /\ "net" \in Kinds /\ "mac" \in Kinds /\ "cid" \in Kinds
  BY DEF Kinds
<1>n. u # NoUID /\ s # NoAddr
  BY ConstantsAssumption
<1>a. \A k \in Kinds : <<k, s>> \in index.client[u].ids => index.id[k][s] = u
  BY <1>t DEF Agree
<1>c. s \in IPs \cup Nets \cup MACs => findByClientID(index, s) = NoUID
  <2> SUFFICES ASSUME s \in IPs \cup Nets \cup MACs, index.id["cid"][s] # NoUID
               PROVE  FALSE
    BY <1>n DEF findByClientID
  <2>1. index.id["cid"][s] \in UIDs
    BY <1>t, <1>k, IndexFacts
  <2>2. PICK v \in UIDs : index.client[v] # NoClient /\ <<"cid", s>> \in index.client[v].ids
    BY <1>t, <1>k, <2>1 DEF Agree
  <2> QED
    BY <2>2 DEF ValidInv, Valid
<1>e. /\ findByClientID(index, NoAddr) = NoUID /\ findByMAC(index, NoAddr) = NoUID
      /\ StorageFindByIP(index, NoAddr) = NoUID
  <2>1. findByClientID(index, NoAddr) = NoUID /\ findByMAC(index, NoAddr) = NoUID
        /\ findByIP(index, NoAddr) = NoUID /\ MACByIP(NoAddr) = NoAddr
    BY DEF findByClientID, findByMAC, findByIP, MACByIP
  <2> QED
    BY <2>1, FirstOfTwo DEF StorageFindByIP
<1>p. /\ p.ip = (IF s \in IPs THEN s ELSE NoAddr)
      /\ p.mac = (IF s \in MACs THEN s ELSE NoAddr)
      /\ p.net = (IF s \in Nets \ (IPs \cup MACs) THEN s ELSE NoAddr)
      /\ p.cid = (IF s \in ClientIDs \ (IPs \cup MACs \cup Nets) THEN s ELSE NoAddr)
  BY DEF FindParamsSet
<1> SUFFICES Find(index, p) = u /\ (s \notin Nets => FindLoose(index, s) = u)
  OBVIOUS
<1> HIDE DEF p
<1>f. Find(index, p) =
        IF findByClientID(index, p.cid) # NoUID THEN findByClientID(index, p.cid)
        ELSE IF StorageFindByIP(index, p.ip) # NoUID THEN StorageFindByIP(index, p.ip)
        ELSE IF (IF p.net = NoAddr THEN NoUID ELSE findByCIDR(index, p.net)) # NoUID
             THEN findByCIDR(index, p.net)
        ELSE findByMAC(index, p.mac)
  BY FirstOfFour DEF Find
<1>l. FindLoose(index, s) =
        IF findByClientID(index, s) # NoUID THEN findByClientID(index, s)
        ELSE IF s \in IPs /\ findByIP(index, s) # NoUID THEN findByIP(index, s)
        ELSE IF s \in MACs /\ findByMAC(index, s) # NoUID THEN findByMAC(index, s)
        ELSE IF s \in IPs THEN findByMAC(index, MACByIP(s)) ELSE NoUID
  BY FirstOfTwo, FirstOfThree DEF FindLoose, indexFind
<1>1. CASE s \in IPs
  <2>1. index.id["ip"][s] = u
    BY <1>1, <1>a, <1>k DEF setID
  <2>2. findByIP(index, s) = u
    BY <1>n, <2>1 DEF findByIP
  <2>3. StorageFindByIP(index, s) = u
    BY <1>n, <2>2, FirstOfTwo DEF StorageFindByIP
  <2> QED
    BY <1>1, <1>c, <1>e, <1>f, <1>l, <1>n, <1>p, <2>2, <2>3
<1>2. CASE s \in Nets
  <2>1. s \notin IPs /\ s \notin MACs
    BY <1>2, ConstantsAssumption
  <2>2. index.id["net"][s] = u
    BY <1>2, <2>1, <1>a, <1>k DEF setID
  <2>3. p.ip = NoAddr /\ p.mac = NoAddr /\ p.net = s /\ p.cid = NoAddr
    BY <1>2, <1>p, <2>1
  <2> QED
    BY <1>2, <1>e, <1>f, <1>n, <2>2, <2>3 DEF findByCIDR
<1>3. CASE s \in MACs /\ s \notin IPs /\ s \notin Nets
  <2>1. index.id["mac"][s] = u
    BY <1>3, <1>a, <1>k DEF setID
  <2>2. findByMAC(index, s) = u
    BY <1>n, <2>1 DEF findByMAC
  <2>3. p.ip = NoAddr /\ p.mac = s /\ p.net = NoAddr /\ p.cid = NoAddr
    BY <1>3, <1>p
  <2> QED
    BY <1>3, <1>c, <1>e, <1>f, <1>l, <1>n, <2>2, <2>3
<1>4. CASE s \notin IPs \cup Nets \cup MACs
  <2>1. <<"cid", s>> \in index.client[u].ids
    BY <1>4 DEF setID
  <2>2. index.id["cid"][s] = u /\ s \in ClientIDs
    BY <1>a, <1>k, <2>1 DEF ValidInv, Valid
  <2>3. findByClientID(index, s) = u
    BY <1>n, <2>2 DEF findByClientID
  <2>4. p.cid = s
    BY <1>4, <1>p, <2>2
  <2> QED
    BY <1>f, <1>l, <1>n, <2>3, <2>4
<1> QED
  BY <1>1, <1>2, <1>3, <1>4

(* For every set of clients, subnets and leases: a lookup finds the owner  *)
(* of the ClientID or the address, the texts of the identifiers of a       *)
(* client lead to it, and a call of ApplyClientFiltering, which takes no   *)
(* lock, gives the settings of the owner if nothing came in between.       *)
THEOREM LookupsFindOwner == Spec => []FindsOwner
<1>1. ASSUME StorageInv, ValidInv, LookupInv
      PROVE  FindsOwner
  <2>t. /\ index \in IndexType /\ Agree(index) /\ dhcp \in [IPs -> MACs \cup {NoAddr}]
        /\ reader \in ReaderType
    BY <1>1 DEF StorageInv, LookupInv
  <2>1. IdentifiersResolve
    BY <1>1, TextsResolve
  <2>2. ASSUME NEW cid \in ClientIDs \cup {NoAddr}, NEW ip \in IPs
        PROVE  Owner(cid, ip) =
                LET u == Find(index, [cid |-> cid, ip |-> ip, net |-> NoAddr, mac |-> NoAddr])
                IN  IF u = NoUID THEN {} ELSE {u}
    BY <2>t, FindIsResolve, ResolveIsOwner
  <2>3. ASSUME reader.pc = "done", ~reader.raced
        PROVE  LET us == Owner(reader.cid, reader.ip)
               IN  \/ us = {} /\ reader.got = NoSettings
                   \/ \E u \in us : reader.got = Apply(index.client[u])
    <3>1. reader.cid \in ClientIDs \cup {NoAddr} /\ reader.ip \in IPs
      BY <1>1, <2>t, <2>3 DEF LookupInv, ReaderType
    <3>2. Owner(reader.cid, reader.ip)
            = IF Resolve(index, reader.cid, reader.ip) = NoUID THEN {}
              ELSE {Resolve(index, reader.cid, reader.ip)}
      BY <2>t, <3>1, ResolveIsOwner
    <3>3. IF Resolve(index, reader.cid, reader.ip) = NoUID THEN reader.got = NoSettings
          ELSE reader.got = Apply(index.client[Resolve(index, reader.cid, reader.ip)])
      BY <1>1, <2>3 DEF LookupInv, Seen
    <3> QED
      BY <3>2, <3>3
  <2> QED
    BY <2>1, <2>2, <2>3 DEF FindsOwner
<1>2. StorageInv /\ ValidInv /\ LookupInv => FindsOwner
  BY <1>1
<1> QED
  BY <1>2, LookupInvariant, PTL

-----------------------------------------------------------------------------
(* The manager of custom upstreams, while the program serves: an entry for *)
(* each client, the one under update included; no two entries share a      *)
(* built configuration, and none of theirs is closed; an entry is stamped  *)
(* no later than the common settings; and one that is not marked as        *)
(* changed was built from what it holds.                                   *)
Ups == {"none"} \cup {c.ups : c \in Client}
Conf == {NoConf} \cup [n : Nat \ {0}, ups : Ups, ver : Nat]
Custom == [conf : Conf, stamp : Nat, ups : Ups, changed : BOOLEAN, live : BOOLEAN]

EntryInv(u) ==
    /\ custom[u].live <=> (index.client[u] # NoClient \/ (Locked /\ u = writer.uid))
    /\ ~custom[u].live => custom[u].conf = NoConf
    /\ index.client[u] # NoClient => custom[u].ups = index.client[u].ups
    /\ ~custom[u].changed => custom[u].conf.ups = custom[u].ups
    /\ custom[u].conf.n <= builds /\ custom[u].conf.n \notin closed
    /\ custom[u].stamp <= common.stamp
    /\ (~custom[u].changed /\ custom[u].stamp = common.stamp /\ ~tied)
        => custom[u].conf = NoConf \/ custom[u].conf.ver = common.ver

UpstreamInv ==
    running =>
        /\ common \in [ver : Nat, stamp : Nat]
        /\ builds \in Nat /\ closed \subseteq 1..builds
        /\ custom \in [UIDs -> Custom]
        /\ \A u \in UIDs : EntryInv(u)
        /\ \A u, v \in UIDs :
            (u # v /\ custom[u].conf # NoConf) => custom[u].conf.n # custom[v].conf.n

(* A configuration that was built has a serial number.                     *)
LEMMA ConfFacts ==
    /\ NoConf \in Conf /\ NoCustom \in Custom /\ "none" \in Ups
    /\ NoConf.n = 0 /\ NoConf.ups = "none" /\ NoCustom.conf = NoConf
    /\ \A c \in Conf : c.n \in Nat /\ c.ups \in Ups /\ c.ver \in Nat /\ (c.n = 0 <=> c = NoConf)
    /\ \A c \in Client : c.ups \in Ups
<1>1. NoConf.n = 0 /\ NoConf.ups = "none" /\ NoConf.ver = 0 /\ "none" \in Ups
  BY DEF NoConf, Ups
<1>2. NoConf \in Conf
  BY DEF Conf
<1>3. \A c \in [n : Nat \ {0}, ups : Ups, ver : Nat] :
        c.n \in Nat /\ c.ups \in Ups /\ c.ver \in Nat /\ c.n # 0
  OBVIOUS
<1>4. NoCustom \in Custom /\ NoCustom.conf = NoConf
  BY <1>1, <1>2 DEF NoCustom, Custom
<1>5. \A c \in Client : c.ups \in Ups
  BY DEF Ups
<1>6. \A c \in Conf : c.n \in Nat /\ c.ups \in Ups /\ c.ver \in Nat /\ (c.n = 0 <=> c = NoConf)
  BY <1>1, <1>3 DEF Conf
<1> QED
  BY <1>1, <1>2, <1>4, <1>5, <1>6

(* The start of the program gives every client an entry to be built.       *)
LEMMA UpstreamStart ==
    ASSUME StorageInv, NewStorage
    PROVE  UpstreamInv'
<1>1. /\ index'.client = saved /\ writer' = Idle
      /\ custom' = [u \in UIDs |->
                    IF saved[u] # NoClient
                    THEN [NoCustom EXCEPT !.ups = saved[u].ups, !.changed = TRUE, !.live = TRUE]
                    ELSE NoCustom]
      /\ common' = [ver |-> 0, stamp |-> 0]
      /\ closed' = {} /\ builds' = 0
  BY DEF NewStorage, loaded
<1>2. saved \in [UIDs -> Client \cup {NoClient}]
  BY DEF StorageInv
<1>3. ~Locked'
  BY <1>1 DEF Locked, Idle
<1>4. \A u \in UIDs :
        /\ custom'[u].conf = NoConf /\ custom'[u].stamp = 0
        /\ saved[u] # NoClient => custom'[u].ups = saved[u].ups /\ custom'[u].changed
        /\ saved[u] = NoClient => custom'[u].ups = "none" /\ ~custom'[u].changed
        /\ custom'[u].live <=> saved[u] # NoClient
        /\ custom'[u] \in Custom
  BY <1>1, <1>2, ConfFacts DEF NoCustom, Custom
<1>5. custom' \in [UIDs -> Custom]
  BY <1>1, <1>4
<1>6. common'.ver = 0 /\ common'.stamp = 0 /\ common' \in [ver : Nat, stamp : Nat]
  BY <1>1
<1>7. ASSUME NEW u \in UIDs
      PROVE  EntryInv(u)'
  <2>1. /\ custom'[u].conf.n <= builds' /\ custom'[u].conf.n \notin closed'
        /\ custom'[u].stamp <= common'.stamp /\ custom'[u].conf = NoConf
    <3>1. custom'[u].conf = NoConf /\ custom'[u].stamp = 0 /\ NoConf.n = 0
      BY <1>4, ConfFacts
    <3> QED
      <4>1. builds' = 0 /\ closed' = {} /\ common'.stamp = 0
        BY <1>1, <1>6
      <4>2. custom'[u].conf.n = 0
        BY <3>1
      <4> QED
        BY <3>1, <4>1, <4>2
  <2>2. ~custom'[u].changed => custom'[u].conf.ups = custom'[u].ups
    BY <1>4, ConfFacts
  <2>3. /\ custom'[u].live <=> (index'.client[u] # NoClient \/ (Locked' /\ u = writer'.uid))
        /\ index'.client[u] # NoClient => custom'[u].ups = index'.client[u].ups
    BY <1>1, <1>3, <1>4
  <2> QED
    BY <2>1, <2>2, <2>3 DEF EntryInv
<1> QED
  BY <1>1, <1>4, <1>5, <1>6, <1>7 DEF UpstreamInv

(* updateCustomUpstreamConfig, for the client that is added: its entry is  *)
(* marked as changed and keeps what was built.                             *)
LEMMA UpstreamAdd ==
    ASSUME UpstreamInv, running, NEW u \in UIDs, NEW c \in Client,
           index.client \in [UIDs -> Client \cup {NoClient}],
           index'.client = [index.client EXCEPT ![u] = c],
           custom' = updateCustomUpstreamConfig(custom, u, c),
           ~Locked', Locked => writer.uid = u, c # NoClient,
           UNCHANGED <<common, closed, builds, tied>>
    PROVE  UpstreamInv'
<1>1. /\ common \in [ver : Nat, stamp : Nat] /\ builds \in Nat /\ closed \subseteq 1..builds
      /\ custom \in [UIDs -> Custom] /\ \A v \in UIDs : EntryInv(v)
      /\ \A w, v \in UIDs :
            (w # v /\ custom[w].conf # NoConf) => custom[w].conf.n # custom[v].conf.n
  BY DEF UpstreamInv
<1>2. common.stamp \in Nat /\ c.ups \in Ups
  BY <1>1, ConfFacts
<1>3. \A v \in UIDs : custom[v] \in Custom /\ custom[v].conf \in Conf /\ custom[v].stamp \in Nat
  BY <1>1 DEF Custom
<1>4. /\ custom'[u].conf = custom[u].conf /\ custom'[u].ups = c.ups
      /\ custom'[u].changed /\ custom'[u].live
      /\ custom'[u].stamp = IF custom[u].live THEN custom[u].stamp ELSE common.stamp
      /\ custom'[u] \in Custom
      /\ \A v \in UIDs \ {u} : custom'[v] = custom[v]
      /\ DOMAIN custom' = UIDs
  BY <1>1, <1>2, <1>3 DEF updateCustomUpstreamConfig, Custom
<1>5. custom' \in [UIDs -> Custom]
  BY <1>1, <1>3, <1>4 DEF updateCustomUpstreamConfig
<1>6. \A v \in UIDs : custom'[v].conf = custom[v].conf
  BY <1>4
<1>7. EntryInv(u)'
  BY <1>1, <1>2, <1>3, <1>4 DEF EntryInv
<1>8. ASSUME NEW v \in UIDs \ {u}
      PROVE  EntryInv(v)'
  <2>1. custom'[v] = custom[v] /\ index'.client[v] = index.client[v] /\ EntryInv(v)
    BY <1>1, <1>4
  <2> QED
    BY <2>1 DEF EntryInv
<1> QED
  BY <1>1, <1>5, <1>6, <1>7, <1>8 DEF UpstreamInv

(* customUpstreamConfig rebuilds the entry of one client: the number of    *)
(* the new configuration is fresh, and what it replaces is closed.         *)
LEMMA UpstreamBuild ==
    ASSUME StorageInv, LookupInv, UpstreamInv, NEW r \in Requests,
           CustomUpstreamConfig(r[1], r[2])
    PROVE  UpstreamInv'
<1> DEFINE found == First(<<findByClientID(index, r[1]), StorageFindByIP(index, r[2])>>)
<1>0. PICK u : u = found
  OBVIOUS
<1> DEFINE conf == newCustomUpstreamConfig(custom[u].ups)
<1>1. /\ running /\ ~Locked /\ u # NoUID /\ custom[u].live
      /\ custom' = [custom EXCEPT ![u].conf = conf, ![u].stamp = common.stamp,
                                  ![u].changed = FALSE]
      /\ builds' = IF conf = NoConf THEN builds ELSE builds + 1
      /\ closed' = closed \cup Serials(custom[u])
      /\ UNCHANGED <<index, common, writer, tied>>
  BY <1>0 DEF CustomUpstreamConfig
<1>2. u \in UIDs
  <2>1. r[1] \in Strings \cup {NoAddr} /\ r[2] \in IPs
    BY ConstantsAssumption
  <2>2. u = Resolve(index, r[1], r[2])
    BY <1>0, FindIsResolve
  <2>3. index \in IndexType /\ dhcp \in [IPs -> MACs \cup {NoAddr}] /\ MACs \subseteq Strings
    BY ConstantsAssumption DEF StorageInv, LookupInv
  <2>4. u \in UIDs \cup {NoUID}
    BY <2>1, <2>2, <2>3, LookupTypes DEF Resolve
  <2> QED
    BY <1>1, <2>4
<1> HIDE DEF found
<1>3. /\ common \in [ver : Nat, stamp : Nat] /\ builds \in Nat /\ closed \subseteq 1..builds
      /\ custom \in [UIDs -> Custom] /\ \A v \in UIDs : EntryInv(v)
      /\ \A w, v \in UIDs :
            (w # v /\ custom[w].conf # NoConf) => custom[w].conf.n # custom[v].conf.n
  BY <1>1 DEF UpstreamInv
<1>4. common.stamp \in Nat /\ common.ver \in Nat
  BY <1>3
<1>5. \A v \in UIDs : /\ custom[v] \in Custom /\ custom[v].conf \in Conf
                      /\ custom[v].stamp \in Nat /\ custom[v].ups \in Ups
                      /\ custom[v].conf.n \in Nat
  BY <1>3, ConfFacts DEF Custom
<1>6. /\ conf \in Conf /\ conf.ups = custom[u].ups
      /\ conf = NoConf \/ (conf # NoConf /\ conf.n = builds + 1 /\ conf.ver = common.ver)
  <2>1. CASE custom[u].ups = "none"
    BY <2>1, ConfFacts DEF newCustomUpstreamConfig
  <2>2. CASE custom[u].ups # "none"
    <3>1. conf = [n |-> builds + 1, ups |-> custom[u].ups, ver |-> common.ver]
      BY <2>2 DEF newCustomUpstreamConfig
    <3>2. conf.n = builds + 1 /\ conf.ups = custom[u].ups /\ conf.ver = common.ver
      BY <3>1
    <3>3. builds + 1 \in Nat \ {0} /\ custom[u].ups \in Ups
      BY <1>2, <1>3, <1>5
    <3>4. conf \in Conf
      BY <1>4, <3>1, <3>3 DEF Conf
    <3> QED
      BY <3>2, <3>3, <3>4, ConfFacts
  <2> QED
    BY <2>1, <2>2
<1> HIDE DEF conf
<1>7. /\ custom'[u].conf = conf /\ custom'[u].stamp = common.stamp
      /\ custom'[u].changed = FALSE /\ custom'[u].ups = custom[u].ups
      /\ custom'[u].live = custom[u].live
      /\ custom'[u] \in Custom
      /\ \A v \in UIDs \ {u} : custom'[v] = custom[v]
      /\ custom' \in [UIDs -> Custom]
  BY ZenonT(30), <1>1, <1>2, <1>3, <1>4, <1>5, <1>6 DEF Custom
<1>8. /\ builds' \in Nat /\ builds <= builds'
      /\ conf # NoConf => conf.n = builds' /\ builds < conf.n
  BY <1>1, <1>3, <1>6
<1>9. \A v \in UIDs : custom[v].conf.n <= builds /\ custom[v].conf.n \notin closed
  BY <1>3 DEF EntryInv
<1>10. closed' \subseteq 1..builds'
  BY <1>1, <1>2, <1>3, <1>5, <1>8, <1>9, ConfFacts DEF Serials
<1>11. \A v \in UIDs \ {u} : custom[v].conf.n \notin closed'
  BY <1>1, <1>2, <1>3, <1>9 DEF Serials
<1>12. conf.n <= builds' /\ conf.n \notin closed'
  <2>1. CASE conf = NoConf
    BY <1>8, <1>10, <2>1, ConfFacts
  <2>2. CASE conf # NoConf
    <3>1. custom[u].conf.n <= builds /\ custom[u].conf.n \in Nat
      BY <1>2, <1>5, <1>9
    <3>2. \A n \in closed' : n <= builds
      BY <1>1, <1>3, <3>1 DEF Serials
    <3>3. conf.n \in Nat
      BY <1>6, ConfFacts
    <3> QED
      BY <1>3, <1>8, <2>2, <3>2, <3>3
  <2> QED
    BY <2>1, <2>2
<1>13. EntryInv(u)'
  <2>1. EntryInv(u)
    BY <1>2, <1>3
  <2> QED
    <3>1. /\ custom[u].live <=> (index.client[u] # NoClient \/ (Locked /\ u = writer.uid))
          /\ index.client[u] # NoClient => custom[u].ups = index.client[u].ups
      BY <2>1 DEF EntryInv
    <3>2. /\ custom'[u].live /\ index'.client[u] = index.client[u]
          /\ (custom'[u].live <=> (index'.client[u] # NoClient \/ (Locked' /\ u = writer'.uid)))
      BY <1>1, <1>7, <3>1 DEF Locked
    <3>3. index'.client[u] # NoClient => custom'[u].ups = index'.client[u].ups
      BY <1>7, <3>1, <3>2
    <3>4. custom'[u].conf.ups = custom'[u].ups
      BY <1>6, <1>7
    <3>5. custom'[u].stamp <= common'.stamp
      BY <1>1, <1>4, <1>7
    <3>6. custom'[u].conf = NoConf \/ custom'[u].conf.ver = common'.ver
      BY <1>1, <1>6, <1>7
    <3>7. custom'[u].conf.n <= builds' /\ custom'[u].conf.n \notin closed'
      BY <1>7, <1>12
    <3> QED
      BY <3>2, <3>3, <3>4, <3>5, <3>6, <3>7 DEF EntryInv
<1>14. ASSUME NEW v \in UIDs \ {u}
       PROVE  EntryInv(v)'
  <2>1. custom'[v] = custom[v] /\ EntryInv(v)
    BY <1>3, <1>7
  <2>2. custom[v].conf.n <= builds'
    BY <1>3, <1>5, <1>8, <1>9
  <2> QED
    BY <1>1, <1>11, <2>1, <2>2 DEF EntryInv, Locked
<1>15. ASSUME NEW v \in UIDs, NEW w \in UIDs, v # w, custom'[v].conf # NoConf
       PROVE  custom'[v].conf.n # custom'[w].conf.n
  <2>1. CASE v = u
    BY <1>3, <1>5, <1>7, <1>8, <1>9, <1>15, <2>1
  <2>2. CASE w = u
    <3>1. CASE conf = NoConf
      BY <1>5, <1>7, <1>15, <2>2, <3>1, ConfFacts
    <3>2. CASE conf # NoConf
      BY <1>3, <1>5, <1>7, <1>8, <1>9, <1>15, <2>2, <3>2
    <3> QED
      BY <3>1, <3>2
  <2>3. CASE v # u /\ w # u
    BY <1>3, <1>7, <1>15, <2>3
  <2> QED
    BY <2>1, <2>2, <2>3
<1> QED
  <2>1. \A v \in UIDs : EntryInv(v)'
    BY <1>13, <1>14
  <2>2. common' \in [ver : Nat, stamp : Nat]
    BY <1>1, <1>3
  <2> QED
    BY <1>7, <1>8, <1>10, <1>15, <2>1, <2>2 DEF UpstreamInv

(* The steps that touch neither the entries nor the clients.               *)
LEMMA UpstreamKeep ==
    ASSUME UpstreamInv, running' => running,
           UNCHANGED <<index, custom, common, closed, builds, tied>>,
           \A u \in UIDs : (Locked /\ u = writer.uid)' <=> (Locked /\ u = writer.uid)
    PROVE  UpstreamInv'
BY DEF UpstreamInv, EntryInv

(* Every step of the program keeps the manager in order.                   *)
LEMMA UpstreamStep ==
    ASSUME StorageInv, LookupInv, UpstreamInv, [Next]_vars
    PROVE  UpstreamInv'
<1>0. Idle.pc = "idle" /\ [Idle EXCEPT !.pc = "save"].pc = "save"
  BY DEF Idle
<1>t. index.client \in [UIDs -> Client \cup {NoClient}]
  BY IndexFacts DEF StorageInv
<1>1. ASSUME NEW n \in Names, NEW t \in Templates, NEW u \in UIDs, handleAddClient(u, n, t)
      PROVE  UpstreamInv'
  <2> DEFINE c == jsonToClient(n, t)
  <2>1. /\ index'.client = [index.client EXCEPT ![u] = c] /\ running
        /\ custom' = updateCustomUpstreamConfig(custom, u, c)
        /\ writer = Idle /\ writer' = [Idle EXCEPT !.pc = "save"]
        /\ UNCHANGED <<common, closed, builds, tied>>
    BY <1>1 DEF handleAddClient, Add, add
  <2>2. c \in Client /\ c # NoClient
    BY ClientFacts
  <2>3. ~Locked /\ ~Locked'
    BY <1>0, <2>1 DEF Locked
  <2> HIDE DEF c
  <2> QED
    BY <1>t, <2>1, <2>2, <2>3, UpstreamAdd
<1>2. ASSUME UpdateAdd
      PROVE  UpstreamInv'
  <2>1. /\ Locked /\ index'.client = [index.client EXCEPT ![writer.uid] = writer.new]
        /\ custom' = updateCustomUpstreamConfig(custom, writer.uid, writer.new)
        /\ writer' = [Idle EXCEPT !.pc = "save"]
        /\ UNCHANGED <<common, closed, builds, tied, running>>
    BY <1>2 DEF UpdateAdd, add
  <2>2. writer.uid \in UIDs /\ writer.new \in Client /\ writer.new # NoClient
    BY <1>0, <2>1, ClientFacts DEF StorageInv, WriterInv, Locked
  <2>3. ~Locked'
    BY <1>0, <2>1 DEF Locked
  <2>4. CASE running
    <3>1. PICK u \in UIDs, c \in Client : u = writer.uid /\ c = writer.new
      BY <2>2
    <3> QED
      BY <1>t, <2>1, <2>2, <2>3, <2>4, <3>1, UpstreamAdd
  <2>5. CASE ~running
    BY <2>1, <2>5 DEF UpstreamInv
  <2> QED
    BY <2>4, <2>5
<1>3. ASSUME NEW n \in Names, NEW t \in Templates, NEW old \in Names,
             handleUpdateClient(old, n, t)
      PROVE  UpstreamInv'
  <2> DEFINE u == index.name[old]
  <2>1. /\ index'.client = [index.client EXCEPT ![u] = NoClient] /\ u # NoUID
        /\ writer = Idle /\ writer'.pc = "readd" /\ writer'.uid = u
        /\ UNCHANGED <<custom, common, closed, builds, tied, running>>
    BY <1>3 DEF handleUpdateClient, remove, upstreamVars
  <2>2. u \in UIDs /\ index.client[u] # NoClient
    BY <2>1, NameFacts DEF StorageInv
  <2>3. ~Locked /\ Locked'
    BY <1>0, <2>1 DEF Locked
  <2> HIDE DEF u
  <2>4. \A v \in UIDs : index'.client[v] = IF v = u THEN NoClient ELSE index.client[v]
    BY <1>t, <2>1, <2>2
  <2>5. ASSUME NEW v \in UIDs, EntryInv(v)
        PROVE  EntryInv(v)'
    BY <2>1, <2>2, <2>3, <2>4, <2>5 DEF EntryInv
  <2> QED
    BY <2>1, <2>5 DEF UpstreamInv
<1>4. ASSUME NEW n \in Names, handleDelClient(n)
      PROVE  UpstreamInv'
  <2>0. PICK u : u = index.name[n]
    OBVIOUS
  <2>1. /\ index'.client = [index.client EXCEPT ![u] = NoClient] /\ u # NoUID
        /\ writer = Idle /\ writer' = [Idle EXCEPT !.pc = "save"]
        /\ custom' = [custom EXCEPT ![u] = NoCustom]
        /\ closed' = closed \cup Serials(custom[u]) /\ running
        /\ UNCHANGED <<common, builds, tied>>
    BY <1>4, <2>0 DEF handleDelClient, RemoveByName, remove
  <2>2. u \in UIDs /\ index.client[u] # NoClient
    BY <2>0, <2>1, NameFacts DEF StorageInv
  <2>3. ~Locked /\ ~Locked'
    BY <1>0, <2>1 DEF Locked
  <2>4. /\ common \in [ver : Nat, stamp : Nat] /\ builds \in Nat /\ closed \subseteq 1..builds
        /\ custom \in [UIDs -> Custom] /\ \A v \in UIDs : EntryInv(v)
        /\ \A w, v \in UIDs :
            (w # v /\ custom[w].conf # NoConf) => custom[w].conf.n # custom[v].conf.n
    BY <2>1 DEF UpstreamInv
  <2>5. /\ custom' \in [UIDs -> Custom]
        /\ \A v \in UIDs : custom'[v] = IF v = u THEN NoCustom ELSE custom[v]
        /\ \A v \in UIDs : index'.client[v] = IF v = u THEN NoClient ELSE index.client[v]
    BY <1>t, <2>1, <2>2, <2>4, ConfFacts
  <2>6. \A v \in UIDs : custom[v].conf \in Conf /\ custom[v].conf.n \in Nat
    BY <2>4, ConfFacts DEF Custom
  <2>7. custom[u].conf.n <= builds
    BY <2>2, <2>4 DEF EntryInv
  <2>8. closed' \subseteq 1..builds
    BY <2>1, <2>2, <2>4, <2>6, <2>7, ConfFacts DEF Serials
  <2>9. ASSUME NEW v \in UIDs \ {u}
        PROVE  EntryInv(v)'
    <3>1. EntryInv(v) /\ custom'[v] = custom[v] /\ index'.client[v] = index.client[v]
      BY <2>4, <2>5
    <3>2. custom[v].conf.n \notin closed'
      BY <2>1, <2>2, <2>4, <3>1 DEF Serials, EntryInv
    <3> QED
      BY <2>1, <2>3, <3>1, <3>2 DEF EntryInv
  <2>10. EntryInv(u)'
    <3>1. custom'[u] = NoCustom /\ index'.client[u] = NoClient
      BY <2>2, <2>5
    <3>2. /\ NoCustom.conf = NoConf /\ NoCustom.stamp = 0 /\ NoCustom.ups = "none"
          /\ NoCustom.live = FALSE
      BY DEF NoCustom
    <3>3. NoConf.n = 0 /\ NoConf.ups = "none"
      BY ConfFacts
    <3>4. 0 <= builds' /\ 0 \notin closed' /\ 0 <= common'.stamp
      BY <2>1, <2>4, <2>8
    <3> QED
      BY <2>3, <3>1, <3>2, <3>3, <3>4 DEF EntryInv
  <2>11. ASSUME NEW v \in UIDs, NEW w \in UIDs, v # w, custom'[v].conf # NoConf
         PROVE  custom'[v].conf.n # custom'[w].conf.n
    <3>1. v # u /\ custom'[v] = custom[v]
      BY <2>5, <2>11, ConfFacts
    <3>2. CASE w = u
      BY <2>5, <2>6, <2>11, <3>1, <3>2, ConfFacts
    <3>3. CASE w # u
      BY <2>4, <2>5, <2>11, <3>1, <3>3
    <3> QED
      BY <3>2, <3>3
  <2>12. \A v \in UIDs : EntryInv(v)'
    BY <2>9, <2>10
  <2> QED
    BY <2>1, <2>4, <2>5, <2>8, <2>11, <2>12 DEF UpstreamInv
<1>5. ASSUME UpdateCommonUpstreamConfig
      PROVE  UpstreamInv'
  <2>1. PICK stamp \in {common.stamp, common.stamp + 1} :
            /\ common' = [ver |-> common.ver + 1, stamp |-> stamp]
            /\ tied' = (tied \/ stamp = common.stamp)
    BY <1>5 DEF UpdateCommonUpstreamConfig
  <2>2. running /\ UNCHANGED <<index, custom, closed, builds, writer>>
    BY <1>5 DEF UpdateCommonUpstreamConfig
  <2>3. /\ common \in [ver : Nat, stamp : Nat] /\ builds \in Nat /\ closed \subseteq 1..builds
        /\ custom \in [UIDs -> Custom] /\ \A v \in UIDs : EntryInv(v)
    BY <2>2 DEF UpstreamInv
  <2>4. /\ common' \in [ver : Nat, stamp : Nat] /\ common'.stamp = stamp
        /\ common.stamp \in Nat /\ stamp \in Nat
    BY <2>1, <2>3
  <2>5. ASSUME NEW v \in UIDs
        PROVE  EntryInv(v)'
    <3>1. EntryInv(v) /\ custom[v].stamp \in Nat
      BY <2>3 DEF Custom
    <3>2. custom[v].stamp <= common.stamp
      BY <3>1 DEF EntryInv
    <3>3. stamp = common.stamp => tied'
      BY <2>1
    <3>4. custom[v].stamp <= stamp /\ (custom[v].stamp = stamp => stamp = common.stamp)
      BY <2>1, <2>4, <3>1, <3>2
    <3> QED
      BY <2>2, <2>4, <3>1, <3>3, <3>4 DEF EntryInv, Locked
  <2> QED
    BY <2>2, <2>3, <2>4, <2>5 DEF UpstreamInv
<1>6. ASSUME NEW r \in Requests, CustomUpstreamConfig(r[1], r[2])
      PROVE  UpstreamInv'
  BY <1>6, UpstreamBuild
<1>7. ASSUME Shutdown
      PROVE  UpstreamInv'
  BY <1>7 DEF Shutdown, UpstreamInv
<1>8. ASSUME NewStorage
      PROVE  UpstreamInv'
  BY <1>8, UpstreamStart
<1>9. ASSUME onConfigModified
      PROVE  UpstreamInv'
  <2>1. /\ UNCHANGED <<index, custom, common, closed, builds, tied, running>>
        /\ ~Locked /\ ~Locked'
    BY <1>0, <1>9 DEF onConfigModified, upstreamVars, Locked
  <2> QED
    BY <2>1, UpstreamKeep
<1>10. ASSUME \/ \E r \in Requests : ApplyClientFiltering(r[1], r[2])
              \/ ApplyStep
              \/ \E l \in Leases : LeaseChanges(l[1], l[2])
              \/ UNCHANGED vars
       PROVE  UpstreamInv'
  <2>1. UNCHANGED <<index, custom, common, closed, builds, tied, running, writer>>
    BY <1>10 DEF ApplyClientFiltering, ApplyStep, Lookup, ApplyLoad, LeaseChanges,
                 upstreamVars, vars
  <2>2. \A u \in UIDs : (Locked /\ u = writer.uid)' <=> (Locked /\ u = writer.uid)
    BY <2>1 DEF Locked
  <2> QED
    BY <2>1, <2>2, UpstreamKeep
<1> QED
  BY <1>1, <1>2, <1>3, <1>4, <1>5, <1>6, <1>7, <1>8, <1>9, <1>10 DEF Next

(* For every set of clients and upstreams, and whatever requests, changes  *)
(* of the common settings and restarts come in between: the upstreams that *)
(* a request of a client is sent to are open, are those the client has     *)
(* now, and were built with the current common settings, unless the clock  *)
(* stood still; and the manager has entries for the clients only.          *)
THEOREM UpstreamsCurrent == Spec => []ServesCurrent
<1>1. Init => UpstreamInv
  BY DEF Init, UpstreamInv
<1>2. /\ StorageInv /\ ValidInv /\ LookupInv /\ UpstreamInv /\ [Next]_vars
      => UpstreamInv'
  BY UpstreamStep
<1>3. ASSUME UpstreamInv
      PROVE  ServesCurrent
  <2> SUFFICES ASSUME running, ~Locked, NEW u \in UIDs
               PROVE  /\ custom[u].live <=> index.client[u] # NoClient
                      /\ (custom[u].live /\ ~isConfigChanged(custom[u])) =>
                          /\ custom[u].conf.ups = index.client[u].ups
                          /\ custom[u].conf.n \notin closed
                          /\ ~tied => (custom[u].conf = NoConf
                                        \/ custom[u].conf.ver = common.ver)
    BY DEF ServesCurrent
  <2>1. EntryInv(u)
    BY <1>3 DEF UpstreamInv
  <2> QED
    BY <2>1 DEF EntryInv, isConfigChanged
<1>4. UpstreamInv => ServesCurrent
  BY <1>3
<1> QED
  BY <1>1, <1>2, <1>4, LookupInvariant, PTL DEF Spec
=============================================================================
