---------------------------- MODULE DHCPv4Proofs ----------------------------
(***************************************************************************)
(* Proofs about DHCPv4 for every pool, any number of clients, hostnames,   *)
(* requests, declines and restarts: no two leases share an address or a    *)
(* client, the bit set covers the leased addresses, no two clients use one *)
(* address, the indexes mirror the leases, and a restart keeps the leases. *)
(***************************************************************************)
EXTENDS DHCPv4, FiniteSetTheorems, WellFoundedInduction, TLAPS

(* The state of v4Server as Go's types have it.                            *)
Server == [obj : Seq(Lease), leases : Seq(Nat),
           hostsIndex : [Names -> Nat \cup {None}],
           ipIndex : [IPs -> Nat \cup {None}], leasedOffsets : SUBSET Pool]

(* Every pointer is to an object.                                          *)
Pointers(s) ==
    /\ \A k \in DOMAIN s.leases : s.leases[k] \in DOMAIN s.obj
    /\ \A h \in Names : s.hostsIndex[h] \in DOMAIN s.obj \cup {None}
    /\ \A ip \in IPs : s.ipIndex[ip] \in DOMAIN s.obj \cup {None}

(* The lease at a place of the slice.                                      *)
At(s, k) == s.obj[s.leases[k]]

(* No two leases have one address, and no two have one client.             *)
Apart(s) ==
    \A j, k \in DOMAIN s.leases : j # k =>
        /\ At(s, j).ip # At(s, k).ip
        /\ At(s, j).mac # ZeroMac => At(s, j).mac # At(s, k).mac

(* The bit set and the index by address have every lease.                  *)
Covered(s) ==
    \A k \in DOMAIN s.leases :
        /\ At(s, k).ip \in Pool => At(s, k).ip \in s.leasedOffsets
        /\ s.ipIndex[At(s, k).ip] = s.leases[k]

Sound(s) == s \in Server /\ Pointers(s) /\ Apart(s) /\ Covered(s)

(* The leases of the database file are apart.                              *)
ApartIn(ls) ==
    /\ ls \subseteq Lease /\ IsFiniteSet(ls)
    /\ \A l, k \in ls : l # k =>
        l.ip # k.ip /\ (l.mac # ZeroMac => l.mac # k.mac)

PendType == [pc : {"idle", "commit", "decline"}, id : Nat \cup {None},
             host : Hosts \cup {NoHost}, ip : IPs]

(* Whom the requests in progress have.                                     *)
Held(s, p) ==
    /\ p \in [Macs -> PendType]
    /\ \A m \in Macs : /\ p[m].id \in DOMAIN s.obj \cup {None}
                       /\ p[m].pc = "commit" => p[m].id # None

(* A client that uses an address has a lease that is no shorter.           *)
BackedBy(a, m, s) ==
    a # None => \E k \in DOMAIN s.leases :
                    /\ At(s, k).mac = m /\ At(s, k).ip = a.ip
                    /\ At(s, k).static \/ At(s, k).exp >= a.exp

AckType == [ip : IPs, exp : Nat]

(* The mishaps that leave two leases of an address or of a client behind,  *)
(* and those that take a lease away from a client that uses its address.   *)
Doubled == {"skip", "decline", "race"}
Bereft  == Doubled \cup {"evict", "lost", "dropped"}

Core ==
    /\ now \in Nat
    /\ Sound(srv)
    /\ ApartIn(db)
    /\ Held(srv, pend)
    /\ ack \in [Macs -> AckType \cup {None}]
    /\ \A m \in Macs : ack[m] # None => ack[m].exp > now

LeaseInv ==
    /\ Unless(Doubled, Core)
    /\ Unless(Bereft, \A m \in Macs : BackedBy(ack[m], m, srv))

(* What Collect makes of s and p is t and q, its objects renumbered.       *)
Moved(num, s, p, t, q) ==
    /\ t \in Server /\ q \in [Macs -> PendType]
    /\ num[None] = None
    /\ \A i \in Referred(s, p) : num[i] \in DOMAIN t.obj /\ t.obj[num[i]] = s.obj[i]
    /\ \A i, j \in Referred(s, p) : num[i] = num[j] => i = j
    /\ DOMAIN t.leases = DOMAIN s.leases
    /\ \A k \in DOMAIN s.leases : t.leases[k] = num[s.leases[k]]
    /\ \A h \in Names : t.hostsIndex[h] = num[s.hostsIndex[h]]
    /\ \A ip \in IPs : t.ipIndex[ip] = num[s.ipIndex[ip]]
    /\ t.leasedOffsets = s.leasedOffsets
    /\ \A m \in Macs : q[m] = [p[m] EXCEPT !.id = num[p[m].id]]

-----------------------------------------------------------------------------
(* The least element of a set of numbers.                                  *)
LEMMA MinFacts ==
    ASSUME NEW S \in SUBSET Nat, S # {}
    PROVE  Min(S) \in S /\ \A y \in S : Min(S) <= y
<1> DEFINE R == OpToRel(<, Nat)
<1>1. IsWellFoundedOn(R, Nat)
  BY NatLessThanWellFounded
<1>2. \A x, y \in Nat : <<x, y>> \in R <=> x < y
  BY DEF OpToRel
<1> HIDE DEF R
<1>3. PICK x \in S : \A y \in S : ~ (<<y, x>> \in R)
  BY <1>1, WFMin
<1>4. \A y \in S : x \in Nat /\ y \in Nat /\ ~(y < x)
  BY <1>2, <1>3
<1>5. \A y \in S : x <= y
  BY <1>4
<1> QED
  BY <1>5 DEF Min

(* Those that come before i or are i.                                      *)
UpTo(S, key, i) == {j \in S : key[j] <= key[i]}

(* Numbering the elements of a finite set by the order of a key gives      *)
(* every one a number of its own, and uses every number.                   *)
LEMMA Numbering ==
    ASSUME NEW S, IsFiniteSet(S), NEW key \in [S -> Nat],
           \A i, j \in S : key[i] = key[j] => i = j
    PROVE  /\ \A i \in S : Cardinality(UpTo(S, key, i)) \in 1..Cardinality(S)
           /\ \A i, k \in S : Cardinality(UpTo(S, key, i))
                              = Cardinality(UpTo(S, key, k)) => i = k
           /\ \A n \in 1..Cardinality(S) :
                \E i \in S : Cardinality(UpTo(S, key, i)) = n
<1> DEFINE Upto(i) == UpTo(S, key, i)
<1>1. \A i \in S : key[i] \in Nat
  OBVIOUS
<1>2. \A i \in S : Upto(i) \in SUBSET S /\ i \in Upto(i)
  BY <1>1 DEF UpTo
<1>3. \A i \in S : /\ IsFiniteSet(Upto(i))
                   /\ Cardinality(Upto(i)) \in Nat
                   /\ Cardinality(Upto(i)) <= Cardinality(S)
                   /\ Cardinality(Upto(i)) # 0
  <2> SUFFICES ASSUME NEW i \in S
               PROVE  /\ IsFiniteSet(Upto(i))
                      /\ Cardinality(Upto(i)) \in Nat
                      /\ Cardinality(Upto(i)) <= Cardinality(S)
                      /\ Cardinality(Upto(i)) # 0
    OBVIOUS
  <2>1. IsFiniteSet(Upto(i)) /\ Cardinality(Upto(i)) <= Cardinality(S)
    BY <1>2, FS_Subset
  <2>2. Upto(i) # {}
    BY <1>2
  <2> HIDE DEF Upto
  <2> QED
    BY <2>1, <2>2, FS_CardinalityType, FS_EmptySet
<1>4. Cardinality(S) \in Nat
  BY FS_CardinalityType
<1>5. ASSUME NEW i \in S, NEW k \in S, Cardinality(Upto(i)) = Cardinality(Upto(k)),
             key[i] <= key[k]
      PROVE  i = k
  <2>1. Upto(i) \in SUBSET Upto(k)
    BY <1>1, <1>5 DEF UpTo
  <2>2. Upto(i) = Upto(k)
    <3> HIDE DEF Upto
    <3> QED
      BY <1>3, <1>5, <2>1, FS_Subset
  <2>3. key[k] <= key[i]
    BY <1>2, <2>2 DEF UpTo
  <2> QED
    BY <1>1, <1>5, <2>3
<1>6. \A i \in S : Cardinality(Upto(i)) \in 1..Cardinality(S)
  <2> HIDE DEF Upto
  <2> QED
    BY <1>3, <1>4
<1>7. ASSUME NEW i \in S, NEW k \in S, Cardinality(Upto(i)) = Cardinality(Upto(k))
      PROVE  i = k
  <2>1. key[i] <= key[k] \/ key[k] <= key[i]
    BY <1>1
  <2> QED
    BY <1>5, <1>7, <2>1
<1> DEFINE f == [i \in S |-> Cardinality(Upto(i))]
<1>8. f \in Injection(S, 1..Cardinality(S))
  <2>1. f \in [S -> 1..Cardinality(S)]
    <3> HIDE DEF Upto
    <3> QED
      BY <1>6
  <2>2. \A i, k \in S : f[i] = f[k] => i = k
    <3> HIDE DEF Upto
    <3> QED
      BY <1>7
  <2> HIDE DEF f
  <2> QED
    BY <2>1, <2>2 DEF Injection, IsInjective
<1>9. IsFiniteSet(1..Cardinality(S)) /\ Cardinality(1..Cardinality(S)) = Cardinality(S)
  BY <1>4, FS_Interval
<1>10. f \in Surjection(S, 1..Cardinality(S))
  <2> HIDE DEF f
  <2> QED
    BY <1>8, <1>9, FS_Injection
<1>11. \A n \in 1..Cardinality(S) : \E i \in S : f[i] = n
  <2> HIDE DEF f
  <2> QED
    BY <1>10 DEF Surjection
<1> QED
  BY <1>6, <1>7, <1>11

(* What the indexes, the slice and the requests refer to is there.         *)
LEMMA ReferredFacts ==
    ASSUME NEW s \in Server, Pointers(s), NEW p, Held(s, p)
    PROVE  /\ Referred(s, p) \in SUBSET (DOMAIN s.obj)
           /\ DOMAIN s.obj = 1..Len(s.obj) /\ Len(s.obj) \in Nat
           /\ IsFiniteSet(Referred(s, p)) /\ None \notin Referred(s, p)
           /\ \A k \in DOMAIN s.leases : s.leases[k] \in Referred(s, p)
           /\ \A h \in Names : s.hostsIndex[h] \in Referred(s, p) \cup {None}
           /\ \A ip \in IPs : s.ipIndex[ip] \in Referred(s, p) \cup {None}
           /\ \A m \in Macs : p[m].id \in Referred(s, p) \cup {None}
<1>1. /\ s.obj \in Seq(Lease) /\ s.leases \in Seq(Nat)
      /\ s.hostsIndex \in [Names -> Nat \cup {None}] /\ s.ipIndex \in [IPs -> Nat \cup {None}]
  BY DEF Server
<1>2. DOMAIN s.obj = 1..Len(s.obj) /\ Len(s.obj) \in Nat
  BY <1>1
<1>3. DOMAIN s.hostsIndex = Names /\ DOMAIN s.ipIndex = IPs
  BY <1>1
<1>4. None \notin DOMAIN s.obj
  BY <1>2, ConstantsAssumption
<1>5. /\ Range(s.leases) \in SUBSET (DOMAIN s.obj)
      /\ Range(s.hostsIndex) \in SUBSET (DOMAIN s.obj \cup {None})
      /\ Range(s.ipIndex) \in SUBSET (DOMAIN s.obj \cup {None})
  BY <1>3 DEF Range, Pointers
<1>6. Referred(s, p) \in SUBSET (DOMAIN s.obj)
  BY <1>5 DEF Referred, Held
<1>7. IsFiniteSet(DOMAIN s.obj)
  BY <1>2, FS_Interval
<1>8. IsFiniteSet(Referred(s, p))
  BY <1>6, <1>7, FS_Subset
<1>9. \A k \in DOMAIN s.leases : s.leases[k] \in Range(s.leases)
  BY DEF Range
<1>10. /\ \A h \in Names : s.hostsIndex[h] \in Range(s.hostsIndex)
       /\ \A ip \in IPs : s.ipIndex[ip] \in Range(s.ipIndex)
  BY <1>3 DEF Range
<1>11. \A m \in Macs : p[m].id \in Referred(s, p) \cup {None}
  BY DEF Referred
<1> QED
  BY <1>2, <1>4, <1>5, <1>6, <1>8, <1>9, <1>10, <1>11 DEF Referred

(* Collect renumbers the objects and changes nothing else.                 *)
LEMMA CollectMoves ==
    ASSUME NEW s \in Server, Pointers(s), NEW p, Held(s, p)
    PROVE  \E num : Moved(num, s, p, Collect(s, p).srv, Collect(s, p).pend)
<1> DEFINE live == Referred(s, p)
           listed == Range(s.leases)
           at(i) == {k \in DOMAIN s.leases : s.leases[k] = i}
           key == [i \in live |-> IF i \in listed THEN Min(at(i)) ELSE Len(s.leases) + i]
           num == [i \in live \cup {None} |->
                     IF i = None THEN None ELSE Cardinality({j \in live : key[j] <= key[i]})]
           pick(i) == CHOOSE j \in live : num[j] = i
           t == [s EXCEPT !.obj = [i \in 1..Cardinality(live) |-> @[CHOOSE j \in live : num[j] = i]],
                          !.leases = [k \in DOMAIN @ |-> num[@[k]]],
                          !.hostsIndex = [h \in Names |-> num[@[h]]],
                          !.ipIndex = [ip \in IPs |-> num[@[ip]]]]
           q == [m \in Macs |-> [p[m] EXCEPT !.id = num[@]]]
<1>1. Collect(s, p) = [srv |-> t, pend |-> q]
  BY DEF Collect
<1>2. /\ live \in SUBSET (DOMAIN s.obj)
      /\ DOMAIN s.obj = 1..Len(s.obj) /\ Len(s.obj) \in Nat
      /\ IsFiniteSet(live) /\ None \notin live
      /\ \A k \in DOMAIN s.leases : s.leases[k] \in live
      /\ \A h \in Names : s.hostsIndex[h] \in live \cup {None}
      /\ \A ip \in IPs : s.ipIndex[ip] \in live \cup {None}
      /\ \A m \in Macs : p[m].id \in live \cup {None}
  BY ReferredFacts
<1>3. /\ s.obj \in Seq(Lease) /\ s.leases \in Seq(Nat)
      /\ DOMAIN s.leases = 1..Len(s.leases) /\ Len(s.leases) \in Nat
  BY DEF Server
<1>4. \A i \in listed : at(i) # {} /\ at(i) \in SUBSET Nat /\ Min(at(i)) \in at(i)
  <2>1. \A i \in listed : at(i) # {} /\ at(i) \in SUBSET Nat
    BY <1>3 DEF Range
  <2> HIDE DEF at, listed
  <2> QED
    BY <2>1, MinFacts
<1>5. \A i \in live : i \in Nat
  <2> HIDE DEF live
  <2> QED
    BY <1>2
<1>6. key \in [live -> Nat]
  <2>1. \A i \in live : i \in listed => Min(at(i)) \in Nat
    BY <1>4
  <2> HIDE DEF live, listed, at
  <2> QED
    BY <1>3, <1>5, <2>1
<1>7. ASSUME NEW i \in live, NEW j \in live, key[i] = key[j]
      PROVE  i = j
  <2>1. i \in listed => key[i] = Min(at(i)) /\ Min(at(i)) \in at(i)
    BY <1>4
  <2>2. j \in listed => key[j] = Min(at(j)) /\ Min(at(j)) \in at(j)
    BY <1>4
  <2>3. i \notin listed => key[i] = Len(s.leases) + i
    OBVIOUS
  <2>4. j \notin listed => key[j] = Len(s.leases) + j
    OBVIOUS
  <2>5. i \in 1..Len(s.obj) /\ j \in 1..Len(s.obj)
    <3> HIDE DEF live
    <3> QED
      BY <1>2
  <2>6. i \in listed => key[i] \in 1..Len(s.leases) /\ s.leases[key[i]] = i
    BY <1>3, <2>1
  <2>7. j \in listed => key[j] \in 1..Len(s.leases) /\ s.leases[key[j]] = j
    BY <1>3, <2>2
  <2> HIDE DEF key, listed, live, at
  <2>8. i \in listed <=> j \in listed
    BY <1>3, <1>7, <2>3, <2>4, <2>5, <2>6, <2>7
  <2> QED
    BY <1>2, <1>3, <1>7, <2>3, <2>4, <2>5, <2>6, <2>7, <2>8
<1> DEFINE c == Cardinality(live)
<1>8. /\ \A i \in live : num[i] \in 1..c
      /\ \A i, j \in live : num[i] = num[j] => i = j
      /\ \A n \in 1..c : \E i \in live : num[i] = n
      /\ num[None] = None
      /\ c \in Nat
  <2>1. \A i \in live : num[i] = Cardinality(UpTo(live, key, i))
    BY <1>2 DEF UpTo
  <2>2. num[None] = None
    OBVIOUS
  <2> HIDE DEF key, num, live
  <2>0. \A i, j \in live : key[i] = key[j] => i = j
    BY <1>7
  <2>3. /\ \A i \in live : Cardinality(UpTo(live, key, i)) \in 1..Cardinality(live)
        /\ \A i, k \in live :
             Cardinality(UpTo(live, key, i)) = Cardinality(UpTo(live, key, k)) => i = k
        /\ \A n \in 1..Cardinality(live) : \E i \in live : Cardinality(UpTo(live, key, i)) = n
    BY <1>2, <1>6, <2>0, Numbering
  <2>4. c \in Nat
    BY <1>2, FS_CardinalityType
  <2>5. \A i, k \in live : num[i] = num[k] => i = k
    BY <2>1, <2>3
  <2>6. \A n \in 1..c : \E i \in live : num[i] = n
    BY <2>1, <2>3
  <2>7. \A i \in live : num[i] \in 1..c
    BY <2>1, <2>3
  <2> QED
    BY <2>2, <2>4, <2>5, <2>6, <2>7
<1> HIDE DEF key, num, live, listed
<1>9. \A i \in 1..c : pick(i) \in live /\ num[pick(i)] = i
  BY <1>8
<1>10. \A i \in live : pick(num[i]) = i
  BY <1>8, <1>9
<1>11. t.obj = [i \in 1..c |-> s.obj[pick(i)]]
  BY DEF Server
<1>12. t.obj \in Seq(Lease) /\ DOMAIN t.obj = 1..c
  <2>1. \A i \in 1..c : s.obj[pick(i)] \in Lease
    BY <1>2, <1>3, <1>9
  <2> HIDE DEF pick, c, t
  <2> QED
    BY <1>8, <1>11, <2>1
<1>13. \A i \in live : num[i] \in DOMAIN t.obj /\ t.obj[num[i]] = s.obj[i]
  <2> HIDE DEF t, pick, c
  <2> QED
    BY <1>8, <1>10, <1>11, <1>12
<1>14. t.leases = [k \in DOMAIN s.leases |-> num[s.leases[k]]]
  BY DEF Server
<1>15. t.leases \in Seq(Nat) /\ DOMAIN t.leases = DOMAIN s.leases
  <2>1. \A k \in 1..Len(s.leases) : num[s.leases[k]] \in Nat
    <3> HIDE DEF c
    <3> QED
      BY <1>2, <1>3, <1>8
  <2> HIDE DEF t
  <2> QED
    BY <1>3, <1>14, <2>1
<1>16. /\ t.hostsIndex = [h \in Names |-> num[s.hostsIndex[h]]]
       /\ t.ipIndex = [ip \in IPs |-> num[s.ipIndex[ip]]]
       /\ t.leasedOffsets = s.leasedOffsets
  BY DEF Server
<1>17. \A i \in live \cup {None} : num[i] \in Nat \cup {None}
  <2> HIDE DEF c
  <2> QED
    BY <1>8
<1>18. t \in Server
  <2>1. /\ t.hostsIndex \in [Names -> Nat \cup {None}]
        /\ t.ipIndex \in [IPs -> Nat \cup {None}]
        /\ t.leasedOffsets \in SUBSET Pool
    <3> HIDE DEF t
    <3> QED
      BY <1>2, <1>16, <1>17 DEF Server
  <2>2. t = [obj |-> t.obj, leases |-> t.leases, hostsIndex |-> t.hostsIndex,
             ipIndex |-> t.ipIndex, leasedOffsets |-> t.leasedOffsets]
    <3> DEFINE o  == [i \in 1..Cardinality(live) |-> s.obj[CHOOSE j \in live : num[j] = i]]
               ls == [k \in DOMAIN s.leases |-> num[s.leases[k]]]
               hi == [h \in Names |-> num[s.hostsIndex[h]]]
               ii == [ip \in IPs |-> num[s.ipIndex[ip]]]
    <3>1. t = [s EXCEPT !.obj = o, !.leases = ls, !.hostsIndex = hi, !.ipIndex = ii]
      BY DEF Server
    <3> HIDE DEF o, ls, hi, ii, t
    <3> QED
      BY <3>1 DEF Server
  <2> HIDE DEF t
  <2> QED
    BY <1>12, <1>15, <2>1, <2>2 DEF Server
<1>19. q \in [Macs -> PendType]
  BY <1>2, <1>17 DEF PendType, Held
<1>20. Moved(num, s, p, t, q)
  <2>1. \A k \in DOMAIN s.leases : t.leases[k] = num[s.leases[k]]
    <3> HIDE DEF t
    <3> QED
      BY <1>14
  <2>2. /\ \A h \in Names : t.hostsIndex[h] = num[s.hostsIndex[h]]
        /\ \A ip \in IPs : t.ipIndex[ip] = num[s.ipIndex[ip]]
        /\ t.leasedOffsets = s.leasedOffsets
    <3> HIDE DEF t
    <3> QED
      BY <1>16
  <2>3. \A m \in Macs : q[m] = [p[m] EXCEPT !.id = num[p[m].id]]
    BY DEF PendType, Held
  <2> HIDE DEF t, q, c
  <2> QED
    BY <1>8, <1>13, <1>15, <1>18, <1>19, <2>1, <2>2, <2>3 DEF Moved, live
<1> HIDE DEF t, q
<1> QED
  BY <1>1, <1>20

(* What is referred to keeps its places.                                   *)
LEMMA MovedKeeps ==
    ASSUME NEW s \in Server, Pointers(s), NEW p, Held(s, p), NEW t, NEW q,
           NEW num, Moved(num, s, p, t, q)
    PROVE  /\ t \in Server /\ Pointers(t) /\ Held(t, q)
           /\ DOMAIN t.leases = DOMAIN s.leases
           /\ \A k \in DOMAIN s.leases : At(t, k) = At(s, k)
           /\ Stored(t) = Stored(s)
<1>1. /\ Referred(s, p) \in SUBSET (DOMAIN s.obj)
      /\ None \notin Referred(s, p)
      /\ \A k \in DOMAIN s.leases : s.leases[k] \in Referred(s, p)
      /\ \A h \in Names : s.hostsIndex[h] \in Referred(s, p) \cup {None}
      /\ \A ip \in IPs : s.ipIndex[ip] \in Referred(s, p) \cup {None}
      /\ \A m \in Macs : p[m].id \in Referred(s, p) \cup {None}
  BY ReferredFacts
<1>2. Pointers(t)
  BY <1>1 DEF Moved, Pointers
<1>3. Held(t, q)
  <2>1. ASSUME NEW m \in Macs
        PROVE  /\ q[m].id \in DOMAIN t.obj \cup {None}
               /\ q[m].pc = "commit" => q[m].id # None
    <3>1. q[m] = [p[m] EXCEPT !.id = num[p[m].id]] /\ p[m] \in PendType
      BY DEF Moved, Held
    <3>2. q[m].id = num[p[m].id] /\ q[m].pc = p[m].pc
      BY <3>1 DEF PendType
    <3>3. p[m].id = None => q[m].id = None
      BY <3>2 DEF Moved
    <3>4. p[m].id # None => q[m].id \in DOMAIN t.obj
      BY <1>1, <3>2 DEF Moved
    <3>5. None \notin DOMAIN t.obj
      <4>1. DOMAIN t.obj \in SUBSET Nat
        BY DEF Moved, Server
      <4> QED
        BY <4>1, ConstantsAssumption
    <3> QED
      BY <3>2, <3>3, <3>4, <3>5 DEF Held
  <2> QED
    BY <2>1 DEF Held, Moved
<1>4. \A k \in DOMAIN s.leases : At(t, k) = At(s, k)
  BY <1>1 DEF Moved, At
<1>5. Stored(t) = Stored(s)
  <2>1. Stored(s) = {At(s, k) : k \in DOMAIN s.leases}
    BY DEF Stored, Range, At
  <2>2. Stored(t) = {At(t, k) : k \in DOMAIN t.leases}
    BY DEF Stored, Range, At
  <2> QED
    BY <1>4, <2>1, <2>2 DEF Moved
<1> QED
  BY <1>2, <1>3, <1>4, <1>5 DEF Moved

LEMMA MovedSound ==
    ASSUME NEW s, Sound(s), NEW p, Held(s, p), NEW t, NEW q, NEW num, Moved(num, s, p, t, q)
    PROVE  Sound(t)
<1>1. s \in Server /\ Pointers(s) /\ Apart(s) /\ Covered(s)
  BY DEF Sound
<1>2. /\ t \in Server /\ Pointers(t)
      /\ DOMAIN t.leases = DOMAIN s.leases
      /\ \A k \in DOMAIN s.leases : At(t, k) = At(s, k)
  BY <1>1, MovedKeeps
<1>3. Apart(t)
  BY <1>1, <1>2 DEF Apart
<1>4. Covered(t)
  <2>1. \A k \in DOMAIN s.leases : At(s, k).ip \in IPs
    <3>1. \A k \in DOMAIN s.leases : At(s, k) \in Lease
      BY <1>1 DEF At, Pointers, Server
    <3> QED
      BY <3>1 DEF Lease
  <2> QED
    BY <1>1, <1>2, <2>1 DEF Covered, Moved
<1> QED
  BY <1>2, <1>3, <1>4 DEF Sound

(* A handler that leaves s and p.                                          *)
LEMMA BecomeSound ==
    ASSUME NEW s, Sound(s), NEW p, Held(s, p), Become(s, p)
    PROVE  /\ Sound(srv') /\ Held(srv', pend')
           /\ DOMAIN srv'.leases = DOMAIN s.leases
           /\ \A k \in DOMAIN s.leases : At(srv', k) = At(s, k)
           /\ Stored(srv') = Stored(s)
<1>1. s \in Server /\ Pointers(s)
  BY DEF Sound
<1>2. srv' = Collect(s, p).srv /\ pend' = Collect(s, p).pend
  BY DEF Become
<1>3. PICK num : Moved(num, s, p, Collect(s, p).srv, Collect(s, p).pend)
  BY <1>1, CollectMoves
<1>4. Moved(num, s, p, srv', pend')
  BY <1>2, <1>3
<1> HIDE DEF Become
<1> QED
  BY <1>1, <1>4, MovedKeeps, MovedSound

-----------------------------------------------------------------------------
(* The helpers of the handlers.                                            *)

LEMMA PoolFacts == 0 \in Pool /\ Pool \in SUBSET IPs /\ IPs \in SUBSET Nat
BY ConstantsAssumption DEF Pool, IPs

(* The leases of the slice are leases.                                     *)
LEMMA AtLease ==
    ASSUME NEW s \in Server, Pointers(s)
    PROVE  /\ \A i \in DOMAIN s.obj : s.obj[i] \in Lease
           /\ \A k \in DOMAIN s.leases : At(s, k) \in Lease
           /\ DOMAIN s.leases = 1..Len(s.leases) /\ Len(s.leases) \in Nat
           /\ DOMAIN s.obj = 1..Len(s.obj) /\ Len(s.obj) \in Nat
           /\ None \notin DOMAIN s.obj
<1>1. s.obj \in Seq(Lease) /\ s.leases \in Seq(Nat)
  BY DEF Server
<1>2. /\ DOMAIN s.leases = 1..Len(s.leases) /\ Len(s.leases) \in Nat
      /\ DOMAIN s.obj = 1..Len(s.obj) /\ Len(s.obj) \in Nat
  BY <1>1
<1>3. \A i \in DOMAIN s.obj : s.obj[i] \in Lease
  BY <1>1
<1>4. \A k \in DOMAIN s.leases : At(s, k) \in Lease
  BY <1>3 DEF At, Pointers
<1>5. None \notin DOMAIN s.obj
  BY <1>2, ConstantsAssumption
<1> QED
  BY <1>2, <1>3, <1>4, <1>5

(* Changes of the objects that keep clients and addresses.                 *)
LEMMA SameSlice ==
    ASSUME NEW s, Sound(s), NEW t \in Server, Pointers(t),
           t.leases = s.leases, t.leasedOffsets = s.leasedOffsets, t.ipIndex = s.ipIndex,
           \A k \in DOMAIN s.leases : At(t, k).mac = At(s, k).mac /\ At(t, k).ip = At(s, k).ip
    PROVE  Sound(t)
BY DEF Sound, Apart, Covered

(* New appends an object that nothing refers to.                           *)
LEMMA NewFacts ==
    ASSUME NEW s \in Server, Pointers(s), NEW l \in Lease
    PROVE  /\ New(s, l) \in Server /\ Pointers(New(s, l))
           /\ New(s, l).leases = s.leases /\ New(s, l).hostsIndex = s.hostsIndex
           /\ New(s, l).ipIndex = s.ipIndex /\ New(s, l).leasedOffsets = s.leasedOffsets
           /\ DOMAIN New(s, l).obj = DOMAIN s.obj \cup {Fresh(s)} /\ Fresh(s) \notin DOMAIN s.obj
           /\ New(s, l).obj[Fresh(s)] = l
           /\ \A i \in DOMAIN s.obj : New(s, l).obj[i] = s.obj[i]
           /\ \A k \in DOMAIN s.leases : At(New(s, l), k) = At(s, k)
           /\ Sound(s) => Sound(New(s, l))
<1> DEFINE t == New(s, l)
<1>1. t = [s EXCEPT !.obj = Append(s.obj, l)]
  BY DEF New
<1>2. /\ t.obj = Append(s.obj, l) /\ t.leases = s.leases /\ t.hostsIndex = s.hostsIndex
      /\ t.ipIndex = s.ipIndex /\ t.leasedOffsets = s.leasedOffsets
  BY <1>1 DEF Server
<1>3. s.obj \in Seq(Lease)
  BY DEF Server
<1>4. /\ t.obj \in Seq(Lease) /\ DOMAIN t.obj = DOMAIN s.obj \cup {Fresh(s)}
      /\ Fresh(s) \notin DOMAIN s.obj /\ t.obj[Fresh(s)] = l
      /\ \A i \in DOMAIN s.obj : t.obj[i] = s.obj[i]
  BY <1>2, <1>3 DEF Fresh
<1>5. t \in Server
  BY <1>1, <1>4 DEF Server
<1>6. Pointers(t)
  BY <1>2, <1>4 DEF Pointers
<1>7. \A k \in DOMAIN s.leases : At(t, k) = At(s, k)
  BY <1>2, <1>4 DEF At, Pointers
<1> HIDE DEF t
<1>8. Sound(s) => Sound(t)
  BY <1>2, <1>5, <1>6, <1>7, SameSlice
<1> QED
  BY <1>2, <1>4, <1>5, <1>6, <1>7, <1>8 DEF t

(* addLease appends the lease and enters it into the indexes.              *)
LEMMA AddFacts ==
    ASSUME NEW s \in Server, Pointers(s), NEW id \in DOMAIN s.obj, ~addLease(s, id).err
    PROVE  LET t == addLease(s, id).srv
               l == s.obj[id]
           IN  /\ t \in Server /\ Pointers(t) /\ t.obj = s.obj
               /\ t.leases = Append(s.leases, id)
               /\ t.hostsIndex = IF l.host = NoHost THEN s.hostsIndex
                                 ELSE [s.hostsIndex EXCEPT ![l.host] = id]
               /\ t.ipIndex = [s.ipIndex EXCEPT ![l.ip] = id]
               /\ t.leasedOffsets = s.leasedOffsets \cup {offset(l.ip)}
               /\ l.static \/ l.ip \in Pool
               /\ l.host # NoHost => s.hostsIndex[l.host] = None
<1> DEFINE l == s.obj[id]
           hi == [s.hostsIndex EXCEPT ![l.host] = IF l.host = NoHost THEN @ ELSE id]
           ii == [s.ipIndex EXCEPT ![l.ip] = id]
           ls == Append(s.leases, id)
           lo == s.leasedOffsets \cup {offset(l.ip)}
           t == [s EXCEPT !.hostsIndex = hi, !.ipIndex = ii, !.leases = ls, !.leasedOffsets = lo]
<1>1. addLease(s, id).srv = t
  BY DEF addLease, Server
<1>2. (l.static \/ l.ip \in Pool) /\ (l.host # NoHost => s.hostsIndex[l.host] = None)
  BY DEF addLease
<1>3. l \in Lease /\ id \in Nat
  BY AtLease
<1>4. l.host \in Names /\ l.ip \in IPs
  BY <1>3 DEF Lease
<1>5. /\ s.hostsIndex \in [Names -> Nat \cup {None}] /\ s.ipIndex \in [IPs -> Nat \cup {None}]
      /\ s.leases \in Seq(Nat) /\ s.leasedOffsets \in SUBSET Pool
  BY DEF Server
<1>6. /\ hi \in [Names -> Nat \cup {None}] /\ ii \in [IPs -> Nat \cup {None}]
      /\ ls \in Seq(Nat) /\ lo \in SUBSET Pool
  BY <1>3, <1>4, <1>5, PoolFacts DEF offset
<1>7. hi = IF l.host = NoHost THEN s.hostsIndex ELSE [s.hostsIndex EXCEPT ![l.host] = id]
  BY <1>5
<1>8. \A k \in DOMAIN ls : ls[k] \in DOMAIN s.obj
  BY <1>5 DEF Pointers
<1>9. /\ \A h \in Names : hi[h] \in DOMAIN s.obj \cup {None}
      /\ \A ip \in IPs : ii[ip] \in DOMAIN s.obj \cup {None}
  BY <1>5 DEF Pointers
<1> HIDE DEF hi, ii, ls, lo
<1>10. /\ t.obj = s.obj /\ t.leases = ls /\ t.hostsIndex = hi /\ t.ipIndex = ii
       /\ t.leasedOffsets = lo
  BY DEF Server
<1>11. t \in Server
  BY <1>6 DEF Server
<1> HIDE DEF t
<1>12. Pointers(t)
  BY <1>8, <1>9, <1>10 DEF Pointers
<1> QED
  BY <1>1, <1>2, <1>7, <1>10, <1>11, <1>12 DEF ls, ii, lo

(* It keeps the leases apart if nobody has the address or the client.      *)
LEMMA AddSound ==
    ASSUME NEW s, Sound(s), NEW id \in DOMAIN s.obj,
           \A k \in DOMAIN s.leases :
             At(s, k).ip # s.obj[id].ip /\ (At(s, k).mac # ZeroMac => At(s, k).mac # s.obj[id].mac)
    PROVE  Sound(addLease(s, id).srv)
<1>1. CASE addLease(s, id).err
  BY <1>1 DEF addLease
<1>2. CASE ~addLease(s, id).err
  <2> DEFINE t == addLease(s, id).srv
             l == s.obj[id]
             n == Len(s.leases) + 1
  <2>1. s \in Server /\ Pointers(s) /\ Apart(s) /\ Covered(s)
    BY DEF Sound
  <2>2. /\ t \in Server /\ Pointers(t) /\ t.obj = s.obj
        /\ t.leases = Append(s.leases, id)
        /\ t.ipIndex = [s.ipIndex EXCEPT ![l.ip] = id]
        /\ t.leasedOffsets = s.leasedOffsets \cup {offset(l.ip)}
    BY <1>2, <2>1, AddFacts
  <2>3. /\ DOMAIN s.leases = 1..Len(s.leases) /\ Len(s.leases) \in Nat
        /\ \A k \in DOMAIN s.leases : At(s, k) \in Lease
        /\ l \in Lease
    BY <2>1, AtLease
  <2>4. s.leases \in Seq(Nat) /\ s.ipIndex \in [IPs -> Nat \cup {None}]
    BY <2>1 DEF Server
  <2> HIDE DEF t
  <2>5. /\ DOMAIN t.leases = DOMAIN s.leases \cup {n} /\ n \notin DOMAIN s.leases
        /\ t.leases[n] = id
        /\ \A k \in DOMAIN s.leases : t.leases[k] = s.leases[k]
    BY <2>2, <2>3, <2>4
  <2>6. At(t, n) = l /\ \A k \in DOMAIN s.leases : At(t, k) = At(s, k)
    BY <2>2, <2>5 DEF At
  <2> HIDE DEF n, l
  <2>7. Apart(t)
    <3>1. \A k \in DOMAIN s.leases : At(s, k).ip # l.ip /\ (At(s, k).mac # ZeroMac => At(s, k).mac # l.mac)
      BY DEF l
    <3> QED
      BY <2>1, <2>5, <2>6, <3>1 DEF Apart
  <2>8. Covered(t)
    <3>1. \A k \in DOMAIN s.leases : At(s, k).ip # l.ip
      BY DEF l
    <3>2. l.ip \in IPs /\ \A k \in DOMAIN s.leases : At(s, k).ip \in IPs
      BY <2>3 DEF Lease
    <3>3. l.ip \in Pool => l.ip \in t.leasedOffsets
      BY <2>2 DEF offset
    <3>4. t.ipIndex[l.ip] = id /\ \A k \in DOMAIN s.leases : t.ipIndex[At(s, k).ip] = s.ipIndex[At(s, k).ip]
      BY <2>2, <2>4, <3>1, <3>2
    <3> QED
      BY <2>1, <2>2, <2>5, <2>6, <3>3, <3>4 DEF Covered
  <2> QED
    BY <2>2, <2>7, <2>8 DEF Sound, t
<1> QED
  BY <1>1, <1>2

(* RemoveAt closes the gap: where element k has been.                      *)
Gap(i, k) == IF k < i THEN k ELSE k + 1

LEMMA RemoveAtFacts ==
    ASSUME NEW S, NEW s \in Seq(S), NEW i \in 1..Len(s)
    PROVE  /\ RemoveAt(s, i) \in Seq(S) /\ Len(RemoveAt(s, i)) = Len(s) - 1
           /\ DOMAIN RemoveAt(s, i) = 1..(Len(s) - 1)
           /\ \A k \in 1..(Len(s) - 1) : RemoveAt(s, i)[k] = s[Gap(i, k)]
<1>1. /\ SubSeq(s, 1, i - 1) \in Seq(S) /\ Len(SubSeq(s, 1, i - 1)) = i - 1
      /\ \A k \in 1..(i - 1) : SubSeq(s, 1, i - 1)[k] = s[k]
  OBVIOUS
<1>2. /\ SubSeq(s, i + 1, Len(s)) \in Seq(S) /\ Len(SubSeq(s, i + 1, Len(s))) = Len(s) - i
      /\ \A k \in 1..(Len(s) - i) : SubSeq(s, i + 1, Len(s))[k] = s[i + k]
  OBVIOUS
<1> DEFINE a == SubSeq(s, 1, i - 1)
           b == SubSeq(s, i + 1, Len(s))
<1>3. RemoveAt(s, i) = a \o b
  BY DEF RemoveAt
<1>4. Len(s) \in Nat /\ i \in Nat
  OBVIOUS
<1> HIDE DEF a, b
<1>5. a \in Seq(S) /\ b \in Seq(S) /\ Len(a) = i - 1 /\ Len(b) = Len(s) - i
  BY <1>1, <1>2 DEF a, b
<1>6. /\ a \o b \in Seq(S) /\ Len(a \o b) = Len(s) - 1
      /\ \A k \in 1..(Len(s) - 1) : (a \o b)[k] = IF k < i THEN a[k] ELSE b[k - i + 1]
  BY <1>4, <1>5
<1>7. ASSUME NEW k \in 1..(Len(s) - 1)
      PROVE  RemoveAt(s, i)[k] = s[Gap(i, k)]
  <2>1. CASE k < i
    BY <1>1, <1>3, <1>4, <1>6, <2>1 DEF a, Gap
  <2>2. CASE ~(k < i)
    <3>1. k - i + 1 \in 1..(Len(s) - i) /\ i + (k - i + 1) = k + 1
      BY <1>4, <2>2
    <3>2. b[k - i + 1] = s[i + (k - i + 1)]
      BY <1>2, <3>1 DEF b
    <3> QED
      BY <1>3, <1>6, <2>2, <3>1, <3>2 DEF Gap
  <2> QED
    BY <2>1, <2>2
<1> QED
  BY <1>3, <1>4, <1>6, <1>7

(* rmLeaseByIndex, on the server's state.                                  *)
Removed(s, i) ==
    [s EXCEPT !.leases = RemoveAt(s.leases, i),
              !.leasedOffsets = IF At(s, i).ip \in Pool THEN s.leasedOffsets \ {At(s, i).ip}
                                ELSE s.leasedOffsets,
              !.hostsIndex = [s.hostsIndex EXCEPT ![At(s, i).host] = None],
              !.ipIndex = [s.ipIndex EXCEPT ![At(s, i).ip] = None]]

LEMMA RemovedFacts ==
    ASSUME NEW s \in Server, Pointers(s), NEW i \in DOMAIN s.leases
    PROVE  LET t == Removed(s, i)
           IN  /\ t \in Server /\ Pointers(t) /\ t.obj = s.obj
               /\ t.leases = RemoveAt(s.leases, i)
               /\ Len(t.leases) = Len(s.leases) - 1
               /\ DOMAIN t.leases = 1..(Len(s.leases) - 1)
               /\ \A k \in DOMAIN t.leases : /\ Gap(i, k) \in DOMAIN s.leases \ {i}
                                             /\ t.leases[k] = s.leases[Gap(i, k)]
                                             /\ At(t, k) = At(s, Gap(i, k))
               /\ t.leasedOffsets = IF At(s, i).ip \in Pool
                                    THEN s.leasedOffsets \ {At(s, i).ip} ELSE s.leasedOffsets
               /\ t.hostsIndex = [s.hostsIndex EXCEPT ![At(s, i).host] = None]
               /\ t.ipIndex = [s.ipIndex EXCEPT ![At(s, i).ip] = None]
<1> DEFINE t == Removed(s, i)
           l == At(s, i)
<1>1. /\ s.leases \in Seq(Nat) /\ s.leasedOffsets \in SUBSET Pool
      /\ s.hostsIndex \in [Names -> Nat \cup {None}] /\ s.ipIndex \in [IPs -> Nat \cup {None}]
  BY DEF Server
<1>2. /\ DOMAIN s.leases = 1..Len(s.leases) /\ Len(s.leases) \in Nat /\ l \in Lease
  BY AtLease
<1>3. l.host \in Names /\ l.ip \in IPs
  BY <1>2 DEF Lease
<1>4. /\ RemoveAt(s.leases, i) \in Seq(Nat) /\ Len(RemoveAt(s.leases, i)) = Len(s.leases) - 1
      /\ DOMAIN RemoveAt(s.leases, i) = 1..(Len(s.leases) - 1)
      /\ \A k \in 1..(Len(s.leases) - 1) :
           RemoveAt(s.leases, i)[k] = s.leases[Gap(i, k)]
  <2>1. i \in 1..Len(s.leases)
    BY <1>2
  <2> QED
    BY <1>1, <2>1, RemoveAtFacts
<1> HIDE DEF l
<1>5. /\ t.obj = s.obj /\ t.leases = RemoveAt(s.leases, i)
      /\ t.leasedOffsets = IF l.ip \in Pool THEN s.leasedOffsets \ {l.ip} ELSE s.leasedOffsets
      /\ t.hostsIndex = [s.hostsIndex EXCEPT ![l.host] = None]
      /\ t.ipIndex = [s.ipIndex EXCEPT ![l.ip] = None]
  BY DEF Removed, Server, l
<1>6. t \in Server
  <2> DEFINE ls == RemoveAt(s.leases, i)
             lo == IF l.ip \in Pool THEN s.leasedOffsets \ {l.ip} ELSE s.leasedOffsets
             hi == [s.hostsIndex EXCEPT ![l.host] = None]
             ii == [s.ipIndex EXCEPT ![l.ip] = None]
  <2>1. /\ ls \in Seq(Nat) /\ lo \in SUBSET Pool
        /\ hi \in [Names -> Nat \cup {None}] /\ ii \in [IPs -> Nat \cup {None}]
    BY <1>1, <1>3, <1>4
  <2>2. t = [s EXCEPT !.leases = ls, !.leasedOffsets = lo, !.hostsIndex = hi, !.ipIndex = ii]
    BY DEF Removed, l
  <2> HIDE DEF ls, lo, hi, ii, t
  <2> QED
    BY <2>1, <2>2 DEF Server
<1> HIDE DEF t
<1>7. \A k \in DOMAIN t.leases : /\ Gap(i, k) \in DOMAIN s.leases \ {i}
                                 /\ t.leases[k] = s.leases[Gap(i, k)]
                                 /\ At(t, k) = At(s, Gap(i, k))
  <2>1. \A k \in 1..(Len(s.leases) - 1) : Gap(i, k) \in DOMAIN s.leases \ {i}
    BY <1>2 DEF Gap
  <2> QED
    BY <1>4, <1>5, <2>1 DEF At
<1>8. Pointers(t)
  <2>1. /\ \A h \in Names : t.hostsIndex[h] \in {s.hostsIndex[h], None}
        /\ \A ip \in IPs : t.ipIndex[ip] \in {s.ipIndex[ip], None}
    BY <1>1, <1>5
  <2> QED
    BY <1>5, <1>7, <2>1 DEF Pointers
<1> QED
  BY <1>4, <1>5, <1>6, <1>7, <1>8 DEF t, l

LEMMA RemovedSound ==
    ASSUME NEW s, Sound(s), NEW i \in DOMAIN s.leases
    PROVE  Sound(Removed(s, i))
<1> DEFINE t == Removed(s, i)
<1>1. s \in Server /\ Pointers(s) /\ Apart(s) /\ Covered(s)
  BY DEF Sound
<1>2. /\ t \in Server /\ Pointers(t)
      /\ \A k \in DOMAIN t.leases : /\ Gap(i, k) \in DOMAIN s.leases \ {i}
                                    /\ t.leases[k] = s.leases[Gap(i, k)]
                                    /\ At(t, k) = At(s, Gap(i, k))
      /\ DOMAIN t.leases = 1..(Len(s.leases) - 1)
      /\ t.leasedOffsets = IF At(s, i).ip \in Pool
                           THEN s.leasedOffsets \ {At(s, i).ip} ELSE s.leasedOffsets
      /\ t.ipIndex = [s.ipIndex EXCEPT ![At(s, i).ip] = None]
  BY <1>1, RemovedFacts
<1>3. /\ DOMAIN s.leases = 1..Len(s.leases) /\ Len(s.leases) \in Nat
      /\ \A k \in DOMAIN s.leases : At(s, k) \in Lease
      /\ s.ipIndex \in [IPs -> Nat \cup {None}]
  BY <1>1, AtLease DEF Server
<1> HIDE DEF t
<1>5. \A j, k \in DOMAIN t.leases : j # k => Gap(i, j) # Gap(i, k)
  BY <1>2, <1>3 DEF Gap
<1>6. Apart(t)
  BY <1>1, <1>2, <1>5 DEF Apart
<1>7. \A k \in DOMAIN s.leases \ {i} : At(s, k).ip # At(s, i).ip /\ At(s, k).ip \in IPs
  BY <1>1, <1>3 DEF Apart, Lease
<1>8. Covered(t)
  <2>1. \A k \in DOMAIN s.leases \ {i} :
          /\ At(s, k).ip \in Pool => At(s, k).ip \in t.leasedOffsets
          /\ t.ipIndex[At(s, k).ip] = s.leases[k]
    BY <1>1, <1>2, <1>3, <1>7 DEF Covered
  <2> QED
    BY <1>2, <2>1 DEF Covered
<1> QED
  BY <1>2, <1>6, <1>8 DEF Sound, t

-----------------------------------------------------------------------------
(* The indexes.                                                            *)

(* hostsIndex has the named leases, and both indexes nothing but leases of *)
(* the slice, under their own names and addresses.                         *)
Tied(s) ==
    /\ \A k \in DOMAIN s.leases :
         At(s, k).host # NoHost => s.hostsIndex[At(s, k).host] = s.leases[k]
    /\ \A ip \in IPs : s.ipIndex[ip] # None =>
         \E k \in DOMAIN s.leases : s.leases[k] = s.ipIndex[ip] /\ At(s, k).ip = ip
    /\ \A h \in Names : s.hostsIndex[h] # None =>
         \E k \in DOMAIN s.leases : s.leases[k] = s.hostsIndex[h] /\ At(s, k).host = h

(* The mishaps that leave a lease or an entry of an index behind.          *)
Untied == Doubled \cup {"blank", "dupname"}

LEMMA TiedSlice ==
    ASSUME NEW s, Tied(s), NEW t, t.leases = s.leases, t.hostsIndex = s.hostsIndex,
           t.ipIndex = s.ipIndex,
           \A k \in DOMAIN s.leases : At(t, k).ip = At(s, k).ip /\ At(t, k).host = At(s, k).host
    PROVE  Tied(t)
BY DEF Tied

LEMMA BecomeTied ==
    ASSUME NEW s, Sound(s), NEW p, Held(s, p), Become(s, p), Tied(s)
    PROVE  Tied(srv')
<1>1. s \in Server /\ Pointers(s)
  BY DEF Sound
<1>2. srv' = Collect(s, p).srv /\ pend' = Collect(s, p).pend
  BY DEF Become
<1>3. PICK num : Moved(num, s, p, Collect(s, p).srv, Collect(s, p).pend)
  BY <1>1, CollectMoves
<1>4. Moved(num, s, p, srv', pend')
  BY <1>2, <1>3
<1> HIDE DEF Become
<1>5. /\ DOMAIN srv'.leases = DOMAIN s.leases
      /\ \A k \in DOMAIN s.leases : At(srv', k) = At(s, k)
  BY <1>1, <1>4, MovedKeeps
<1>6. /\ num[None] = None
      /\ \A k \in DOMAIN s.leases : srv'.leases[k] = num[s.leases[k]]
      /\ \A h \in Names : srv'.hostsIndex[h] = num[s.hostsIndex[h]]
      /\ \A ip \in IPs : srv'.ipIndex[ip] = num[s.ipIndex[ip]]
  BY <1>4 DEF Moved
<1>7. \A k \in DOMAIN s.leases : At(s, k).host \in Names
  BY <1>1, AtLease DEF Lease
<1> QED
  BY <1>5, <1>6, <1>7 DEF Tied

(* No two places of the slice have one lease.                              *)
LEMMA PlacesApart ==
    ASSUME NEW s, Sound(s)
    PROVE  \A j, k \in DOMAIN s.leases : s.leases[j] = s.leases[k] => j = k
BY DEF Sound, Apart, At

(* The places that rmLeaseByIndex leaves.                                  *)
LEMMA GapOnto ==
    ASSUME NEW s \in Server, Pointers(s), NEW i \in DOMAIN s.leases, NEW j \in DOMAIN s.leases,
           j # i
    PROVE  \E k \in DOMAIN Removed(s, i).leases :
             /\ j = Gap(i, k) /\ Removed(s, i).leases[k] = s.leases[j]
             /\ At(Removed(s, i), k) = At(s, j)
<1> DEFINE t == Removed(s, i)
<1>1. /\ DOMAIN t.leases = 1..(Len(s.leases) - 1)
      /\ \A k \in DOMAIN t.leases : /\ Gap(i, k) \in DOMAIN s.leases \ {i}
                                    /\ t.leases[k] = s.leases[Gap(i, k)]
                                    /\ At(t, k) = At(s, Gap(i, k))
  BY RemovedFacts
<1>2. DOMAIN s.leases = 1..Len(s.leases) /\ Len(s.leases) \in Nat
  BY AtLease
<1> HIDE DEF t
<1>3. \E k \in DOMAIN t.leases : j = Gap(i, k)
  <2>1. CASE j < i
    <3>1. j \in DOMAIN t.leases /\ j = Gap(i, j)
      BY <1>1, <1>2, <2>1 DEF Gap
    <3> QED
      BY <3>1
  <2>2. CASE ~(j < i)
    <3>1. j - 1 \in DOMAIN t.leases /\ j = Gap(i, j - 1)
      BY <1>1, <1>2, <2>2 DEF Gap
    <3> QED
      BY <3>1
  <2> QED
    BY <2>1, <2>2
<1> QED
  BY <1>1, <1>3 DEF t

LEMMA RemovedTied ==
    ASSUME NEW s, Sound(s), Tied(s), NEW i \in DOMAIN s.leases
    PROVE  Tied(Removed(s, i))
<1> DEFINE t == Removed(s, i)
<1>1. s \in Server /\ Pointers(s) /\ Apart(s)
  BY DEF Sound
<1>2. /\ \A k \in DOMAIN t.leases : /\ Gap(i, k) \in DOMAIN s.leases \ {i}
                                    /\ t.leases[k] = s.leases[Gap(i, k)]
                                    /\ At(t, k) = At(s, Gap(i, k))
      /\ t.hostsIndex = [s.hostsIndex EXCEPT ![At(s, i).host] = None]
      /\ t.ipIndex = [s.ipIndex EXCEPT ![At(s, i).ip] = None]
  BY <1>1, RemovedFacts
<1>3. \A j \in DOMAIN s.leases : j # i =>
        \E k \in DOMAIN t.leases : t.leases[k] = s.leases[j] /\ At(t, k) = At(s, j)
  BY <1>1, GapOnto
<1>4. /\ s.hostsIndex \in [Names -> Nat \cup {None}] /\ s.ipIndex \in [IPs -> Nat \cup {None}]
  BY <1>1 DEF Server
<1>5. \A k \in DOMAIN s.leases : At(s, k).host \in Names /\ At(s, k).ip \in IPs
  BY <1>1, AtLease DEF Lease
<1> HIDE DEF t
<1>6. ASSUME NEW k \in DOMAIN t.leases, At(t, k).host # NoHost
      PROVE  t.hostsIndex[At(t, k).host] = t.leases[k]
  <2> DEFINE j == Gap(i, k)
  <2>1. j \in DOMAIN s.leases /\ j # i /\ t.leases[k] = s.leases[j] /\ At(t, k) = At(s, j)
    BY <1>2
  <2> HIDE DEF j
  <2>2. s.hostsIndex[At(s, j).host] = s.leases[j]
    BY <1>6, <2>1 DEF Tied
  <2>3. At(s, j).host # At(s, i).host
    <3>1. SUFFICES ASSUME At(s, j).host = At(s, i).host
                   PROVE  FALSE
      OBVIOUS
    <3>2. s.hostsIndex[At(s, i).host] = s.leases[i]
      BY <1>6, <2>1, <3>1 DEF Tied
    <3> QED
      BY <2>1, <2>2, <3>1, <3>2, PlacesApart
  <2> QED
    BY <1>2, <1>4, <1>5, <2>1, <2>2, <2>3
<1>7. ASSUME NEW ip \in IPs, t.ipIndex[ip] # None
      PROVE  \E k \in DOMAIN t.leases : t.leases[k] = t.ipIndex[ip] /\ At(t, k).ip = ip
  <2>1. ip # At(s, i).ip /\ t.ipIndex[ip] = s.ipIndex[ip]
    BY <1>2, <1>4, <1>5, <1>7
  <2>2. PICK j \in DOMAIN s.leases : s.leases[j] = s.ipIndex[ip] /\ At(s, j).ip = ip
    BY <1>7, <2>1 DEF Tied
  <2>3. j # i
    BY <2>1, <2>2
  <2> QED
    BY <1>3, <2>1, <2>2, <2>3
<1>8. ASSUME NEW h \in Names, t.hostsIndex[h] # None
      PROVE  \E k \in DOMAIN t.leases : t.leases[k] = t.hostsIndex[h] /\ At(t, k).host = h
  <2>1. h # At(s, i).host /\ t.hostsIndex[h] = s.hostsIndex[h]
    BY <1>2, <1>4, <1>5, <1>8
  <2>2. PICK j \in DOMAIN s.leases : s.leases[j] = s.hostsIndex[h] /\ At(s, j).host = h
    BY <1>8, <2>1 DEF Tied
  <2>3. j # i
    BY <2>1, <2>2
  <2> QED
    BY <1>3, <2>1, <2>2, <2>3
<1> QED
  BY <1>6, <1>7, <1>8 DEF Tied, t

LEMMA AddTied ==
    ASSUME NEW s, Sound(s), Tied(s), NEW id \in DOMAIN s.obj,
           \A k \in DOMAIN s.leases : At(s, k).ip # s.obj[id].ip
    PROVE  Tied(addLease(s, id).srv)
<1>1. CASE addLease(s, id).err
  BY <1>1 DEF addLease
<1>2. CASE ~addLease(s, id).err
  <2> DEFINE t == addLease(s, id).srv
             l == s.obj[id]
             n == Len(s.leases) + 1
  <2>1. s \in Server /\ Pointers(s)
    BY DEF Sound
  <2>2. /\ t.obj = s.obj /\ t.leases = Append(s.leases, id)
        /\ t.hostsIndex = IF l.host = NoHost THEN s.hostsIndex
                          ELSE [s.hostsIndex EXCEPT ![l.host] = id]
        /\ t.ipIndex = [s.ipIndex EXCEPT ![l.ip] = id]
        /\ l.host # NoHost => s.hostsIndex[l.host] = None
    BY <1>2, <2>1, AddFacts
  <2>3. /\ s.leases \in Seq(Nat) /\ id \in Nat /\ l \in Lease
        /\ s.hostsIndex \in [Names -> Nat \cup {None}] /\ s.ipIndex \in [IPs -> Nat \cup {None}]
        /\ DOMAIN s.leases = 1..Len(s.leases) /\ Len(s.leases) \in Nat
        /\ \A k \in DOMAIN s.leases : At(s, k) \in Lease
    BY <2>1, AtLease DEF Server
  <2>4. l.host \in Names /\ l.ip \in IPs
    BY <2>3 DEF Lease
  <2> HIDE DEF t, l
  <2>5. /\ DOMAIN t.leases = DOMAIN s.leases \cup {n} /\ n \notin DOMAIN s.leases
        /\ t.leases[n] = id /\ \A k \in DOMAIN s.leases : t.leases[k] = s.leases[k]
    BY <2>2, <2>3
  <2> HIDE DEF n
  <2>6. At(t, n) = l /\ \A k \in DOMAIN s.leases : At(t, k) = At(s, k)
    BY <2>2, <2>5 DEF At, l
  <2>7. \A k \in DOMAIN s.leases : At(s, k).host \in Names /\ At(s, k).ip \in IPs
    BY <2>3 DEF Lease
  <2>8. ASSUME NEW k \in DOMAIN t.leases, At(t, k).host # NoHost
        PROVE  t.hostsIndex[At(t, k).host] = t.leases[k]
    <3>1. CASE k = n
      BY <2>2, <2>3, <2>4, <2>5, <2>6, <2>8, <3>1
    <3>2. CASE k # n
      <4>1. k \in DOMAIN s.leases /\ At(t, k) = At(s, k) /\ t.leases[k] = s.leases[k]
        BY <2>5, <2>6, <3>2
      <4>2. s.hostsIndex[At(s, k).host] = s.leases[k] /\ s.leases[k] # None
        BY <2>1, <2>8, <4>1, AtLease DEF Tied, Pointers
      <4>3. l.host # NoHost => At(s, k).host # l.host
        BY <2>2, <4>2
      <4> QED
        BY <2>2, <2>3, <2>4, <2>7, <4>1, <4>2, <4>3
    <3> QED
      BY <3>1, <3>2
  <2>9. ASSUME NEW ip \in IPs, t.ipIndex[ip] # None
        PROVE  \E k \in DOMAIN t.leases : t.leases[k] = t.ipIndex[ip] /\ At(t, k).ip = ip
    <3>1. CASE ip = l.ip
      <4>1. t.ipIndex[ip] = id
        BY <2>2, <2>3, <2>4, <3>1
      <4> QED
        BY <2>5, <2>6, <3>1, <4>1
    <3>2. CASE ip # l.ip
      <4>1. t.ipIndex[ip] = s.ipIndex[ip]
        BY <2>2, <2>3, <3>2
      <4>2. PICK k \in DOMAIN s.leases : s.leases[k] = s.ipIndex[ip] /\ At(s, k).ip = ip
        BY <2>9, <4>1 DEF Tied
      <4> QED
        BY <2>5, <2>6, <4>1, <4>2
    <3> QED
      BY <3>1, <3>2
  <2>10. ASSUME NEW h \in Names, t.hostsIndex[h] # None
         PROVE  \E k \in DOMAIN t.leases : t.leases[k] = t.hostsIndex[h] /\ At(t, k).host = h
    <3>1. CASE h = l.host /\ l.host # NoHost
      <4>1. t.hostsIndex[h] = id
        BY <2>2, <2>3, <2>4, <3>1
      <4> QED
        BY <2>5, <2>6, <3>1, <4>1
    <3>2. CASE ~(h = l.host /\ l.host # NoHost)
      <4>1. t.hostsIndex[h] = s.hostsIndex[h]
        BY <2>2, <2>3, <3>2
      <4>2. PICK k \in DOMAIN s.leases : s.leases[k] = s.hostsIndex[h] /\ At(s, k).host = h
        BY <2>10, <4>1 DEF Tied
      <4> QED
        BY <2>5, <2>6, <4>1, <4>2
    <3> QED
      BY <3>1, <3>2
  <2> QED
    BY <2>8, <2>9, <2>10 DEF Tied, t
<1> QED
  BY <1>1, <1>2

-----------------------------------------------------------------------------
(* The state of the loop of rmDynamicLease: the slice and its array, which *)
(* begins with the slice.                                                  *)
RmState == [srv : Server, arr : Seq(Nat), stop : BOOLEAN, err : BOOLEAN]

ArrayOK(s, arr) ==
    /\ Len(s.leases) <= Len(arr)
    /\ \A k \in DOMAIN s.leases : arr[k] = s.leases[k]
    /\ \A k \in DOMAIN arr : arr[k] \in DOMAIN s.obj

(* The array after a removal.                                              *)
ShiftedArr(s, arr, i) ==
    RemoveAt(s.leases, i) \o SubSeq(arr, Len(s.leases), Len(arr))

(* A new beginning of a sequence.                                          *)
LEMMA NewPrefix ==
    ASSUME NEW a \in Seq(Nat), NEW s \in Seq(Nat), NEW n \in Nat, n = Len(a) + 1, n <= Len(s) + 1
    PROVE  /\ a \o SubSeq(s, n, Len(s)) \in Seq(Nat)
           /\ Len(a \o SubSeq(s, n, Len(s))) = Len(s)
           /\ \A k \in 1..Len(s) : (a \o SubSeq(s, n, Len(s)))[k] = IF k < n THEN a[k] ELSE s[k]
<1> DEFINE b == SubSeq(s, n, Len(s))
<1>1. Len(a) \in Nat /\ Len(s) \in Nat
  OBVIOUS
<1>2. b \in Seq(Nat) /\ Len(b) = Len(s) - n + 1 /\ \A k \in 1..(Len(s) - n + 1) : b[k] = s[n + k - 1]
  OBVIOUS
<1> HIDE DEF b
<1>3. a \o b \in Seq(Nat) /\ Len(a \o b) = Len(s)
  BY <1>1, <1>2
<1>4. \A k \in 1..Len(s) : (a \o b)[k] = IF k <= Len(a) THEN a[k] ELSE b[k - Len(a)]
  BY <1>1, <1>2, <1>3
<1>5. ASSUME NEW k \in 1..Len(s)
      PROVE  (a \o b)[k] = IF k < n THEN a[k] ELSE s[k]
  <2>1. CASE k < n
    BY <1>1, <1>4, <2>1
  <2>2. CASE ~(k < n)
    <3>1. k - Len(a) \in 1..(Len(s) - n + 1) /\ n + (k - Len(a)) - 1 = k
      BY <1>1, <2>2
    <3>2. b[k - Len(a)] = s[n + (k - Len(a)) - 1]
      BY <1>2, <3>1
    <3>3. ~(k <= Len(a))
      BY <1>1, <2>2
    <3>4. (a \o b)[k] = b[k - Len(a)]
      BY <1>4, <3>3
    <3> QED
      BY <2>2, <3>1, <3>2, <3>4
  <2> QED
    BY <2>1, <2>2
<1> QED
  BY <1>3, <1>5 DEF b

LEMMA ShiftFacts ==
    ASSUME NEW s \in Server, Pointers(s), NEW arr \in Seq(Nat), ArrayOK(s, arr),
           NEW i \in DOMAIN s.leases
    PROVE  /\ ShiftedArr(s, arr, i) \in Seq(Nat)
           /\ Len(ShiftedArr(s, arr, i)) = Len(arr)
           /\ ArrayOK(Removed(s, i), ShiftedArr(s, arr, i))
<1> DEFINE L == Len(s.leases)
           a == RemoveAt(s.leases, i)
           b == SubSeq(arr, L, Len(arr))
           t == Removed(s, i)
<1>1. /\ s.leases \in Seq(Nat) /\ DOMAIN s.leases = 1..L /\ L \in Nat /\ L >= 1
      /\ Len(arr) \in Nat /\ L <= Len(arr) /\ DOMAIN arr = 1..Len(arr)
  <2>1. DOMAIN s.leases = 1..L /\ L \in Nat
    BY AtLease
  <2> QED
    BY <2>1 DEF Server, ArrayOK
<1>2. /\ t.obj = s.obj /\ t.leases = a /\ Len(a) = L - 1 /\ DOMAIN a = 1..(L - 1)
      /\ Pointers(t)
  <2>1. /\ Pointers(t) /\ t.obj = s.obj /\ t.leases = a
        /\ Len(t.leases) = L - 1 /\ DOMAIN t.leases = 1..(L - 1)
    <3> HIDE DEF t, a, L
    <3>1. t = Removed(s, i) /\ a = RemoveAt(s.leases, i) /\ L = Len(s.leases)
      BY DEF t, a, L
    <3> QED
      BY <3>1, RemovedFacts
  <2> HIDE DEF t
  <2> QED
    BY <2>1
<1>3. a \in Seq(Nat)
  <2>1. i \in 1..Len(s.leases)
    BY <1>1
  <2> QED
    BY <1>1, <2>1, RemoveAtFacts
<1>4. /\ a \o b \in Seq(Nat) /\ Len(a \o b) = Len(arr)
      /\ \A k \in 1..Len(arr) : (a \o b)[k] = IF k < L THEN a[k] ELSE arr[k]
  <2> DEFINE c == a \o b
  <2>1. L = Len(a) + 1
    BY <1>1, <1>2
  <2>2. L \in Nat /\ L <= Len(arr)
    BY <1>1
  <2>3. c = a \o SubSeq(arr, L, Len(arr))
    OBVIOUS
  <2> HIDE DEF a, L, b, c
  <2>4. /\ c \in Seq(Nat) /\ Len(c) = Len(arr)
        /\ \A k \in 1..Len(arr) : c[k] = IF k < L THEN a[k] ELSE arr[k]
    BY <1>3, <2>1, <2>2, <2>3, NewPrefix
  <2> QED
    BY <2>4 DEF c
<1> HIDE DEF a, b, L, t
<1>5. \A k \in 1..(L - 1) : (a \o b)[k] = a[k]
  <2>1. \A k \in 1..(L - 1) : k \in 1..Len(arr) /\ k < L
    BY <1>1
  <2> QED
    BY <1>4, <2>1
<1>6. \A k \in 1..Len(arr) : (a \o b)[k] \in DOMAIN s.obj
  <2> SUFFICES ASSUME NEW k \in 1..Len(arr)
               PROVE  (a \o b)[k] \in DOMAIN s.obj
    OBVIOUS
  <2>1. CASE k < L
    <3>1. k \in DOMAIN a
      BY <1>1, <1>2, <2>1
    <3>2. a[k] \in DOMAIN s.obj
      BY <1>2, <3>1 DEF Pointers
    <3> QED
      BY <1>4, <2>1, <3>2
  <2>2. CASE ~(k < L)
    BY <1>1, <1>4, <2>2 DEF ArrayOK
  <2> QED
    BY <2>1, <2>2
<1>7. ArrayOK(t, a \o b)
  <2>1. Len(t.leases) <= Len(a \o b)
    BY <1>1, <1>2, <1>4
  <2>2. \A k \in DOMAIN t.leases : (a \o b)[k] = t.leases[k]
    BY <1>2, <1>5
  <2>3. DOMAIN (a \o b) = 1..Len(arr)
    BY <1>4
  <2> QED
    BY <1>2, <1>6, <2>1, <2>2, <2>3 DEF ArrayOK
<1> QED
  BY <1>4, <1>7 DEF ShiftedArr, a, b, t, L

(* rmLeaseByIndex in the loop, and once.                                   *)
LEMMA ByIndexFacts ==
    ASSUME NEW st \in RmState, Pointers(st.srv), ArrayOK(st.srv, st.arr),
           NEW i \in DOMAIN st.srv.leases
    PROVE  rmLeaseByIndex(st, i)
           = [srv |-> Removed(st.srv, i), arr |-> ShiftedArr(st.srv, st.arr, i),
              stop |-> st.stop, err |-> st.err]
<1>1. DOMAIN st.srv.leases = 1..Len(st.srv.leases) /\ Len(st.srv.leases) \in Nat
  BY AtLease DEF RmState
<1>2. ~(i > Len(st.srv.leases))
  BY <1>1
<1>3. st.srv \in Server
  BY DEF RmState
<1> DEFINE s  == st.srv
           l  == s.obj[s.leases[i]]
           ls == RemoveAt(s.leases, i)
           ar == ShiftedArr(s, st.arr, i)
           lo == IF l.ip \in Pool THEN s.leasedOffsets \ {l.ip} ELSE s.leasedOffsets
           hi == [s.hostsIndex EXCEPT ![l.host] = None]
           ii == [s.ipIndex EXCEPT ![l.ip] = None]
           sh == [obj |-> s.obj, leases |-> ls, hostsIndex |-> s.hostsIndex,
                  ipIndex |-> s.ipIndex, leasedOffsets |-> s.leasedOffsets]
           rm == [obj |-> s.obj, leases |-> ls, hostsIndex |-> hi,
                  ipIndex |-> ii, leasedOffsets |-> lo]
<1>4. Shift(st, i) = [srv |-> sh, arr |-> ar, stop |-> st.stop, err |-> st.err]
  <2>1. Shift(st, i) = [st EXCEPT !.srv = [st.srv EXCEPT !.leases = ls], !.arr = ar]
    BY DEF Shift, ShiftedArr, RmState
  <2>2. [s EXCEPT !.leases = ls] = sh
    <3> HIDE DEF ls
    <3> QED
      BY SMTT(30), <1>3 DEF Server
  <2> HIDE DEF ar, sh
  <2> QED
    BY <2>1, <2>2 DEF RmState
<1>5. rmLeaseByIndex(st, i) = [[[[srv |-> sh, arr |-> ar, stop |-> st.stop, err |-> st.err] EXCEPT
                                   !.srv.leasedOffsets = IF l.ip \in Pool THEN @ \ {l.ip} ELSE @] EXCEPT
                                   !.srv.hostsIndex[l.host] = None] EXCEPT
                                   !.srv.ipIndex[l.ip] = None]
  BY <1>2, <1>4 DEF rmLeaseByIndex
<1>6. rmLeaseByIndex(st, i) = [srv |-> rm, arr |-> ar, stop |-> st.stop, err |-> st.err]
  <2> DEFINE x0 == [srv |-> sh, arr |-> ar, stop |-> st.stop, err |-> st.err]
             s1 == [obj |-> s.obj, leases |-> ls, hostsIndex |-> s.hostsIndex,
                    ipIndex |-> s.ipIndex, leasedOffsets |-> lo]
             x1 == [srv |-> s1, arr |-> ar, stop |-> st.stop, err |-> st.err]
             s2 == [obj |-> s.obj, leases |-> ls, hostsIndex |-> hi,
                    ipIndex |-> s.ipIndex, leasedOffsets |-> lo]
             x2 == [srv |-> s2, arr |-> ar, stop |-> st.stop, err |-> st.err]
  <2>1. x1 = [x0 EXCEPT !.srv.leasedOffsets = IF l.ip \in Pool THEN @ \ {l.ip} ELSE @]
    <3> HIDE DEF l, ar, ls, s
    <3> QED
      BY SMTT(30)
  <2>2. x2 = [x1 EXCEPT !.srv.hostsIndex[l.host] = None]
    <3> HIDE DEF l, ar, ls, s, lo
    <3> QED
      OBVIOUS
  <2>3. [srv |-> rm, arr |-> ar, stop |-> st.stop, err |-> st.err]
        = [x2 EXCEPT !.srv.ipIndex[l.ip] = None]
    <3> HIDE DEF l, ar, ls, s, lo, hi
    <3> QED
      OBVIOUS
  <2> HIDE DEF x1, x2, rm
  <2> QED
    BY ZenonT(30), <1>5, <2>1, <2>2, <2>3
<1>7. Removed(s, i) = rm
  <2>1. l = At(s, i)
    BY DEF At
  <2>2. Removed(s, i) = [s EXCEPT !.leases = ls, !.leasedOffsets = lo, !.hostsIndex = hi,
                                  !.ipIndex = ii]
    BY <2>1 DEF Removed
  <2> HIDE DEF l, ls, lo, hi, ii
  <2> QED
    BY <1>3, <2>2 DEF Server
<1>8. rmLeaseByIndex(st, i) = [srv |-> Removed(s, i), arr |-> ar, stop |-> st.stop, err |-> st.err]
  BY <1>6, <1>7
<1> QED
  BY <1>8
(* Emptying hostnames and removing leases of a client or of an address.    *)
Thinned(s, t, mac, ip) ==
    /\ t \in Server /\ Pointers(t) /\ DOMAIN t.obj = DOMAIN s.obj
    /\ \A j \in DOMAIN s.obj : Same(t.obj[j], s.obj[j])
    /\ Sound(s) => Sound(t)
    /\ Range(t.leases) \subseteq Range(s.leases)
    /\ \A j \in Range(s.leases) \ Range(t.leases) :
         ~s.obj[j].static /\ (s.obj[j].mac = mac \/ s.obj[j].ip = ip)

LEMMA EmptyFacts ==
    ASSUME NEW st \in RmState, Pointers(st.srv), ArrayOK(st.srv, st.arr),
           NEW id \in DOMAIN st.srv.obj, NEW lease, NEW mac, NEW ip
    PROVE  LET r == emptyHostname(st, id, lease)
           IN  /\ r \in RmState /\ r.arr = st.arr /\ ArrayOK(r.srv, r.arr)
               /\ Thinned(st.srv, r.srv, mac, ip)
<1> DEFINE s == st.srv
           o == [s.obj EXCEPT ![id] = [s.obj[id] EXCEPT !.host = NoHost]]
           t == [obj |-> o, leases |-> s.leases, hostsIndex |-> s.hostsIndex,
                 ipIndex |-> s.ipIndex, leasedOffsets |-> s.leasedOffsets]
           r == [srv |-> t, arr |-> st.arr, stop |-> st.stop, err |-> st.err]
<1>1. s \in Server /\ s.obj \in Seq(Lease) /\ st.arr \in Seq(Nat)
  BY DEF RmState, Server
<1>2. DOMAIN s.obj = 1..Len(s.obj) /\ \A i \in DOMAIN s.obj : s.obj[i] \in Lease
  BY <1>1, AtLease
<1>3. o \in Seq(Lease) /\ DOMAIN o = DOMAIN s.obj /\ \A j \in DOMAIN s.obj : Same(o[j], s.obj[j])
  <2>1. [s.obj[id] EXCEPT !.host = NoHost] \in Lease
    BY <1>2 DEF Lease, Names
  <2>2. Same([s.obj[id] EXCEPT !.host = NoHost], s.obj[id])
    BY <1>2 DEF Same, Lease
  <2> DEFINE l == [s.obj[id] EXCEPT !.host = NoHost]
  <2> HIDE DEF l
  <2>3. o \in Seq(Lease) /\ DOMAIN o = DOMAIN s.obj
    BY <1>1, <1>2, <2>1 DEF l
  <2>4. \A j \in DOMAIN s.obj : o[j] = IF j = id THEN l ELSE s.obj[j]
    BY <1>1 DEF l
  <2>5. \A j \in DOMAIN s.obj : Same(s.obj[j], s.obj[j])
    BY DEF Same
  <2> HIDE DEF o
  <2> QED
    BY <2>2, <2>3, <2>4, <2>5 DEF l
<1> HIDE DEF o
<1>4. t \in Server /\ t.obj = o
  BY <1>1, <1>3 DEF Server
<1>5. Pointers(t)
  BY <1>3 DEF Pointers
<1>6. \A j \in DOMAIN s.leases : At(t, j).mac = At(s, j).mac /\ At(t, j).ip = At(s, j).ip
  BY <1>3 DEF At, Same, Pointers
<1>7. /\ t.leases = s.leases /\ t.ipIndex = s.ipIndex /\ t.leasedOffsets = s.leasedOffsets
  OBVIOUS
<1> HIDE DEF t
<1>8. Sound(s) => Sound(t)
  BY <1>4, <1>5, <1>6, <1>7, SameSlice
<1>9. Thinned(s, t, mac, ip)
  BY <1>3, <1>4, <1>5, <1>7, <1>8 DEF Thinned
<1>10. ArrayOK(t, st.arr)
  BY <1>3, <1>4, <1>7 DEF ArrayOK
<1>11. r \in RmState
  BY <1>1, <1>4 DEF RmState
<1>12. Thinned(s, s, mac, ip)
  <2>1. \A j \in DOMAIN s.obj : Same(s.obj[j], s.obj[j])
    BY DEF Same
  <2> QED
    BY <1>1, <2>1 DEF Thinned
<1>13. [st EXCEPT !.srv.obj[id].host = NoHost] = r
  <2>1. st = [srv |-> s, arr |-> st.arr, stop |-> st.stop, err |-> st.err]
    BY DEF RmState
  <2>2. s = [obj |-> s.obj, leases |-> s.leases, hostsIndex |-> s.hostsIndex,
             ipIndex |-> s.ipIndex, leasedOffsets |-> s.leasedOffsets]
    BY <1>1 DEF Server
  <2>3. [st EXCEPT !.srv.obj[id].host = NoHost]
        = [srv |-> [s EXCEPT !.obj[id].host = NoHost], arr |-> st.arr, stop |-> st.stop,
           err |-> st.err]
    <3> HIDE DEF s
    <3> QED
      BY <2>1
  <2>4. [s EXCEPT !.obj[id].host = NoHost] = t
    <3> HIDE DEF s
    <3> QED
      BY <2>2 DEF t, o
  <2> QED
    BY <2>3, <2>4
<1> HIDE DEF s, r
<1>14. emptyHostname(st, id, lease) \in {st, r}
  BY <1>13 DEF emptyHostname
<1> QED
  BY <1>9, <1>10, <1>11, <1>12, <1>14 DEF r, s
LEMMA ThinnedSelf ==
    ASSUME NEW s \in Server, Pointers(s), NEW mac, NEW ip
    PROVE  Thinned(s, s, mac, ip)
BY DEF Thinned, Same

LEMMA ThinnedTwice ==
    ASSUME NEW s, Pointers(s), NEW t, NEW u, NEW mac, NEW ip,
           Thinned(s, t, mac, ip), Thinned(t, u, mac, ip)
    PROVE  Thinned(s, u, mac, ip)
<1>1. \A j \in DOMAIN s.obj : Same(u.obj[j], s.obj[j])
  BY DEF Thinned, Same
<1>2. Range(s.leases) \in SUBSET (DOMAIN s.obj)
  BY DEF Pointers, Range
<1>3. \A j \in Range(s.leases) \ Range(u.leases) :
        ~s.obj[j].static /\ (s.obj[j].mac = mac \/ s.obj[j].ip = ip)
  <2> SUFFICES ASSUME NEW j \in Range(s.leases), j \notin Range(u.leases)
               PROVE  ~s.obj[j].static /\ (s.obj[j].mac = mac \/ s.obj[j].ip = ip)
    OBVIOUS
  <2>1. Same(t.obj[j], s.obj[j])
    BY <1>2 DEF Thinned
  <2> QED
    BY <2>1 DEF Thinned, Same
<1> QED
  BY <1>1, <1>3 DEF Thinned

LEMMA RemovedThin ==
    ASSUME NEW s \in Server, Pointers(s), NEW i \in DOMAIN s.leases, NEW mac, NEW ip,
           ~At(s, i).static, At(s, i).mac = mac \/ At(s, i).ip = ip
    PROVE  Thinned(s, Removed(s, i), mac, ip)
<1> DEFINE t == Removed(s, i)
<1>1. /\ t \in Server /\ Pointers(t) /\ t.obj = s.obj
      /\ DOMAIN t.leases = 1..(Len(s.leases) - 1)
      /\ \A k \in DOMAIN t.leases : /\ Gap(i, k) \in DOMAIN s.leases \ {i}
                                    /\ t.leases[k] = s.leases[Gap(i, k)]
  BY ZenonT(30), RemovedFacts
<1>2. DOMAIN s.leases = 1..Len(s.leases) /\ Len(s.leases) \in Nat
  BY AtLease
<1>3. Sound(s) => Sound(t)
  BY RemovedSound
<1> HIDE DEF t
<1>4. Range(t.leases) \subseteq Range(s.leases)
  BY <1>1 DEF Range
<1>5. \A j \in DOMAIN s.leases \ {i} : \E k \in DOMAIN t.leases : j = Gap(i, k)
  <2> SUFFICES ASSUME NEW j \in DOMAIN s.leases \ {i}
               PROVE  \E k \in DOMAIN t.leases : j = Gap(i, k)
    OBVIOUS
  <2>1. CASE j < i
    <3>1. j \in DOMAIN t.leases /\ j = Gap(i, j)
      BY <1>1, <1>2, <2>1 DEF Gap
    <3> QED
      BY <3>1
  <2>2. CASE ~(j < i)
    <3>1. j - 1 \in DOMAIN t.leases /\ j = Gap(i, j - 1)
      BY <1>1, <1>2, <2>2 DEF Gap
    <3> QED
      BY <3>1
  <2> QED
    BY <2>1, <2>2
<1>6. \A j \in DOMAIN s.leases \ {i} : s.leases[j] \in Range(t.leases)
  BY <1>1, <1>5 DEF Range
<1>7. \A j \in Range(s.leases) \ Range(t.leases) : j = s.leases[i]
  BY <1>6 DEF Range
<1>8. \A j \in DOMAIN s.obj : Same(t.obj[j], s.obj[j])
  BY <1>1 DEF Same
<1> QED
  BY <1>1, <1>3, <1>4, <1>7, <1>8 DEF Thinned, At, t

(* One step of rmDynamicLease.                                             *)
LEMMA RmStepFacts ==
    ASSUME NEW st \in RmState, Pointers(st.srv), ArrayOK(st.srv, st.arr),
           NEW i \in DOMAIN st.arr, NEW lease \in DOMAIN st.srv.obj
    PROVE  LET r == rmDynamicStep(st, i, lease)
           IN  /\ r \in RmState /\ Len(r.arr) = Len(st.arr) /\ ArrayOK(r.srv, r.arr)
               /\ Thinned(st.srv, r.srv, st.srv.obj[lease].mac, st.srv.obj[lease].ip)
<1> DEFINE s == st.srv
           l == s.obj[st.arr[i]]
           mac == s.obj[lease].mac
           ip == s.obj[lease].ip
           match == l.mac = mac \/ l.ip = ip
           rm == rmLeaseByIndex(st, i)
           r == rmDynamicStep(st, i, lease)
           Good(x) == /\ x \in RmState /\ Len(x.arr) = Len(st.arr) /\ ArrayOK(x.srv, x.arr)
                      /\ Thinned(s, x.srv, mac, ip)
<1>1. s \in Server /\ st.arr \in Seq(Nat) /\ st.stop \in BOOLEAN /\ st.err \in BOOLEAN
  BY DEF RmState
<1>2. /\ DOMAIN s.leases = 1..Len(s.leases) /\ Len(s.leases) \in Nat
      /\ DOMAIN st.arr = 1..Len(st.arr) /\ Len(st.arr) \in Nat
  BY <1>1, AtLease
<1>3. st.arr[i] \in DOMAIN s.obj
  BY DEF ArrayOK
<1>4. Good(st)
  BY <1>1, ThinnedSelf
<1>5. ASSUME NEW x \in BOOLEAN, NEW y \in BOOLEAN, NEW z \in RmState, Good(z)
      PROVE  Good([srv |-> z.srv, arr |-> z.arr, stop |-> x, err |-> y])
  BY <1>5 DEF RmState
<1>6. ASSUME match, ~l.static
      PROVE  Good(rm)
  <2>1. CASE i > Len(s.leases)
    BY <1>4, <2>1 DEF rmLeaseByIndex
  <2>2. CASE ~(i > Len(s.leases))
    <3>1. i \in DOMAIN s.leases /\ At(s, i) = l
      BY <1>2, <2>2 DEF ArrayOK, At
    <3>2. rm = [srv |-> Removed(s, i), arr |-> ShiftedArr(s, st.arr, i),
                stop |-> st.stop, err |-> st.err]
      BY <3>1, ByIndexFacts
    <3>3. Thinned(s, Removed(s, i), mac, ip)
      <4> HIDE DEF s, mac, ip
      <4> QED
        BY <1>1, <1>6, <3>1, RemovedThin DEF s, mac, ip
    <3>4. /\ ShiftedArr(s, st.arr, i) \in Seq(Nat)
          /\ Len(ShiftedArr(s, st.arr, i)) = Len(st.arr)
          /\ ArrayOK(Removed(s, i), ShiftedArr(s, st.arr, i))
      BY <1>1, <3>1, ShiftFacts
    <3> HIDE DEF s, mac, ip, rm
    <3>5. Removed(s, i) \in Server
      BY <3>3 DEF Thinned
    <3>6. rm \in RmState
      BY <1>1, <3>2, <3>4, <3>5 DEF RmState
    <3> QED
      BY <3>2, <3>3, <3>4, <3>6
  <2> QED
    BY <2>1, <2>2
<1>7. ASSUME NEW z \in RmState, Good(z), NEW id \in DOMAIN z.srv.obj
      PROVE  Good(emptyHostname(z, id, lease))
  <2> DEFINE e == emptyHostname(z, id, lease)
  <2>1. Pointers(z.srv) /\ ArrayOK(z.srv, z.arr)
    BY <1>7 DEF Thinned
  <2>2. /\ e \in RmState /\ e.arr = z.arr /\ ArrayOK(e.srv, e.arr)
        /\ Thinned(z.srv, e.srv, mac, ip)
    BY <2>1, EmptyFacts
  <2> HIDE DEF e, s, mac, ip
  <2>3. Thinned(s, e.srv, mac, ip)
    BY <1>7, <2>2, ThinnedTwice DEF s
  <2> QED
    BY <1>7, <2>2, <2>3 DEF e
<1>8. ASSUME st.stop
      PROVE  Good(r)
  BY <1>4, <1>8 DEF rmDynamicStep
<1>9. ASSUME ~st.stop /\ match /\ l.static
      PROVE  Good(r)
  <2>1. r = [st EXCEPT !.stop = TRUE, !.err = TRUE]
    BY <1>9 DEF rmDynamicStep
  <2>2. r = [srv |-> st.srv, arr |-> st.arr, stop |-> TRUE, err |-> TRUE]
    BY <2>1 DEF RmState
  <2>3. TRUE \in BOOLEAN /\ Good(st)
    BY <1>4
  <2> HIDE DEF r, Good
  <2> QED
    BY <1>5, <2>2, <2>3
<1>10. ASSUME ~st.stop /\ match /\ ~l.static
       PROVE  Good(r)
  <2>1. r = IF i > Len(rm.srv.leases) THEN [rm EXCEPT !.stop = TRUE]
            ELSE emptyHostname(rm, rm.srv.leases[i], lease)
    BY <1>10 DEF rmDynamicStep
  <2>2. Good(rm)
    BY <1>6, <1>10
  <2>3. CASE i > Len(rm.srv.leases)
    <3>1. r = [srv |-> rm.srv, arr |-> rm.arr, stop |-> TRUE, err |-> rm.err] /\ rm.err \in BOOLEAN
      <4> HIDE DEF rm
      <4> QED
        BY <2>1, <2>2, <2>3 DEF RmState
    <3>2. TRUE \in BOOLEAN /\ Good(rm) /\ rm \in RmState
      BY <2>2
    <3> HIDE DEF rm, r, Good
    <3> QED
      BY <1>5, <3>1, <3>2
  <2>4. CASE ~(i > Len(rm.srv.leases))
    <3>1. Pointers(rm.srv) /\ rm.srv \in Server
      BY <2>2 DEF Thinned
    <3>2. rm.srv.leases[i] \in DOMAIN rm.srv.obj
      <4>1. DOMAIN rm.srv.leases = 1..Len(rm.srv.leases) /\ Len(rm.srv.leases) \in Nat
        BY <3>1, AtLease
      <4>2. i \in DOMAIN rm.srv.leases
        BY <1>2, <2>4, <4>1
      <4> QED
        BY <3>1, <4>2 DEF Pointers
    <3>3. Good(rm) /\ rm \in RmState /\ r = emptyHostname(rm, rm.srv.leases[i], lease)
      BY <2>1, <2>2, <2>4
    <3> HIDE DEF rm, r, Good
    <3> QED
      BY <1>7, <3>2, <3>3
  <2> QED
    BY <2>3, <2>4
<1>11. ASSUME ~st.stop /\ ~match /\ ~l.static
       PROVE  Good(r)
  <2>1. r = emptyHostname(st, st.arr[i], lease)
    BY <1>11 DEF rmDynamicStep
  <2> QED
    BY <1>3, <1>4, <1>7, <2>1
<1>12. ASSUME ~st.stop /\ ~match /\ l.static
       PROVE  Good(r)
  <2>1. r = st
    BY <1>12 DEF rmDynamicStep
  <2> QED
    BY <1>4, <2>1
<1>13. l.static \in BOOLEAN
  BY <1>1, <1>3, AtLease DEF Lease
<1>14. Good(r)
  <2> HIDE DEF r, Good, s, l
  <2> QED
    BY <1>1, <1>8, <1>9, <1>10, <1>11, <1>12, <1>13
<1> QED
  BY <1>14
(* Induction up to n, for sets.                                            *)
LEMMA Reaches ==
    ASSUME NEW n \in Nat, NEW S, 0 \in S, \A i \in 1..n : i - 1 \in S => i \in S
    PROVE  \A i \in 0..n : i \in S
<1> DEFINE T == (0..n) \ S
<1> SUFFICES ASSUME T # {}
             PROVE  FALSE
  OBVIOUS
<1>1. T \in SUBSET Nat
  OBVIOUS
<1>2. Min(T) \in T /\ \A y \in T : Min(T) <= y
  BY <1>1, MinFacts
<1> DEFINE i == Min(T)
<1> HIDE DEF i
<1>3. i \in 0..n /\ i \notin S /\ \A y \in T : i <= y
  BY <1>2 DEF i
<1>4. i \in 1..n /\ i - 1 \in 0..n
  BY <1>3
<1>5. i - 1 \notin T
  <2> HIDE DEF T
  <2> QED
    BY <1>3, <1>4
<1> QED
  BY <1>3, <1>4, <1>5

(* The loop of rmDynamicLease, unrolled.                                   *)
LEMMA RmLoopDef ==
    ASSUME NEW s, Len(s.leases) \in Nat, NEW lease
    PROVE  LET f == rmDynamicLoop(s, lease)
           IN  /\ f[0] = [srv |-> s, arr |-> s.leases, stop |-> FALSE, err |-> FALSE]
               /\ \A i \in 1..Len(s.leases) : f[i] = rmDynamicStep(f[i - 1], i, lease)
<1> DEFINE n == Len(s.leases)
           x == [srv |-> s, arr |-> s.leases, stop |-> FALSE, err |-> FALSE]
           Unrolled(f, k) ==
             f = [i \in 0..k |-> IF i = 0 THEN x ELSE rmDynamicStep(f[i - 1], i, lease)]
           S == {k \in 0..n : \E f : Unrolled(f, k)}
<1> HIDE DEF x
<1>1. 0 \in S
  <2> DEFINE f == [i \in 0..0 |-> x]
  <2>1. \A i \in 0..0 : i = 0
    OBVIOUS
  <2>2. Unrolled(f, 0)
    BY <2>1
  <2>3. \E g : Unrolled(g, 0)
    BY <2>2
  <2> HIDE DEF f, Unrolled
  <2> QED
    BY <2>3
<1>2. ASSUME NEW k \in 1..n, k - 1 \in S
      PROVE  k \in S
  <2>1. PICK f : Unrolled(f, k - 1)
    BY <1>2
  <2> DEFINE g == [i \in 0..k |-> IF i = k THEN rmDynamicStep(f[k - 1], k, lease) ELSE f[i]]
  <2>2. \A i \in 0..(k - 1) : f[i] = IF i = 0 THEN x ELSE rmDynamicStep(f[i - 1], i, lease)
    BY <2>1
  <2>3. ASSUME NEW i \in 0..k
        PROVE  g[i] = IF i = 0 THEN x ELSE rmDynamicStep(g[i - 1], i, lease)
    <3>1. CASE i = k
      <4>1. g[k - 1] = f[k - 1] /\ g[k] = rmDynamicStep(f[k - 1], k, lease) /\ k # 0
        OBVIOUS
      <4> QED
        BY <3>1, <4>1
    <3>2. CASE i # k /\ i # 0
      <4>1. i \in 0..(k - 1) /\ g[i] = f[i] /\ g[i - 1] = f[i - 1]
        BY <3>2
      <4> QED
        BY <2>2, <3>2, <4>1
    <3>3. CASE i # k /\ i = 0
      BY <2>2, <3>3
    <3> QED
      BY <3>1, <3>2, <3>3
  <2>4. Unrolled(g, k)
    <3>1. g = [i \in 0..k |-> g[i]]
      OBVIOUS
    <3> HIDE DEF g
    <3> QED
      BY <2>3, <3>1
  <2>5. \E h : Unrolled(h, k)
    BY <2>4
  <2> HIDE DEF g, Unrolled
  <2> QED
    BY <2>5
<1>3. n \in S
  <2>1. n \in Nat /\ n \in 0..n
    OBVIOUS
  <2> HIDE DEF S, n
  <2> QED
    BY <1>1, <1>2, <2>1, Reaches
<1> DEFINE f == rmDynamicLoop(s, lease)
<1>4. f = CHOOSE g : Unrolled(g, n)
  BY DEF rmDynamicLoop, Start, x
<1>5. Unrolled(f, n)
  BY <1>3, <1>4
<1>6. \A i \in 0..n : f[i] = IF i = 0 THEN x ELSE rmDynamicStep(f[i - 1], i, lease)
  <2> HIDE DEF f
  <2> QED
    BY <1>5
<1>7. f[0] = x /\ \A i \in 1..n : i \in 0..n /\ i # 0
  <2> HIDE DEF f
  <2> QED
    BY <1>6
<1> HIDE DEF f
<1> QED
  BY <1>6, <1>7 DEF x, f
(* rmDynamicLease empties hostnames and removes dynamic leases of the      *)
(* client or the address, and nothing else.                                *)
LEMMA RmDynamicFacts ==
    ASSUME NEW s \in Server, Pointers(s), NEW lease \in DOMAIN s.obj
    PROVE  LET r == rmDynamicLease(s, lease)
           IN  /\ r \in RmState /\ Len(r.arr) = Len(s.leases) /\ ArrayOK(r.srv, r.arr)
               /\ Thinned(s, r.srv, s.obj[lease].mac, s.obj[lease].ip)
<1> DEFINE n == Len(s.leases)
           mac == s.obj[lease].mac
           ip == s.obj[lease].ip
           f == rmDynamicLoop(s, lease)
           Fine(z) == /\ z \in RmState /\ Len(z.arr) = n /\ ArrayOK(z.srv, z.arr)
                      /\ Thinned(s, z.srv, mac, ip)
           S == {i \in 0..n : Fine(f[i])}
<1>1. DOMAIN s.leases = 1..n /\ n \in Nat /\ s.leases \in Seq(Nat)
  BY AtLease DEF Server
<1>2. /\ f[0] = [srv |-> s, arr |-> s.leases, stop |-> FALSE, err |-> FALSE]
      /\ \A i \in 1..n : f[i] = rmDynamicStep(f[i - 1], i, lease)
  BY <1>1, RmLoopDef
<1>3. Fine([srv |-> s, arr |-> s.leases, stop |-> FALSE, err |-> FALSE])
  <2>1. Thinned(s, s, mac, ip)
    BY ThinnedSelf
  <2>2. ArrayOK(s, s.leases)
    BY <1>1 DEF ArrayOK, Pointers
  <2> QED
    BY <1>1, <2>1, <2>2 DEF RmState
<1>4. ASSUME NEW z, Fine(z), NEW i \in 1..n
      PROVE  Fine(rmDynamicStep(z, i, lease))
  <2> DEFINE r == rmDynamicStep(z, i, lease)
  <2>1. /\ z \in RmState /\ Pointers(z.srv) /\ ArrayOK(z.srv, z.arr)
        /\ lease \in DOMAIN z.srv.obj /\ Same(z.srv.obj[lease], s.obj[lease])
    BY <1>4 DEF Thinned
  <2>2. i \in DOMAIN z.arr
    BY <1>1, <1>4, <2>1 DEF RmState
  <2>3. /\ r \in RmState /\ Len(r.arr) = Len(z.arr) /\ ArrayOK(r.srv, r.arr)
        /\ Thinned(z.srv, r.srv, z.srv.obj[lease].mac, z.srv.obj[lease].ip)
    BY <2>1, <2>2, RmStepFacts
  <2>4. z.srv.obj[lease].mac = mac /\ z.srv.obj[lease].ip = ip
    BY <2>1 DEF Same
  <2> HIDE DEF r, mac, ip
  <2>5. Thinned(s, r.srv, mac, ip)
    BY <1>4, <2>3, <2>4, ThinnedTwice
  <2> QED
    BY <1>4, <2>3, <2>5 DEF r
<1> HIDE DEF f, mac, ip
<1>5. 0 \in S
  BY <1>1, <1>2, <1>3
<1>6. ASSUME NEW i \in 1..n, i - 1 \in S
      PROVE  i \in S
  <2>1. Fine(f[i - 1]) /\ f[i] = rmDynamicStep(f[i - 1], i, lease)
    BY <1>2, <1>6
  <2> HIDE DEF Fine
  <2> QED
    BY <1>1, <1>4, <2>1
<1>7. n \in S
  <2>1. n \in Nat /\ n \in 0..n
    BY <1>1
  <2> HIDE DEF S, n
  <2> QED
    BY <1>5, <1>6, <2>1, Reaches
<1>8. rmDynamicLease(s, lease) = f[n]
  BY SMTT(30) DEF rmDynamicLease, f
<1> QED
  BY <1>7, <1>8 DEF mac, ip

-----------------------------------------------------------------------------
(* Looking leases up.                                                      *)
LEMMA FindFacts ==
    ASSUME NEW s \in Server, Pointers(s), NEW mac
    PROVE  \/ /\ findLease(s, mac) = None
              /\ \A k \in DOMAIN s.leases : At(s, k).mac # mac
           \/ \E k \in DOMAIN s.leases :
                findLease(s, mac) = s.leases[k] /\ At(s, k).mac = mac
<1> DEFINE at == {i \in DOMAIN s.leases : s.obj[s.leases[i]].mac = mac}
<1>1. findLease(s, mac) = IF at = {} THEN None ELSE s.leases[Min(at)]
  BY DEF findLease, FirstLease
<1>2. at \in SUBSET Nat
  BY AtLease
<1>3. at # {} => Min(at) \in at
  <2> HIDE DEF at
  <2> QED
    BY <1>2, MinFacts
<1> QED
  BY <1>1, <1>3 DEF At

LEMMA FindForIPFacts ==
    ASSUME NEW s \in Server, Pointers(s), NEW ip, NEW mac
    PROVE  \/ /\ findLeaseForIP(s, ip, mac) = None
              /\ \A k \in DOMAIN s.leases : ~(At(s, k).mac = mac /\ At(s, k).ip = ip)
           \/ \E k \in DOMAIN s.leases :
                findLeaseForIP(s, ip, mac) = s.leases[k] /\ At(s, k).mac = mac /\ At(s, k).ip = ip
<1> DEFINE at == {i \in DOMAIN s.leases :
                    s.obj[s.leases[i]].mac = mac /\ s.obj[s.leases[i]].ip = ip}
<1>1. findLeaseForIP(s, ip, mac) = IF at = {} THEN None ELSE s.leases[Min(at)]
  BY DEF findLeaseForIP, FirstLease
<1>2. at \in SUBSET Nat
  BY AtLease
<1>3. at # {} => Min(at) \in at
  <2> HIDE DEF at
  <2> QED
    BY <1>2, MinFacts
<1> QED
  BY <1>1, <1>3 DEF At

LEMMA ExpiredFacts ==
    ASSUME NEW s \in Server, Pointers(s)
    PROVE  \/ FirstLease(s, Expired) = None
           \/ \E k \in DOMAIN s.leases :
                FirstLease(s, Expired) = s.leases[k] /\ Expired(At(s, k))
<1> DEFINE at == {i \in DOMAIN s.leases : Expired(s.obj[s.leases[i]])}
<1>1. FirstLease(s, Expired) = IF at = {} THEN None ELSE s.leases[Min(at)]
  BY DEF FirstLease
<1>2. at \in SUBSET Nat
  BY AtLease
<1>3. at # {} => Min(at) \in at
  <2> HIDE DEF at
  <2> QED
    BY <1>2, MinFacts
<1> QED
  BY <1>1, <1>3 DEF At
-----------------------------------------------------------------------------
(* Changing one object.                                                    *)
Put(s, id, l) ==
    [obj |-> [s.obj EXCEPT ![id] = l], leases |-> s.leases, hostsIndex |-> s.hostsIndex,
     ipIndex |-> s.ipIndex, leasedOffsets |-> s.leasedOffsets]

LEMMA PutFacts ==
    ASSUME NEW s \in Server, Pointers(s), NEW id \in DOMAIN s.obj, NEW l \in Lease
    PROVE  LET t == Put(s, id, l)
           IN  /\ t \in Server /\ Pointers(t) /\ DOMAIN t.obj = DOMAIN s.obj
               /\ t.leases = s.leases /\ t.hostsIndex = s.hostsIndex
               /\ t.ipIndex = s.ipIndex /\ t.leasedOffsets = s.leasedOffsets
               /\ \A j \in DOMAIN s.obj : t.obj[j] = IF j = id THEN l ELSE s.obj[j]
               /\ \A k \in DOMAIN s.leases :
                    At(t, k) = IF s.leases[k] = id THEN l ELSE At(s, k)
<1> DEFINE t == Put(s, id, l)
           o == [s.obj EXCEPT ![id] = l]
<1>1. s.obj \in Seq(Lease)
  BY DEF Server
<1>2. /\ o \in Seq(Lease) /\ DOMAIN o = DOMAIN s.obj
      /\ \A j \in DOMAIN s.obj : o[j] = IF j = id THEN l ELSE s.obj[j]
  BY <1>1
<1> HIDE DEF o
<1>3. /\ t.obj = o /\ t.leases = s.leases /\ t.hostsIndex = s.hostsIndex
      /\ t.ipIndex = s.ipIndex /\ t.leasedOffsets = s.leasedOffsets
  BY DEF Put, o
<1>4. t \in Server
  BY <1>2 DEF Put, Server, o
<1> HIDE DEF t
<1>5. Pointers(t)
  BY <1>2, <1>3 DEF Pointers
<1>6. \A k \in DOMAIN s.leases : At(t, k) = IF s.leases[k] = id THEN l ELSE At(s, k)
  BY <1>2, <1>3 DEF At, Pointers
<1> QED
  BY <1>2, <1>3, <1>4, <1>5, <1>6 DEF t

LEMMA PutMac ==
    ASSUME NEW s \in Server, NEW id, NEW x
    PROVE  [s EXCEPT !.obj[id].mac = x] = Put(s, id, [s.obj[id] EXCEPT !.mac = x])
<1>1. s = [obj |-> s.obj, leases |-> s.leases, hostsIndex |-> s.hostsIndex,
           ipIndex |-> s.ipIndex, leasedOffsets |-> s.leasedOffsets]
  BY DEF Server
<1> QED
  BY <1>1 DEF Put

LEMMA PutHost ==
    ASSUME NEW s \in Server, NEW id, NEW x
    PROVE  [s EXCEPT !.obj[id].host = x] = Put(s, id, [s.obj[id] EXCEPT !.host = x])
<1>1. s = [obj |-> s.obj, leases |-> s.leases, hostsIndex |-> s.hostsIndex,
           ipIndex |-> s.ipIndex, leasedOffsets |-> s.leasedOffsets]
  BY DEF Server
<1> QED
  BY <1>1 DEF Put

LEMMA PutBlocked ==
    ASSUME NEW s \in Server, Pointers(s), NEW id \in DOMAIN s.obj
    PROVE  blocklistLease(s, id)
           = Put(s, id, [mac |-> ZeroMac, ip |-> s.obj[id].ip, host |-> NoHost,
                         exp |-> now + LeaseTime, static |-> s.obj[id].static])
<1> DEFINE l == s.obj[id]
           e == now + LeaseTime
           R(o) == [obj |-> o, leases |-> s.leases, hostsIndex |-> s.hostsIndex,
                    ipIndex |-> s.ipIndex, leasedOffsets |-> s.leasedOffsets]
           l1 == [l EXCEPT !.mac = ZeroMac]
           l2 == [l1 EXCEPT !.host = NoHost]
           l3 == [l2 EXCEPT !.exp = e]
           o1 == [s.obj EXCEPT ![id] = l1]
           o2 == [o1 EXCEPT ![id] = l2]
           o3 == [o2 EXCEPT ![id] = l3]
<1> HIDE DEF e
<1>1. s = R(s.obj) /\ s.obj \in Seq(Lease) /\ l \in Lease
  BY AtLease DEF Server
<1>2. blocklistLease(s, id) = [[[s EXCEPT !.obj[id].mac = ZeroMac] EXCEPT
                                  !.obj[id].host = NoHost] EXCEPT !.obj[id].exp = e]
  BY DEF blocklistLease, e
<1>3. [s EXCEPT !.obj[id].mac = ZeroMac] = R(o1)
  BY PutMac DEF Put
<1>4. o1[id] = l1 /\ DOMAIN o1 = DOMAIN s.obj
  BY <1>1
<1>5. [R(o1) EXCEPT !.obj[id].host = NoHost] = R(o2)
  <2> HIDE DEF o1, l1
  <2> QED
    BY <1>4
<1>6. o2[id] = l2 /\ DOMAIN o2 = DOMAIN s.obj
  <2> HIDE DEF o1, l1
  <2> QED
    BY <1>4
<1>7. [R(o2) EXCEPT !.obj[id].exp = e] = R(o3)
  <2> HIDE DEF o2, l2
  <2> QED
    BY <1>6
<1>8. l3 = [mac |-> ZeroMac, ip |-> l.ip, host |-> NoHost, exp |-> e, static |-> l.static]
  <2>1. l = [mac |-> l.mac, ip |-> l.ip, host |-> l.host, exp |-> l.exp, static |-> l.static]
    BY <1>1 DEF Lease
  <2>2. l1 = [mac |-> ZeroMac, ip |-> l.ip, host |-> l.host, exp |-> l.exp, static |-> l.static]
    <3> HIDE DEF l
    <3> QED
      BY <2>1
  <2> HIDE DEF l, l1
  <2>3. l2 = [mac |-> ZeroMac, ip |-> l.ip, host |-> NoHost, exp |-> l.exp, static |-> l.static]
    BY <2>2
  <2> HIDE DEF l2
  <2> QED
    BY <2>3
<1>9. o3 = [s.obj EXCEPT ![id] = l3]
  <2> HIDE DEF l1, l2, l3
  <2> QED
    BY <1>1
<1> HIDE DEF o1, o2, o3, l3, R
<1>10. blocklistLease(s, id) = R(o3)
  BY <1>2, <1>3, <1>5, <1>7
<1> QED
  BY <1>8, <1>9, <1>10 DEF Put, R, e
LEMMA PutSound ==
    ASSUME NEW s, Sound(s), NEW k \in DOMAIN s.leases, NEW l \in Lease, l.ip = At(s, k).ip,
           l.mac # ZeroMac => \A j \in DOMAIN s.leases \ {k} : At(s, j).mac # l.mac
    PROVE  /\ Sound(Put(s, s.leases[k], l)) /\ At(Put(s, s.leases[k], l), k) = l
           /\ \A j \in DOMAIN s.leases \ {k} : At(Put(s, s.leases[k], l), j) = At(s, j)
<1> DEFINE id == s.leases[k]
           t == Put(s, id, l)
<1>1. s \in Server /\ Pointers(s) /\ Apart(s) /\ Covered(s)
  BY DEF Sound
<1>2. id \in DOMAIN s.obj
  BY <1>1 DEF Pointers
<1>3. /\ t \in Server /\ Pointers(t) /\ t.leases = s.leases
      /\ t.ipIndex = s.ipIndex /\ t.leasedOffsets = s.leasedOffsets
      /\ \A j \in DOMAIN s.leases : At(t, j) = IF s.leases[j] = id THEN l ELSE At(s, j)
  BY <1>1, <1>2, PutFacts
<1>4. \A j \in DOMAIN s.leases \ {k} : s.leases[j] # id
  BY <1>1 DEF Apart, At
<1> HIDE DEF t
<1>5. At(t, k) = l /\ \A j \in DOMAIN s.leases \ {k} : At(t, j) = At(s, j)
  BY <1>3, <1>4
<1>6. Apart(t)
  BY <1>1, <1>3, <1>5 DEF Apart
<1>7. Covered(t)
  BY <1>1, <1>3, <1>5 DEF Covered
<1> QED
  BY <1>3, <1>5, <1>6, <1>7 DEF Sound, t

(* What a reservation does to the places and the names: it appends leases  *)
(* without a name, and only a lease that loses its name spoils the indexes. *)
Kept(s, t) ==
    /\ \A k \in DOMAIN s.leases :
         /\ k \in DOMAIN t.leases /\ t.leases[k] = s.leases[k]
         /\ At(t, k).host \in {At(s, k).host, NoHost}
    /\ \A k \in DOMAIN t.leases \ DOMAIN s.leases : At(t, k).host = NoHost
    /\ Tied(s) => \/ Tied(t)
                  \/ \E k \in DOMAIN s.leases :
                       At(s, k).host # NoHost /\ At(t, k).host = NoHost

LEMMA KeptTwice ==
    ASSUME NEW s, NEW t, NEW u, Kept(s, t), Kept(t, u)
    PROVE  Kept(s, u)
<1>1. \A k \in DOMAIN s.leases :
        /\ k \in DOMAIN u.leases /\ u.leases[k] = s.leases[k]
        /\ At(u, k).host \in {At(s, k).host, NoHost}
  BY DEF Kept
<1>2. \A k \in DOMAIN u.leases \ DOMAIN s.leases : At(u, k).host = NoHost
  BY DEF Kept
<1>3. ASSUME Tied(s)
      PROVE  \/ Tied(u)
             \/ \E k \in DOMAIN s.leases : At(s, k).host # NoHost /\ At(u, k).host = NoHost
  <2>1. CASE Tied(t)
    <3>1. CASE Tied(u)
      BY <3>1
    <3>2. CASE ~Tied(u)
      <4>1. PICK k \in DOMAIN t.leases : At(t, k).host # NoHost /\ At(u, k).host = NoHost
        BY <2>1, <3>2 DEF Kept
      <4>2. k \in DOMAIN s.leases /\ At(s, k).host # NoHost
        BY <4>1 DEF Kept
      <4> QED
        BY <4>1, <4>2
    <3> QED
      BY <3>1, <3>2
  <2>2. CASE ~Tied(t)
    <3>1. PICK k \in DOMAIN s.leases : At(s, k).host # NoHost /\ At(t, k).host = NoHost
      BY <1>3, <2>2 DEF Kept
    <3>2. At(u, k).host = NoHost
      BY <3>1 DEF Kept
    <3> QED
      BY <3>1, <3>2
  <2> QED
    BY <2>1, <2>2
<1> QED
  BY <1>1, <1>2, <1>3 DEF Kept

LEMMA KeptSelf ==
    ASSUME NEW s
    PROVE  Kept(s, s)
BY DEF Kept

(* What a reservation leaves alone: leases that are not over stay where    *)
(* they are.                                                               *)
Grown(s, t) ==
    /\ Sound(t) /\ DOMAIN s.obj \subseteq DOMAIN t.obj /\ Kept(s, t)
    /\ \A k \in DOMAIN s.leases :
         ~Expired(At(s, k)) => k \in DOMAIN t.leases /\ Same(At(t, k), At(s, k))

NobodyIs(s, mac) == \A k \in DOMAIN s.leases : At(s, k).mac # mac

LEMMA GrownTwice ==
    ASSUME NEW s, NEW t, NEW u, Grown(s, t), Grown(t, u)
    PROVE  Grown(s, u)
BY KeptTwice DEF Grown, Same, Expired

LEMMA BlankFor ==
    ASSUME NEW mac, NEW ip
    PROVE  [Blank EXCEPT !.mac = mac, !.ip = ip]
           = [mac |-> mac, ip |-> ip, host |-> NoHost, exp |-> 0, static |-> FALSE]
<1> DEFINE b == Blank
           a == [b EXCEPT !.mac = mac]
<1>1. /\ b = [mac |-> b.mac, ip |-> b.ip, host |-> b.host, exp |-> b.exp, static |-> b.static]
      /\ b.host = NoHost /\ b.exp = 0 /\ b.static = FALSE
  BY DEF Blank
<1> HIDE DEF b
<1>2. a = [mac |-> mac, ip |-> b.ip, host |-> b.host, exp |-> b.exp, static |-> b.static]
  BY <1>1
<1> HIDE DEF a
<1>3. [a EXCEPT !.ip = ip]
      = [mac |-> mac, ip |-> ip, host |-> b.host, exp |-> b.exp, static |-> b.static]
  BY <1>2
<1> QED
  BY <1>1, <1>3 DEF a, b

(* reserveLease takes a free address or a lease that is over.              *)
LEMMA ReserveFacts ==
    ASSUME NEW s, Sound(s), NEW mac \in Macs, NobodyIs(s, mac), now \in Nat
    PROVE  LET r == reserveLease(s, mac)
           IN  /\ Grown(s, r.srv)
               /\ r.id # None => \E k \in DOMAIN r.srv.leases :
                    /\ r.id = r.srv.leases[k] /\ At(r.srv, k).mac = mac
                    /\ Expired(At(r.srv, k))
                    /\ \A j \in DOMAIN r.srv.leases \ {k} : At(r.srv, j).mac # mac
<1> DEFINE free == Pool \ s.leasedOffsets
           l == [mac |-> mac, ip |-> Min(free), host |-> NoHost, exp |-> 0, static |-> FALSE]
           u == New(s, l)
           id == Fresh(s)
           t == addLease(u, id).srv
           old == FirstLease(s, Expired)
           v == [s EXCEPT !.obj[old].mac = mac]
           r == reserveLease(s, mac)
<1>1. s \in Server /\ Pointers(s) /\ Apart(s) /\ Covered(s)
  BY DEF Sound
<1>2. /\ DOMAIN s.leases = 1..Len(s.leases) /\ Len(s.leases) \in Nat
      /\ \A k \in DOMAIN s.leases : At(s, k) \in Lease
  BY <1>1, AtLease
<1>3. r = IF free # {} THEN [srv |-> t, id |-> id]
          ELSE IF old = None THEN [srv |-> s, id |-> None]
          ELSE [srv |-> v, id |-> old]
  <2>1. [Blank EXCEPT !.mac = mac, !.ip = Min(free)] = l
    BY BlankFor
  <2>2. r = IF free # {}
            THEN [srv |-> addLease(New(s, [Blank EXCEPT !.mac = mac, !.ip = Min(free)]), id).srv,
                  id |-> id]
            ELSE IF old = None THEN [srv |-> s, id |-> None]
            ELSE [srv |-> v, id |-> old]
    BY DEF reserveLease
  <2> HIDE DEF r, l, id, free, old, v
  <2> QED
    BY <2>1, <2>2
<1>4. ASSUME free # {}
      PROVE  /\ Grown(s, t)
             /\ \E k \in DOMAIN t.leases :
                  /\ id = t.leases[k] /\ At(t, k).mac = mac /\ Expired(At(t, k))
                  /\ \A j \in DOMAIN t.leases \ {k} : At(t, j).mac # mac
  <2>1. Min(free) \in free
    <3>1. free \in SUBSET Nat
      BY PoolFacts
    <3> HIDE DEF free
    <3> QED
      BY <1>4, <3>1, MinFacts
  <2>2. l \in Lease
    BY <2>1, PoolFacts DEF Lease, Names
  <2> HIDE DEF l
  <2>3. /\ u \in Server /\ Pointers(u) /\ Sound(u) /\ u.leases = s.leases
        /\ u.leasedOffsets = s.leasedOffsets /\ u.hostsIndex = s.hostsIndex
        /\ u.ipIndex = s.ipIndex
        /\ DOMAIN u.obj = DOMAIN s.obj \cup {id} /\ u.obj[id] = l
        /\ \A k \in DOMAIN s.leases : At(u, k) = At(s, k)
    BY <1>1, <2>2, NewFacts
  <2> HIDE DEF u, id
  <2>4. \A k \in DOMAIN u.leases :
          At(u, k).ip # u.obj[id].ip /\ (At(u, k).mac # ZeroMac => At(u, k).mac # u.obj[id].mac)
    <3>1. u.obj[id].ip = Min(free) /\ u.obj[id].mac = mac
      BY <2>3 DEF l
    <3> HIDE DEF free
    <3>2. Min(free) \in Pool /\ Min(free) \notin s.leasedOffsets
      BY <2>1 DEF free
    <3> QED
      BY <1>1, <2>3, <3>1, <3>2 DEF Covered, NobodyIs
  <2>5. Sound(t)
    BY <2>3, <2>4, AddSound
  <2>6. ~addLease(u, id).err
    <3>1. Min(free) \in Pool
      BY <2>1
    <3> QED
      BY <2>3, <3>1 DEF addLease, l
  <2>7. t.obj = u.obj /\ t.leases = Append(s.leases, id)
    <3>1. t.obj = u.obj /\ t.leases = Append(u.leases, id)
      BY <2>3, <2>6, AddFacts
    <3> QED
      BY <2>3, <3>1
  <2> DEFINE n == Len(s.leases) + 1
  <2>9. s.leases \in Seq(Nat)
    BY <1>1 DEF Server
  <2>10. /\ DOMAIN t.leases = DOMAIN s.leases \cup {n} /\ n \notin DOMAIN s.leases
        /\ t.leases[n] = id /\ \A k \in DOMAIN s.leases : t.leases[k] = s.leases[k]
    <3>1. id \in Nat
      BY <2>3, AtLease
    <3> HIDE DEF t
    <3> QED
      BY <1>2, <2>7, <2>9, <3>1
  <2>8. Tied(s) => Tied(t)
    <3>1. Tied(s) => Tied(u)
      BY <2>3, TiedSlice
    <3> QED
      BY <2>3, <2>4, <3>1, AddTied
  <2> HIDE DEF t, n
  <2>11. At(t, n) = l /\ \A k \in DOMAIN s.leases : At(t, k) = At(s, k)
    BY <2>3, <2>7, <2>10 DEF At
  <2>12. \A k \in DOMAIN s.leases : Same(At(s, k), At(s, k))
    BY DEF Same
  <2>13. l.mac = mac /\ Expired(l) /\ l.host = NoHost
    BY DEF l, Expired
  <2>14. Kept(s, t)
    BY <2>10, <2>11, <2>8, <2>13 DEF Kept
  <2>15. Grown(s, t)
    BY <2>3, <2>5, <2>7, <2>10, <2>11, <2>12, <2>14 DEF Grown
  <2> QED
    BY <2>10, <2>11, <2>15, <2>13 DEF NobodyIs
<1>5. ASSUME old # None
      PROVE  /\ Grown(s, v)
             /\ \E k \in DOMAIN v.leases :
                  /\ old = v.leases[k] /\ At(v, k).mac = mac /\ Expired(At(v, k))
                  /\ \A j \in DOMAIN v.leases \ {k} : At(v, j).mac # mac
  <2>1. PICK k \in DOMAIN s.leases : old = s.leases[k] /\ Expired(At(s, k))
    BY <1>1, <1>5, ExpiredFacts
  <2> HIDE DEF old
  <2> DEFINE m == [At(s, k) EXCEPT !.mac = mac]
  <2>2. /\ m \in Lease /\ m.ip = At(s, k).ip /\ m.mac = mac /\ Expired(m)
        /\ m.host = At(s, k).host
    BY <1>2, <2>1 DEF Lease, Expired
  <2>3. v = Put(s, s.leases[k], m)
    BY <1>1, <2>1, PutMac DEF At
  <2> HIDE DEF m, v
  <2>4. /\ Sound(v) /\ At(v, k) = m
        /\ \A j \in DOMAIN s.leases \ {k} : At(v, j) = At(s, j)
    BY <2>2, <2>3, PutSound DEF NobodyIs
  <2>5. /\ v.leases = s.leases /\ DOMAIN v.obj = DOMAIN s.obj
        /\ v.hostsIndex = s.hostsIndex /\ v.ipIndex = s.ipIndex
    <3>1. s.leases[k] \in DOMAIN s.obj
      BY <1>1 DEF Pointers
    <3> QED
      BY <1>1, <2>2, <2>3, <3>1, PutFacts
  <2>6. \A j \in DOMAIN s.leases : Same(At(s, j), At(s, j))
    BY DEF Same
  <2>7. \A j \in DOMAIN s.leases : At(v, j).ip = At(s, j).ip /\ At(v, j).host = At(s, j).host
    BY <2>2, <2>4
  <2>8. Kept(s, v)
    <3>1. Tied(s) => Tied(v)
      BY <2>5, <2>7, TiedSlice
    <3> QED
      BY <2>5, <2>7, <3>1 DEF Kept
  <2>9. Grown(s, v)
    BY <2>1, <2>4, <2>5, <2>6, <2>8 DEF Grown
  <2> QED
    BY <2>1, <2>2, <2>4, <2>5, <2>9 DEF NobodyIs
<1>6. Grown(s, s)
  BY KeptSelf DEF Grown, Same
<1> HIDE DEF r, t, id, old, free, v
<1>7. CASE free # {}
  BY <1>3, <1>4, <1>7 DEF r
<1>8. CASE free = {} /\ old = None
  BY <1>3, <1>6, <1>8 DEF r
<1>9. CASE free = {} /\ old # None
  BY <1>3, <1>5, <1>9 DEF r
<1> QED
  BY <1>7, <1>8, <1>9
(* A lease that is over is blocklisted.                                    *)
LEMMA BlockFacts ==
    ASSUME NEW s, Sound(s), NEW k \in DOMAIN s.leases, NEW mac \in Macs, now \in Nat,
           Expired(At(s, k)), \A j \in DOMAIN s.leases \ {k} : At(s, j).mac # mac
    PROVE  /\ Grown(s, blocklistLease(s, s.leases[k]))
           /\ NobodyIs(blocklistLease(s, s.leases[k]), mac)
<1> DEFINE id == s.leases[k]
           l == [mac |-> ZeroMac, ip |-> s.obj[id].ip, host |-> NoHost,
                 exp |-> now + LeaseTime, static |-> s.obj[id].static]
           t == Put(s, id, l)
<1>1. s \in Server /\ Pointers(s)
  BY DEF Sound
<1>2. id \in DOMAIN s.obj /\ s.obj[id] = At(s, k) /\ At(s, k) \in Lease
  BY <1>1, AtLease DEF Pointers, At
<1>3. l \in Lease /\ l.ip = At(s, k).ip /\ l.mac = ZeroMac /\ l.host = NoHost
  BY <1>2, ConstantsAssumption DEF Lease, Names
<1>4. blocklistLease(s, id) = t
  BY <1>1, <1>2, PutBlocked
<1> HIDE DEF l
<1>5. /\ Sound(t) /\ At(t, k) = l
      /\ \A j \in DOMAIN s.leases \ {k} : At(t, j) = At(s, j)
  BY <1>3, PutSound
<1>6. /\ t.leases = s.leases /\ DOMAIN t.obj = DOMAIN s.obj
      /\ t.hostsIndex = s.hostsIndex /\ t.ipIndex = s.ipIndex
  BY <1>1, <1>2, <1>3, PutFacts
<1> HIDE DEF t
<1>7. Grown(s, t)
  <2>1. \A j \in DOMAIN s.leases : Same(At(s, j), At(s, j))
    BY DEF Same
  <2>2. Kept(s, t)
    <3>1. \A j \in DOMAIN s.leases : /\ At(t, j).ip = At(s, j).ip
                                     /\ At(t, j).host \in {At(s, j).host, NoHost}
      BY <1>3, <1>5
    <3>2. CASE At(s, k).host = NoHost
      <4>1. \A j \in DOMAIN s.leases : At(t, j).ip = At(s, j).ip /\ At(t, j).host = At(s, j).host
        BY <1>3, <1>5, <3>2
      <4>2. Tied(s) => Tied(t)
        BY <1>6, <4>1, TiedSlice
      <4> QED
        BY <1>6, <3>1, <4>2 DEF Kept
    <3>3. CASE At(s, k).host # NoHost
      BY <1>3, <1>5, <1>6, <3>1, <3>3 DEF Kept
    <3> QED
      BY <3>2, <3>3
  <2> QED
    BY <1>5, <1>6, <2>1, <2>2 DEF Grown
<1>8. NobodyIs(t, mac)
  BY <1>3, <1>5, <1>6, ConstantsAssumption DEF NobodyIs
<1> QED
  BY <1>4, <1>7, <1>8

LEMMA AllocLoopDef ==
    ASSUME NEW s, Len(s.leases) \in Nat, NEW mac, NEW busy
    PROVE  LET f == allocateLoop(s, mac, busy)
           IN  /\ Turns(s) \in Nat
               /\ f[0] = [srv |-> s, id |-> None, stop |-> FALSE]
               /\ \A i \in 1..Turns(s) : f[i] = allocateStep(f[i - 1], mac, busy)
<1> DEFINE n == Turns(s)
           x == [srv |-> s, id |-> None, stop |-> FALSE]
           Unrolled(f, k) ==
             f = [i \in 0..k |-> IF i = 0 THEN x ELSE allocateStep(f[i - 1], mac, busy)]
           S == {k \in 0..n : \E f : Unrolled(f, k)}
<1>0. n \in Nat
  BY ConstantsAssumption DEF Turns
<1> HIDE DEF x, n
<1>1. 0 \in S
  <2> DEFINE f == [i \in 0..0 |-> x]
  <2>1. \A i \in 0..0 : i = 0
    OBVIOUS
  <2>2. Unrolled(f, 0)
    BY <2>1
  <2>3. \E g : Unrolled(g, 0)
    BY <2>2
  <2> HIDE DEF f, Unrolled
  <2> QED
    BY <1>0, <2>3
<1>2. ASSUME NEW k \in 1..n, k - 1 \in S
      PROVE  k \in S
  <2>1. PICK f : Unrolled(f, k - 1)
    BY <1>2
  <2> DEFINE g == [i \in 0..k |-> IF i = k THEN allocateStep(f[k - 1], mac, busy) ELSE f[i]]
  <2>2. \A i \in 0..(k - 1) : f[i] = IF i = 0 THEN x ELSE allocateStep(f[i - 1], mac, busy)
    BY <2>1
  <2>3. ASSUME NEW i \in 0..k
        PROVE  g[i] = IF i = 0 THEN x ELSE allocateStep(g[i - 1], mac, busy)
    <3>1. CASE i = k
      <4>1. g[k - 1] = f[k - 1] /\ g[k] = allocateStep(f[k - 1], mac, busy) /\ k # 0
        BY <1>0
      <4> QED
        BY <3>1, <4>1
    <3>2. CASE i # k /\ i # 0
      <4>1. i \in 0..(k - 1) /\ g[i] = f[i] /\ g[i - 1] = f[i - 1]
        BY <1>0, <3>2
      <4> QED
        BY <2>2, <3>2, <4>1
    <3>3. CASE i # k /\ i = 0
      BY <1>0, <2>2, <3>3
    <3> QED
      BY <3>1, <3>2, <3>3
  <2>4. Unrolled(g, k)
    <3>1. g = [i \in 0..k |-> g[i]]
      OBVIOUS
    <3> HIDE DEF g
    <3> QED
      BY <2>3, <3>1
  <2>5. \E h : Unrolled(h, k)
    BY <2>4
  <2> HIDE DEF g, Unrolled
  <2> QED
    BY <1>0, <2>5
<1>3. n \in S
  <2>1. n \in Nat /\ n \in 0..n
    BY <1>0
  <2> HIDE DEF S
  <2> QED
    BY <1>1, <1>2, <2>1, Reaches
<1> DEFINE f == allocateLoop(s, mac, busy)
<1>4. f = CHOOSE g : Unrolled(g, n)
  BY DEF allocateLoop, x, n
<1>5. Unrolled(f, n)
  BY <1>3, <1>4
<1>6. \A i \in 0..n : f[i] = IF i = 0 THEN x ELSE allocateStep(f[i - 1], mac, busy)
  <2> HIDE DEF f
  <2> QED
    BY <1>5
<1>7. f[0] = x /\ \A i \in 1..n : i \in 0..n /\ i # 0
  <2> HIDE DEF f
  <2> QED
    BY <1>0, <1>6
<1> HIDE DEF f
<1> QED
  BY <1>0, <1>6, <1>7 DEF x, f, n

(* allocateLease, for a client that has none.                              *)
LEMMA AllocateFacts ==
    ASSUME NEW s, Sound(s), NEW mac \in Macs, NobodyIs(s, mac), NEW busy, now \in Nat
    PROVE  Grown(s, allocateLease(s, mac, busy).srv)
<1> DEFINE n == Turns(s)
           f == allocateLoop(s, mac, busy)
           Fine(z) == /\ z.stop \in BOOLEAN /\ Grown(s, z.srv)
                      /\ ~z.stop => NobodyIs(z.srv, mac)
           S == {i \in 0..n : Fine(f[i])}
<1>1. Len(s.leases) \in Nat
  BY AtLease DEF Sound
<1>2. /\ n \in Nat
      /\ f[0] = [srv |-> s, id |-> None, stop |-> FALSE]
      /\ \A i \in 1..n : f[i] = allocateStep(f[i - 1], mac, busy)
  BY <1>1, AllocLoopDef
<1>3. Fine([srv |-> s, id |-> None, stop |-> FALSE])
  BY KeptSelf DEF Grown, Same
<1>4. ASSUME NEW z, Fine(z)
      PROVE  Fine(allocateStep(z, mac, busy))
  <2> DEFINE r == reserveLease(z.srv, mac)
             b == blocklistLease(r.srv, r.id)
  <2>1. allocateStep(z, mac, busy)
        = IF z.stop THEN z
          ELSE IF r.id = None \/ r.srv.obj[r.id].ip \notin busy
          THEN [srv |-> r.srv, id |-> r.id, stop |-> TRUE]
          ELSE [srv |-> b, id |-> None, stop |-> FALSE]
    BY DEF allocateStep
  <2>2. ASSUME ~z.stop
        PROVE  /\ Grown(s, r.srv)
               /\ r.id # None => Grown(s, b) /\ NobodyIs(b, mac)
    <3>1. Sound(z.srv) /\ NobodyIs(z.srv, mac)
      BY <1>4, <2>2 DEF Grown
    <3>2. /\ Grown(z.srv, r.srv)
          /\ r.id # None => \E k \in DOMAIN r.srv.leases :
               /\ r.id = r.srv.leases[k] /\ At(r.srv, k).mac = mac
               /\ Expired(At(r.srv, k))
               /\ \A j \in DOMAIN r.srv.leases \ {k} : At(r.srv, j).mac # mac
      BY <3>1, ReserveFacts
    <3> HIDE DEF r
    <3>3. Grown(s, r.srv) /\ Sound(r.srv)
      BY <1>4, <3>2, GrownTwice DEF Grown
    <3>4. ASSUME r.id # None
          PROVE  Grown(r.srv, b) /\ NobodyIs(b, mac)
      BY <3>2, <3>3, <3>4, BlockFacts
    <3> HIDE DEF b
    <3>5. r.id # None => Grown(s, b)
      BY <3>3, <3>4, GrownTwice
    <3> QED
      BY <3>3, <3>4, <3>5
  <2> HIDE DEF r, b
  <2>3. CASE z.stop
    BY <1>4, <2>1, <2>3
  <2>4. CASE ~z.stop
    BY <2>1, <2>2, <2>4
  <2> QED
    BY <1>4, <2>3, <2>4
<1> HIDE DEF f, n
<1>5. 0 \in S
  <2>1. Fine(f[0])
    <3> HIDE DEF Fine
    <3> QED
      BY <1>2, <1>3
  <2> HIDE DEF Fine
  <2> QED
    BY <1>2, <2>1
<1>6. ASSUME NEW i \in 1..n, i - 1 \in S
      PROVE  i \in S
  <2>1. Fine(f[i - 1]) /\ f[i] = allocateStep(f[i - 1], mac, busy)
    BY <1>2, <1>6
  <2> HIDE DEF Fine
  <2> QED
    BY <1>2, <1>4, <2>1
<1>7. n \in S
  <2>1. n \in Nat /\ n \in 0..n
    BY <1>2
  <2> HIDE DEF S
  <2> QED
    BY <1>5, <1>6, <2>1, Reaches
<1>8. allocateLease(s, mac, busy) = f[n]
  BY DEF allocateLease, f, n
<1> QED
  BY <1>7, <1>8
(* The loop of handleRelease, unrolled.                                    *)
LEMMA ReleaseLoopDef ==
    ASSUME NEW s, Len(s.leases) \in Nat, NEW mac, NEW ip
    PROVE  LET f == ReleaseLoop(s, mac, ip)
           IN  /\ f[0] = [srv |-> s, arr |-> s.leases, err |-> FALSE]
               /\ \A i \in 1..Len(s.leases) : f[i] = ReleaseStep(f[i - 1], i, mac, ip)
<1> DEFINE n == Len(s.leases)
           x == [srv |-> s, arr |-> s.leases, err |-> FALSE]
           Unrolled(f, k) ==
             f = [i \in 0..k |-> IF i = 0 THEN x ELSE ReleaseStep(f[i - 1], i, mac, ip)]
           S == {k \in 0..n : \E f : Unrolled(f, k)}
<1>0. n \in Nat
  OBVIOUS
<1> HIDE DEF x, n
<1>1. 0 \in S
  <2> DEFINE f == [i \in 0..0 |-> x]
  <2>1. \A i \in 0..0 : i = 0
    OBVIOUS
  <2>2. Unrolled(f, 0)
    BY <2>1
  <2>3. \E g : Unrolled(g, 0)
    BY <2>2
  <2> HIDE DEF f, Unrolled
  <2> QED
    BY <1>0, <2>3
<1>2. ASSUME NEW k \in 1..n, k - 1 \in S
      PROVE  k \in S
  <2>1. PICK f : Unrolled(f, k - 1)
    BY <1>2
  <2> DEFINE g == [i \in 0..k |-> IF i = k THEN ReleaseStep(f[k - 1], k, mac, ip) ELSE f[i]]
  <2>2. \A i \in 0..(k - 1) : f[i] = IF i = 0 THEN x ELSE ReleaseStep(f[i - 1], i, mac, ip)
    BY <2>1
  <2>3. ASSUME NEW i \in 0..k
        PROVE  g[i] = IF i = 0 THEN x ELSE ReleaseStep(g[i - 1], i, mac, ip)
    <3>1. CASE i = k
      <4>1. g[k - 1] = f[k - 1] /\ g[k] = ReleaseStep(f[k - 1], k, mac, ip) /\ k # 0
        BY <1>0
      <4> QED
        BY <3>1, <4>1
    <3>2. CASE i # k /\ i # 0
      <4>1. i \in 0..(k - 1) /\ g[i] = f[i] /\ g[i - 1] = f[i - 1]
        BY <1>0, <3>2
      <4> QED
        BY <2>2, <3>2, <4>1
    <3>3. CASE i # k /\ i = 0
      BY <1>0, <2>2, <3>3
    <3> QED
      BY <3>1, <3>2, <3>3
  <2>4. Unrolled(g, k)
    <3>1. g = [i \in 0..k |-> g[i]]
      OBVIOUS
    <3> HIDE DEF g
    <3> QED
      BY <2>3, <3>1
  <2>5. \E h : Unrolled(h, k)
    BY <2>4
  <2> HIDE DEF g, Unrolled
  <2> QED
    BY <1>0, <2>5
<1>3. n \in S
  <2>1. n \in Nat /\ n \in 0..n
    BY <1>0
  <2> HIDE DEF S
  <2> QED
    BY <1>1, <1>2, <2>1, Reaches
<1> DEFINE f == ReleaseLoop(s, mac, ip)
<1>4. f = CHOOSE g : Unrolled(g, n)
  BY DEF ReleaseLoop, x, n
<1>5. Unrolled(f, n)
  BY <1>3, <1>4
<1>6. \A i \in 0..n : f[i] = IF i = 0 THEN x ELSE ReleaseStep(f[i - 1], i, mac, ip)
  <2> HIDE DEF f
  <2> QED
    BY <1>5
<1>7. f[0] = x /\ \A i \in 1..n : i \in 0..n /\ i # 0
  <2> HIDE DEF f
  <2> QED
    BY <1>0, <1>6
<1> HIDE DEF f
<1> QED
  BY <1>6, <1>7 DEF x, f, n

(* What the outer loop of handleRelease keeps.                             *)
Releasing(s, z, mac, ip) ==
    /\ z.arr \in Seq(Nat) /\ Len(z.arr) = Len(s.leases) /\ ArrayOK(z.srv, z.arr)
    /\ Thinned(s, z.srv, mac, ip)

LEMMA ReleaseStepFacts ==
    ASSUME NEW s \in Server, Pointers(s), NEW mac, NEW ip, NEW z, Releasing(s, z, mac, ip),
           NEW i \in 1..Len(s.leases)
    PROVE  /\ Releasing(s, ReleaseStep(z, i, mac, ip), mac, ip)
           /\ Range(ReleaseStep(z, i, mac, ip).arr)
              \subseteq Range(z.arr) \cup Range(rmDynamicLease(z.srv, z.arr[i]).arr)
<1> DEFINE l == z.srv.obj[z.arr[i]]
           r == rmDynamicLease(z.srv, z.arr[i])
           a == r.arr \o SubSeq(z.arr, Len(r.arr) + 1, Len(z.arr))
           n == Len(s.leases)
<1>1. /\ DOMAIN s.leases = 1..n /\ n \in Nat /\ i \in 1..n
      /\ z.arr \in Seq(Nat) /\ Len(z.arr) = n /\ ArrayOK(z.srv, z.arr)
      /\ Thinned(s, z.srv, mac, ip)
  BY AtLease DEF Releasing
<1>2. ReleaseStep(z, i, mac, ip)
      = IF z.err \/ l.mac # mac \/ l.ip # ip THEN z
        ELSE [srv |-> r.srv, err |-> r.err, arr |-> a]
  BY DEF ReleaseStep
<1>3. z.srv \in Server /\ Pointers(z.srv) /\ z.arr[i] \in DOMAIN z.srv.obj
  <2>1. i \in DOMAIN z.arr
    BY <1>1
  <2> QED
    BY <1>1, <2>1 DEF Thinned, ArrayOK
<1>4. CASE z.err \/ l.mac # mac \/ l.ip # ip
  BY <1>1, <1>2, <1>4
<1>5. CASE ~(z.err \/ l.mac # mac \/ l.ip # ip)
  <2>1. /\ r.arr \in Seq(Nat) /\ Len(r.arr) = Len(z.srv.leases) /\ ArrayOK(r.srv, r.arr)
        /\ Thinned(z.srv, r.srv, l.mac, l.ip)
    BY <1>3, RmDynamicFacts DEF RmState
  <2>2. Thinned(s, r.srv, mac, ip)
    <3>1. l.mac = mac /\ l.ip = ip
      BY <1>5
    <3> HIDE DEF r, l
    <3> QED
      BY <1>1, <2>1, <3>1, ThinnedTwice
  <2>3. Len(r.arr) \in Nat /\ Len(r.arr) <= n
    <3>1. Len(z.srv.leases) <= n
      BY <1>1 DEF ArrayOK
    <3> HIDE DEF r
    <3> QED
      BY <1>1, <2>1, <3>1
  <2> HIDE DEF r, l
  <2>4. /\ a \in Seq(Nat) /\ Len(a) = n
        /\ \A k \in 1..n : a[k] = IF k < Len(r.arr) + 1 THEN r.arr[k] ELSE z.arr[k]
    <3> DEFINE m == Len(r.arr) + 1
               ra == r.arr
    <3>1. /\ ra \in Seq(Nat) /\ z.arr \in Seq(Nat) /\ Len(z.arr) = n
          /\ m \in Nat /\ m = Len(ra) + 1 /\ m <= Len(z.arr) + 1
          /\ a = ra \o SubSeq(z.arr, m, Len(z.arr))
      BY <1>1, <2>1, <2>3
    <3> HIDE DEF m, ra, a, n
    <3>2. /\ a \in Seq(Nat) /\ Len(a) = n
          /\ \A k \in 1..n : a[k] = IF k < m THEN ra[k] ELSE z.arr[k]
      BY ZenonT(30), <3>1, NewPrefix
    <3> QED
      BY <3>2 DEF m, ra
  <2> HIDE DEF a
  <2>5. DOMAIN r.arr = 1..Len(r.arr) /\ DOMAIN a = 1..n /\ DOMAIN z.arr = 1..n
    BY <1>1, <2>1, <2>4
  <2>6. \A k \in DOMAIN a : a[k] \in DOMAIN r.srv.obj
    <3>1. DOMAIN r.srv.obj = DOMAIN z.srv.obj
      BY <2>1 DEF Thinned
    <3>2. \A k \in DOMAIN a : k < Len(r.arr) + 1 => k \in DOMAIN r.arr
      BY <1>1, <2>3, <2>5
    <3>3. \A k \in DOMAIN r.arr : r.arr[k] \in DOMAIN r.srv.obj
      BY <2>1 DEF ArrayOK
    <3>4. \A k \in DOMAIN z.arr : z.arr[k] \in DOMAIN r.srv.obj
      BY <1>1, <3>1 DEF ArrayOK
    <3> QED
      BY <2>4, <2>5, <3>2, <3>3, <3>4
  <2>7. \A k \in DOMAIN r.srv.leases : a[k] = r.srv.leases[k]
    <3>1. r.srv \in Server /\ Pointers(r.srv)
      BY <2>2 DEF Thinned
    <3>2. DOMAIN r.srv.leases = 1..Len(r.srv.leases) /\ Len(r.srv.leases) \in Nat
      BY <3>1, AtLease
    <3>3. Len(r.srv.leases) <= Len(r.arr)
      BY <2>1 DEF ArrayOK
    <3>4. \A k \in DOMAIN r.srv.leases : k \in 1..n /\ k < Len(r.arr) + 1
      BY <1>1, <2>3, <3>2, <3>3
    <3> QED
      BY <2>1, <2>4, <3>4 DEF ArrayOK
  <2>8. ArrayOK(r.srv, a)
    <3>1. Len(r.srv.leases) <= Len(a)
      <4>1. r.srv \in Server /\ Pointers(r.srv)
        BY <2>2 DEF Thinned
      <4>2. Len(r.srv.leases) \in Nat
        BY <4>1, AtLease
      <4>3. Len(r.srv.leases) <= Len(r.arr)
        BY <2>1 DEF ArrayOK
      <4>4. n \in Nat /\ Len(a) = n
        BY <1>1, <2>4
      <4> HIDE DEF n
      <4> QED
        BY <2>3, <4>2, <4>3, <4>4
    <3> QED
      BY <2>6, <2>7, <3>1 DEF ArrayOK
  <2>9. ReleaseStep(z, i, mac, ip) = [srv |-> r.srv, err |-> r.err, arr |-> a]
    BY <1>2, <1>5
  <2>10. Range(a) \subseteq Range(z.arr) \cup Range(r.arr)
    <3>1. \A k \in DOMAIN a : k \in DOMAIN z.arr /\ (k < Len(r.arr) + 1 => k \in DOMAIN r.arr)
      BY <1>1, <2>3, <2>5
    <3> QED
      BY <2>4, <2>5, <3>1 DEF Range
  <2> QED
    BY <1>1, <2>2, <2>4, <2>8, <2>9, <2>10 DEF Releasing, r
<1> QED
  BY <1>4, <1>5

(* handleRelease removes leases of the client or with the address.         *)
LEMMA ReleaseFacts ==
    ASSUME NEW s \in Server, Pointers(s), NEW mac, NEW ip
    PROVE  Thinned(s, ReleaseLeases(s, mac, ip).srv, mac, ip)
<1> DEFINE n == Len(s.leases)
           f == ReleaseLoop(s, mac, ip)
           Fine(z) == Releasing(s, z, mac, ip)
           S == {i \in 0..n : Fine(f[i])}
<1>1. DOMAIN s.leases = 1..n /\ n \in Nat /\ s.leases \in Seq(Nat)
  BY AtLease DEF Server
<1>2. /\ f[0] = [srv |-> s, arr |-> s.leases, err |-> FALSE]
      /\ \A i \in 1..n : f[i] = ReleaseStep(f[i - 1], i, mac, ip)
  BY <1>1, ReleaseLoopDef
<1>3. Fine([srv |-> s, arr |-> s.leases, err |-> FALSE])
  <2>1. Thinned(s, s, mac, ip)
    BY ThinnedSelf
  <2>2. ArrayOK(s, s.leases)
    BY <1>1 DEF ArrayOK, Pointers
  <2> QED
    BY <1>1, <2>1, <2>2 DEF Releasing
<1>4. ASSUME NEW z, Fine(z), NEW i \in 1..n
      PROVE  Fine(ReleaseStep(z, i, mac, ip))
  BY <1>4, ReleaseStepFacts
<1> HIDE DEF f
<1>5. 0 \in S
  <2>1. Fine(f[0])
    <3> HIDE DEF Fine
    <3> QED
      BY <1>2, <1>3
  <2> HIDE DEF Fine
  <2> QED
    BY <1>1, <2>1
<1>6. ASSUME NEW i \in 1..n, i - 1 \in S
      PROVE  i \in S
  <2>1. Fine(f[i - 1]) /\ f[i] = ReleaseStep(f[i - 1], i, mac, ip)
    BY <1>2, <1>6
  <2> HIDE DEF Fine
  <2> QED
    BY <1>1, <1>4, <2>1
<1>7. n \in S
  <2>1. n \in Nat /\ n \in 0..n
    BY <1>1
  <2> HIDE DEF S, n
  <2> QED
    BY <1>5, <1>6, <2>1, Reaches
<1>8. ReleaseLeases(s, mac, ip) = f[n]
  BY DEF ReleaseLeases, f
<1> QED
  BY <1>7, <1>8 DEF Releasing
-----------------------------------------------------------------------------
(* What removals do to the indexes.                                        *)
LEMMA ShiftedAt ==
    ASSUME NEW s \in Server, Pointers(s), NEW arr \in Seq(Nat), ArrayOK(s, arr),
           NEW i \in DOMAIN s.leases
    PROVE  \A k \in DOMAIN arr :
             ShiftedArr(s, arr, i)[k] = IF k < Len(s.leases) THEN RemoveAt(s.leases, i)[k]
                                        ELSE arr[k]
<1> DEFINE L == Len(s.leases)
           a == RemoveAt(s.leases, i)
           c == a \o SubSeq(arr, L, Len(arr))
<1>1. /\ s.leases \in Seq(Nat) /\ DOMAIN s.leases = 1..L /\ L \in Nat
      /\ Len(arr) \in Nat /\ L <= Len(arr) /\ DOMAIN arr = 1..Len(arr)
  <2>1. DOMAIN s.leases = 1..L /\ L \in Nat
    BY AtLease
  <2> QED
    BY <2>1 DEF Server, ArrayOK
<1>2. a \in Seq(Nat) /\ Len(a) = L - 1
  <2>1. i \in 1..Len(s.leases)
    BY <1>1
  <2> QED
    BY <1>1, <2>1, RemoveAtFacts
<1>3. ShiftedArr(s, arr, i) = c
  BY DEF ShiftedArr
<1>4. \A k \in 1..Len(arr) : c[k] = IF k < L THEN a[k] ELSE arr[k]
  <2>1. L = Len(a) + 1 /\ L <= Len(arr) + 1 /\ c = a \o SubSeq(arr, L, Len(arr))
    BY <1>1, <1>2
  <2> HIDE DEF a, L, c
  <2> QED
    BY <1>1, <1>2, <2>1, NewPrefix
<1> QED
  BY <1>1, <1>3, <1>4

LEMMA EmptyHost ==
    ASSUME NEW st \in RmState, Pointers(st.srv), NEW id \in DOMAIN st.srv.obj, NEW lease
    PROVE  LET s == st.srv
               r == emptyHostname(st, id, lease)
           IN  \/ r = st
               \/ /\ s.obj[id].host = s.obj[lease].host /\ s.obj[id].host # NoHost
                  /\ r.srv.obj[id].host = NoHost /\ r.srv.leases = s.leases
                  /\ \A j \in DOMAIN s.obj : r.srv.obj[j].host \in {s.obj[j].host, NoHost}
                  /\ r.arr = st.arr
<1> DEFINE s == st.srv
           l == [s.obj[id] EXCEPT !.host = NoHost]
           t == Put(s, id, l)
           r == emptyHostname(st, id, lease)
<1>1. s \in Server /\ s.obj \in Seq(Lease) /\ s.obj[id] \in Lease
  BY AtLease DEF RmState, Server
<1>2. l \in Lease /\ l.host = NoHost
  BY <1>1 DEF Lease, Names
<1>3. [st EXCEPT !.srv.obj[id].host = NoHost]
      = [srv |-> t, arr |-> st.arr, stop |-> st.stop, err |-> st.err]
  <2>1. st = [srv |-> s, arr |-> st.arr, stop |-> st.stop, err |-> st.err]
    BY DEF RmState
  <2>2. [st EXCEPT !.srv.obj[id].host = NoHost]
        = [srv |-> [s EXCEPT !.obj[id].host = NoHost], arr |-> st.arr, stop |-> st.stop,
           err |-> st.err]
    <3> HIDE DEF s
    <3> QED
      BY <2>1
  <2>3. [s EXCEPT !.obj[id].host = NoHost] = t
    <3>1. s = [obj |-> s.obj, leases |-> s.leases, hostsIndex |-> s.hostsIndex,
               ipIndex |-> s.ipIndex, leasedOffsets |-> s.leasedOffsets]
      BY <1>1 DEF Server
    <3> HIDE DEF s
    <3> QED
      BY <3>1 DEF Put
  <2> QED
    BY <2>2, <2>3
<1>4. /\ t.obj[id] = l /\ t.leases = s.leases
      /\ \A j \in DOMAIN s.obj : t.obj[j] = IF j = id THEN l ELSE s.obj[j]
  <2> HIDE DEF l
  <2> QED
    BY <1>1, <1>2, PutFacts
<1>5. CASE s.obj[id].host # s.obj[lease].host
  BY <1>5 DEF emptyHostname
<1>6. CASE s.obj[id].host = s.obj[lease].host
  <2>1. r = [srv |-> t, arr |-> st.arr, stop |-> st.stop, err |-> st.err]
    BY <1>3, <1>6 DEF emptyHostname
  <2>2. CASE s.obj[id].host # NoHost
    <3> HIDE DEF t, r
    <3>1. r.srv = t /\ r.arr = st.arr
      BY <2>1
    <3>2. /\ s.obj[id].host = s.obj[lease].host /\ s.obj[id].host # NoHost
          /\ r.srv.obj[id].host = NoHost /\ r.srv.leases = s.leases
          /\ \A j \in DOMAIN s.obj : r.srv.obj[j].host \in {s.obj[j].host, NoHost}
          /\ r.arr = st.arr
      <4> HIDE DEF l, s
      <4> QED
        BY <1>2, <1>4, <1>6, <2>2, <3>1
    <3> QED
      BY <3>2 DEF r
  <2>3. CASE s.obj[id].host = NoHost
    <3>1. l = s.obj[id]
      <4> DEFINE m == s.obj[id]
      <4>1. /\ m = [mac |-> m.mac, ip |-> m.ip, host |-> m.host, exp |-> m.exp,
                    static |-> m.static]
            /\ m.host = NoHost /\ l = [m EXCEPT !.host = NoHost]
        BY <1>1, <2>3 DEF Lease
      <4> HIDE DEF m, l
      <4>2. l = m
        BY <4>1
      <4> QED
        BY <4>2 DEF m
    <3>2. t = s
      <4> HIDE DEF l
      <4>1. [s.obj EXCEPT ![id] = l] = s.obj
        BY <1>1, <3>1
      <4>2. t = [obj |-> s.obj, leases |-> s.leases, hostsIndex |-> s.hostsIndex,
                 ipIndex |-> s.ipIndex, leasedOffsets |-> s.leasedOffsets]
        BY <4>1 DEF Put
      <4> HIDE DEF t
      <4> QED
        BY <1>1, <4>2 DEF Server
    <3>3. st = [srv |-> s, arr |-> st.arr, stop |-> st.stop, err |-> st.err]
      BY DEF RmState
    <3> HIDE DEF t, s, r
    <3>4. r = st
      BY <2>1, <3>2, <3>3
    <3> QED
      BY <3>4 DEF r
  <2> QED
    BY <2>2, <2>3
<1> QED
  BY <1>5, <1>6

(* The end of the array, which the slice no longer reaches, repeats the    *)
(* last lease as long as the loop goes on.                                 *)
Leftover(st) ==
    ~st.stop => \A j \in DOMAIN st.arr : j > Len(st.srv.leases) =>
                  /\ Len(st.srv.leases) >= 1
                  /\ st.arr[j] = st.srv.leases[Len(st.srv.leases)]

(* One of the first i leases has lost the hostname it had in s and shared  *)
(* with lease.                                                             *)
Emptied(s, t, lease, i) ==
    \E k \in DOMAIN t.leases :
        /\ k <= i /\ s.obj[t.leases[k]].host # NoHost /\ t.obj[t.leases[k]].host = NoHost
        /\ s.obj[t.leases[k]].host = s.obj[lease].host
        /\ t.leases[k] # lease \/ s.obj[lease].mac = ZeroMac

LEMMA RmStepTied ==
    ASSUME NEW st \in RmState, Sound(st.srv), Tied(st.srv), ArrayOK(st.srv, st.arr), Leftover(st),
           NEW i \in DOMAIN st.arr, NEW lease \in DOMAIN st.srv.obj
    PROVE  LET r == rmDynamicStep(st, i, lease)
           IN  \/ Tied(r.srv) /\ r.srv.obj = st.srv.obj /\ Leftover(r)
               \/ Emptied(st.srv, r.srv, lease, i)
<1> DEFINE s == st.srv
           l == s.obj[st.arr[i]]
           match == l.mac = s.obj[lease].mac \/ l.ip = s.obj[lease].ip
           rm == rmLeaseByIndex(st, i)
           r == rmDynamicStep(st, i, lease)
           L == Len(s.leases)
           Good(x) == \/ Tied(x.srv) /\ x.srv.obj = s.obj /\ Leftover(x)
                      \/ Emptied(s, x.srv, lease, i)
<1>1. /\ s \in Server /\ Pointers(s) /\ Apart(s) /\ st.arr \in Seq(Nat)
      /\ st.stop \in BOOLEAN /\ st.err \in BOOLEAN
  BY DEF RmState, Sound
<1>2. /\ DOMAIN s.leases = 1..L /\ L \in Nat
      /\ DOMAIN st.arr = 1..Len(st.arr) /\ Len(st.arr) \in Nat
  BY <1>1, AtLease
<1>3. st.arr[i] \in DOMAIN s.obj
  BY DEF ArrayOK
<1>4. Good(st)
  OBVIOUS
<1>5. ASSUME ~st.stop, match, ~l.static, i > L
      PROVE  Good(r)
  <2>1. rm = st
    BY <1>5 DEF rmLeaseByIndex
  <2>2. r = [st EXCEPT !.stop = TRUE]
    BY <1>5, <2>1 DEF rmDynamicStep
  <2>3. r.srv = s /\ r.stop
    BY <2>2 DEF RmState
  <2> HIDE DEF r
  <2> QED
    BY <2>3 DEF Leftover
<1>6. ASSUME ~st.stop, match, ~l.static, ~(i > L)
      PROVE  Good(r)
  <2> DEFINE v == Removed(s, i)
             ar == ShiftedArr(s, st.arr, i)
  <2>1. i \in DOMAIN s.leases /\ At(s, i) = l
    BY <1>2, <1>6 DEF ArrayOK, At
  <2>2. rm = [srv |-> v, arr |-> ar, stop |-> st.stop, err |-> st.err]
    BY <1>1, <2>1, ByIndexFacts
  <2>3. Tied(v) /\ Sound(v)
    BY <2>1, RemovedTied, RemovedSound
  <2>4. /\ v \in Server /\ Pointers(v) /\ v.obj = s.obj
        /\ Len(v.leases) = L - 1 /\ DOMAIN v.leases = 1..(L - 1)
        /\ v.leases = RemoveAt(s.leases, i)
        /\ \A k \in DOMAIN v.leases : /\ Gap(i, k) \in DOMAIN s.leases \ {i}
                                      /\ v.leases[k] = s.leases[Gap(i, k)]
                                      /\ At(v, k) = At(s, Gap(i, k))
    BY <1>1, <2>1, RemovedFacts
  <2>5. /\ ar \in Seq(Nat) /\ Len(ar) = Len(st.arr) /\ ArrayOK(v, ar)
    BY <1>1, <2>1, ShiftFacts
  <2>6. \A k \in DOMAIN st.arr : ar[k] = IF k < L THEN v.leases[k] ELSE st.arr[k]
    <3>1. \A k \in DOMAIN st.arr : ar[k] = IF k < L THEN RemoveAt(s.leases, i)[k] ELSE st.arr[k]
      BY <1>1, <2>1, ShiftedAt
    <3> QED
      BY <2>4, <3>1
  <2>7. r = IF i > Len(rm.srv.leases) THEN [rm EXCEPT !.stop = TRUE]
            ELSE emptyHostname(rm, rm.srv.leases[i], lease)
    BY <1>6 DEF rmDynamicStep
  <2> HIDE DEF v, ar, rm, r
  <2>8. rm.srv = v /\ rm.arr = ar /\ rm.stop = st.stop /\ rm.err = st.err
    BY <2>2
  <2>9. CASE i > Len(v.leases)
    <3>1. r.srv = v /\ r.stop
      BY <2>2, <2>7, <2>8, <2>9
    <3> QED
      BY <2>3, <2>4, <3>1 DEF Leftover
  <2>10. CASE ~(i > Len(v.leases))
    <3>1. i \in DOMAIN v.leases /\ L >= 2 /\ i <= L - 1
      BY <1>2, <2>4, <2>10
    <3>2. r = emptyHostname(rm, v.leases[i], lease) /\ v.leases[i] \in DOMAIN v.obj
      BY <2>4, <2>7, <2>8, <2>10, <3>1 DEF Pointers
    <3>3. Leftover(rm)
      <4> SUFFICES ASSUME NEW j \in DOMAIN ar, j > L - 1
                   PROVE  L - 1 >= 1 /\ ar[j] = v.leases[L - 1]
        BY <2>4, <2>8 DEF Leftover
      <4>1. DOMAIN ar = DOMAIN st.arr
        BY <1>2, <2>5
      <4>2. j \in DOMAIN st.arr /\ j \in Nat /\ ~(j < L)
        BY <1>2, <4>1
      <4>3. ar[j] = st.arr[j]
        BY <2>6, <4>2
      <4>4. st.arr[j] = s.leases[L]
        <5>1. CASE j = L
          <6>1. j \in DOMAIN s.leases
            BY <1>2, <3>1, <5>1
          <6> QED
            BY <5>1, <6>1 DEF ArrayOK
        <5>2. CASE j > L
          BY <1>6, <4>2, <5>2 DEF Leftover
        <5> QED
          BY <1>2, <4>2, <5>1, <5>2
      <4>5. L - 1 \in DOMAIN v.leases /\ Gap(i, L - 1) = L
        BY <1>2, <2>4, <3>1 DEF Gap
      <4>6. v.leases[L - 1] = s.leases[L]
        BY <2>4, <4>5
      <4> QED
        BY <1>2, <3>1, <4>3, <4>4, <4>6
    <3>4. rm \in RmState
      BY <1>1, <2>2, <2>4, <2>5 DEF RmState
    <3>5. \/ r = rm
          \/ /\ v.obj[v.leases[i]].host = v.obj[lease].host /\ v.obj[v.leases[i]].host # NoHost
             /\ r.srv.obj[v.leases[i]].host = NoHost /\ r.srv.leases = v.leases
      BY SMTT(30), <2>4, <2>8, <3>2, <3>4, EmptyHost
    <3>6. CASE r = rm
      BY <2>3, <2>4, <2>8, <3>3, <3>6
    <3>7. CASE /\ v.obj[v.leases[i]].host = v.obj[lease].host /\ v.obj[v.leases[i]].host # NoHost
               /\ r.srv.obj[v.leases[i]].host = NoHost /\ r.srv.leases = v.leases
      <4>1. v.leases[i] # lease \/ s.obj[lease].mac = ZeroMac
        <5>1. SUFFICES ASSUME v.leases[i] = lease, s.obj[lease].mac # ZeroMac
                       PROVE  FALSE
          OBVIOUS
        <5>2. /\ Gap(i, i) \in DOMAIN s.leases \ {i} /\ s.leases[Gap(i, i)] = lease
              /\ At(s, Gap(i, i)) = s.obj[lease]
          BY <2>4, <3>1, <5>1 DEF At
        <5> QED
          BY <1>1, <1>6, <2>1, <5>1, <5>2 DEF Apart
      <4>2. i <= i
        BY <3>1, <1>2
      <4> QED
        BY <2>4, <3>1, <3>7, <4>1, <4>2 DEF Emptied
    <3> QED
      BY <3>5, <3>6, <3>7
  <2> QED
    BY <2>9, <2>10
<1>7. ASSUME ~st.stop, ~match, ~l.static
      PROVE  Good(r)
  <2>1. r = emptyHostname(st, st.arr[i], lease)
    BY <1>7 DEF rmDynamicStep
  <2> HIDE DEF r
  <2>2. \/ r = st
        \/ /\ l.host = s.obj[lease].host /\ l.host # NoHost
           /\ r.srv.obj[st.arr[i]].host = NoHost /\ r.srv.leases = s.leases
    BY <1>1, <1>3, <2>1, EmptyHost
  <2>3. st.arr[i] # lease
    BY <1>7
  <2>4. \E k \in DOMAIN s.leases : k <= i /\ s.leases[k] = st.arr[i]
    <3>1. CASE i <= L
      BY <1>2, <3>1 DEF ArrayOK
    <3>2. CASE ~(i <= L)
      <4>1. L >= 1 /\ st.arr[i] = s.leases[L]
        BY <1>2, <1>7, <3>2 DEF Leftover
      <4>2. L \in DOMAIN s.leases /\ L <= i
        BY <1>2, <3>2, <4>1
      <4> QED
        BY <4>1, <4>2
    <3> QED
      BY <3>1, <3>2
  <2> QED
    BY <1>4, <2>2, <2>3, <2>4 DEF Emptied
<1>8. ASSUME ~st.stop, match, l.static
      PROVE  Good(r)
  <2>1. r = [st EXCEPT !.stop = TRUE, !.err = TRUE]
    BY <1>8 DEF rmDynamicStep
  <2>2. r = [srv |-> st.srv, arr |-> st.arr, stop |-> TRUE, err |-> TRUE]
    BY <2>1 DEF RmState
  <2>3. r.srv = s /\ r.stop
    BY <2>2
  <2> HIDE DEF r
  <2> QED
    BY <2>3 DEF Leftover
<1>9. ASSUME ~st.stop, ~match, l.static
      PROVE  Good(r)
  <2>1. r = st
    BY <1>9 DEF rmDynamicStep
  <2> QED
    BY <1>4, <2>1
<1>10. ASSUME st.stop
       PROVE  Good(r)
  BY <1>4, <1>10 DEF rmDynamicStep
<1>11. l.static \in BOOLEAN
  BY <1>1, <1>3, AtLease DEF Lease
<1>12. Good(r)
  <2> HIDE DEF r, Good, s, l
  <2> QED
    BY <1>1, <1>5, <1>6, <1>7, <1>8, <1>9, <1>10, <1>11
<1> QED
  BY <1>12
(* The first i - 1 leases stay in their places, empty hostnames stay empty, *)
(* and nothing new comes into the array.                                    *)
Onward(st, r, i) ==
    /\ \A k \in DOMAIN st.srv.leases : k < i =>
         k \in DOMAIN r.srv.leases /\ r.srv.leases[k] = st.srv.leases[k]
    /\ \A j \in DOMAIN st.srv.obj :
         st.srv.obj[j].host = NoHost => r.srv.obj[j].host = NoHost
    /\ Range(r.arr) \subseteq Range(st.arr)

LEMMA EmptyOnward ==
    ASSUME NEW st \in RmState, Pointers(st.srv), NEW id \in DOMAIN st.srv.obj, NEW lease, NEW i
    PROVE  Onward(st, emptyHostname(st, id, lease), i)
<1> DEFINE r == emptyHostname(st, id, lease)
<1>1. CASE r = st
  BY <1>1 DEF Onward
<1>2. CASE r # st
  <2>1. /\ r.srv.leases = st.srv.leases /\ r.arr = st.arr
        /\ \A j \in DOMAIN st.srv.obj : r.srv.obj[j].host \in {st.srv.obj[j].host, NoHost}
    BY <1>2, EmptyHost
  <2> HIDE DEF r
  <2>2. Onward(st, r, i)
    BY <2>1 DEF Onward
  <2> QED
    BY <2>2 DEF r
<1> QED
  BY <1>1, <1>2

LEMMA RmStepOnward ==
    ASSUME NEW st \in RmState, Pointers(st.srv), ArrayOK(st.srv, st.arr),
           NEW i \in DOMAIN st.arr, NEW lease \in DOMAIN st.srv.obj
    PROVE  Onward(st, rmDynamicStep(st, i, lease), i)
<1> DEFINE s == st.srv
           l == s.obj[st.arr[i]]
           match == l.mac = s.obj[lease].mac \/ l.ip = s.obj[lease].ip
           rm == rmLeaseByIndex(st, i)
           r == rmDynamicStep(st, i, lease)
           L == Len(s.leases)
<1>1. s \in Server /\ st.arr \in Seq(Nat) /\ st.stop \in BOOLEAN /\ st.err \in BOOLEAN
  BY DEF RmState
<1>2. /\ DOMAIN s.leases = 1..L /\ L \in Nat
      /\ DOMAIN st.arr = 1..Len(st.arr) /\ Len(st.arr) \in Nat
  BY <1>1, AtLease
<1>3. st.arr[i] \in DOMAIN s.obj
  BY DEF ArrayOK
<1>4. \A z : z.srv = s /\ z.arr = st.arr => Onward(st, z, i)
  BY DEF Onward
<1>5. CASE ~st.stop /\ match /\ ~l.static
  <2>1. r = IF i > Len(rm.srv.leases) THEN [rm EXCEPT !.stop = TRUE]
            ELSE emptyHostname(rm, rm.srv.leases[i], lease)
    BY <1>5 DEF rmDynamicStep
  <2>2. CASE i > L
    <3>1. rm = st
      BY <2>2 DEF rmLeaseByIndex
    <3>2. r = [st EXCEPT !.stop = TRUE]
      BY <2>1, <2>2, <3>1
    <3>3. r.srv = s /\ r.arr = st.arr
      BY <3>2 DEF RmState
    <3> HIDE DEF r
    <3>4. Onward(st, r, i)
      BY <1>4, <3>3
    <3> QED
      BY <3>4 DEF r
  <2>3. CASE ~(i > L)
    <3> DEFINE v == Removed(s, i)
               ar == ShiftedArr(s, st.arr, i)
    <3>1. i \in DOMAIN s.leases
      BY <1>2, <2>3
    <3>2. rm = [srv |-> v, arr |-> ar, stop |-> st.stop, err |-> st.err]
      BY <3>1, ByIndexFacts
    <3>3. /\ v \in Server /\ Pointers(v) /\ v.obj = s.obj
          /\ Len(v.leases) = L - 1 /\ DOMAIN v.leases = 1..(L - 1)
          /\ v.leases = RemoveAt(s.leases, i)
          /\ \A k \in DOMAIN v.leases : /\ Gap(i, k) \in DOMAIN s.leases \ {i}
                                        /\ v.leases[k] = s.leases[Gap(i, k)]
                                        /\ At(v, k) = At(s, Gap(i, k))
      BY <1>1, <3>1, RemovedFacts
    <3>4. /\ ar \in Seq(Nat) /\ Len(ar) = Len(st.arr) /\ ArrayOK(v, ar)
      BY <1>1, <3>1, ShiftFacts
    <3>5. \A k \in DOMAIN st.arr : ar[k] = IF k < L THEN v.leases[k] ELSE st.arr[k]
      <4>1. \A k \in DOMAIN st.arr : ar[k] = IF k < L THEN RemoveAt(s.leases, i)[k] ELSE st.arr[k]
        BY <1>1, <3>1, ShiftedAt
      <4> QED
        BY <3>3, <4>1
    <3> HIDE DEF v, ar
    <3>6. Range(ar) \subseteq Range(st.arr)
      <4>1. DOMAIN ar = DOMAIN st.arr
        BY <1>2, <3>4
      <4>2. ASSUME NEW k \in DOMAIN ar
            PROVE  \E j \in DOMAIN st.arr : ar[k] = st.arr[j]
        <5>1. CASE ~(k < L)
          BY <3>5, <4>1, <5>1
        <5>2. CASE k < L
          <6>1. k \in DOMAIN v.leases /\ ar[k] = v.leases[k]
            BY <1>2, <3>3, <3>5, <4>1, <5>2
          <6>2. Gap(i, k) \in DOMAIN s.leases /\ ar[k] = s.leases[Gap(i, k)]
            BY <3>3, <6>1
          <6>3. Gap(i, k) \in DOMAIN st.arr /\ st.arr[Gap(i, k)] = s.leases[Gap(i, k)]
            BY <1>2, <6>2 DEF ArrayOK
          <6> QED
            BY <6>2, <6>3
        <5> QED
          BY <5>1, <5>2
      <4> QED
        BY <4>2 DEF Range
    <3>7. \A k \in DOMAIN s.leases : k < i => k \in DOMAIN v.leases /\ v.leases[k] = s.leases[k]
      <4>1. ASSUME NEW k \in DOMAIN s.leases, k < i
            PROVE  k \in DOMAIN v.leases /\ Gap(i, k) = k
        BY <1>2, <3>1, <3>3, <4>1 DEF Gap
      <4> QED
        BY <3>3, <4>1
    <3> HIDE DEF rm
    <3>8. rm.srv = v /\ rm.arr = ar
      BY <3>2
    <3>9. CASE i > Len(v.leases)
      <4>1. r.srv = v /\ r.arr = ar
        BY <2>1, <3>2, <3>8, <3>9
      <4> HIDE DEF r, s
      <4>2. Onward(st, r, i)
        BY <3>3, <3>6, <3>7, <4>1 DEF Onward, s
      <4> QED
        BY <4>2 DEF r
    <3>10. CASE ~(i > Len(v.leases))
      <4>1. i \in DOMAIN v.leases
        BY <1>2, <3>1, <3>3, <3>10
      <4>2. r = emptyHostname(rm, v.leases[i], lease) /\ v.leases[i] \in DOMAIN v.obj
        BY <2>1, <3>3, <3>8, <3>10, <4>1 DEF Pointers
      <4>3. rm \in RmState
        BY <1>1, <3>2, <3>3, <3>4 DEF RmState
      <4>4. Onward(rm, emptyHostname(rm, v.leases[i], lease), i)
        BY <3>3, <3>8, <4>2, <4>3, EmptyOnward
      <4> HIDE DEF r, s
      <4>5. Onward(rm, r, i)
        BY <4>2, <4>4
      <4>6. Onward(st, r, i)
        BY <3>3, <3>6, <3>7, <3>8, <4>5 DEF Onward, s
      <4> QED
        BY <4>6 DEF r
    <3> QED
      BY <3>9, <3>10
  <2> QED
    BY <2>2, <2>3
<1>6. CASE ~st.stop /\ ~match /\ ~l.static
  <2>1. r = emptyHostname(st, st.arr[i], lease)
    BY <1>6 DEF rmDynamicStep
  <2> QED
    BY <1>3, <2>1, EmptyOnward
<1>7. CASE ~st.stop /\ match /\ l.static
  <2>1. r = [st EXCEPT !.stop = TRUE, !.err = TRUE]
    BY <1>7 DEF rmDynamicStep
  <2>2. r.srv = s /\ r.arr = st.arr
    BY <2>1 DEF RmState
  <2> HIDE DEF r
  <2>3. Onward(st, r, i)
    BY <1>4, <2>2
  <2> QED
    BY <2>3 DEF r
<1>8. CASE st.stop \/ (~match /\ l.static)
  <2>1. r = st
    BY <1>8 DEF rmDynamicStep
  <2> QED
    BY <1>4, <2>1
<1>9. l.static \in BOOLEAN
  BY <1>1, <1>3, AtLease DEF Lease
<1> HIDE DEF l, s
<1> QED
  BY <1>1, <1>5, <1>6, <1>7, <1>8, <1>9

(* rmDynamicLease keeps the indexes as long as no lease loses its hostname. *)
LEMMA RmDynamicTied ==
    ASSUME NEW s, Sound(s), Tied(s), NEW lease \in DOMAIN s.obj
    PROVE  LET r == rmDynamicLease(s, lease)
           IN  /\ \/ Tied(r.srv) /\ r.srv.obj = s.obj
                  \/ Emptied(s, r.srv, lease, Len(s.leases))
               /\ Range(r.arr) \subseteq Range(s.leases)
<1> DEFINE n == Len(s.leases)
           mac == s.obj[lease].mac
           ip == s.obj[lease].ip
           f == rmDynamicLoop(s, lease)
           Fine(z) == /\ z \in RmState /\ Len(z.arr) = n /\ ArrayOK(z.srv, z.arr)
                      /\ Thinned(s, z.srv, mac, ip)
                      /\ Range(z.arr) \subseteq Range(s.leases)
           Good(z, i) == \/ Tied(z.srv) /\ z.srv.obj = s.obj /\ Leftover(z)
                         \/ Emptied(s, z.srv, lease, i)
           S == {i \in 0..n : Fine(f[i]) /\ Good(f[i], i)}
<1>1. /\ DOMAIN s.leases = 1..n /\ n \in Nat /\ s.leases \in Seq(Nat)
      /\ s \in Server /\ Pointers(s)
  BY AtLease DEF Server, Sound
<1>2. /\ f[0] = [srv |-> s, arr |-> s.leases, stop |-> FALSE, err |-> FALSE]
      /\ \A i \in 1..n : f[i] = rmDynamicStep(f[i - 1], i, lease)
  BY <1>1, RmLoopDef
<1>3. /\ Fine([srv |-> s, arr |-> s.leases, stop |-> FALSE, err |-> FALSE])
      /\ Good([srv |-> s, arr |-> s.leases, stop |-> FALSE, err |-> FALSE], 0)
  <2>1. Thinned(s, s, mac, ip)
    BY <1>1, ThinnedSelf
  <2>2. ArrayOK(s, s.leases)
    BY <1>1 DEF ArrayOK, Pointers
  <2>3. \A j \in DOMAIN s.leases : ~(j > Len(s.leases))
    BY <1>1
  <2> QED
    BY <1>1, <2>1, <2>2, <2>3 DEF RmState, Leftover
<1>4. ASSUME NEW z, NEW i \in 1..n, Fine(z), Good(z, i - 1)
      PROVE  Fine(rmDynamicStep(z, i, lease)) /\ Good(rmDynamicStep(z, i, lease), i)
  <2> DEFINE r == rmDynamicStep(z, i, lease)
  <2>1. /\ z \in RmState /\ Pointers(z.srv) /\ ArrayOK(z.srv, z.arr)
        /\ lease \in DOMAIN z.srv.obj /\ Same(z.srv.obj[lease], s.obj[lease])
        /\ Sound(z.srv) /\ DOMAIN z.srv.obj = DOMAIN s.obj
        /\ Range(z.srv.leases) \subseteq Range(s.leases)
    BY <1>4 DEF Thinned
  <2>2. i \in DOMAIN z.arr
    BY <1>1, <1>4, <2>1 DEF RmState
  <2>3. /\ r \in RmState /\ Len(r.arr) = Len(z.arr) /\ ArrayOK(r.srv, r.arr)
        /\ Thinned(z.srv, r.srv, z.srv.obj[lease].mac, z.srv.obj[lease].ip)
    BY <2>1, <2>2, RmStepFacts
  <2>4. z.srv.obj[lease].mac = mac /\ z.srv.obj[lease].ip = ip
    BY <2>1 DEF Same
  <2>5. Onward(z, r, i)
    BY <2>1, <2>2, RmStepOnward
  <2>6. ASSUME Tied(z.srv), Leftover(z)
        PROVE  \/ Tied(r.srv) /\ r.srv.obj = z.srv.obj /\ Leftover(r)
               \/ Emptied(z.srv, r.srv, lease, i)
    BY <2>1, <2>2, <2>6, RmStepTied
  <2> HIDE DEF r, mac, ip
  <2>7. Thinned(s, r.srv, mac, ip)
    BY <1>1, <1>4, <2>3, <2>4, ThinnedTwice
  <2>8. Fine(r)
    <3>1. Range(r.arr) \subseteq Range(s.leases)
      BY <1>4, <2>5 DEF Onward
    <3> QED
      BY <1>4, <2>3, <2>7, <3>1
  <2>9. ASSUME Tied(z.srv), z.srv.obj = s.obj, Leftover(z)
        PROVE  Good(r, i)
    BY <2>6, <2>9 DEF Emptied
  <2>10. ASSUME Emptied(s, z.srv, lease, i - 1)
         PROVE  Good(r, i)
    <3>1. PICK k \in DOMAIN z.srv.leases :
            /\ k <= i - 1 /\ s.obj[z.srv.leases[k]].host # NoHost
            /\ z.srv.obj[z.srv.leases[k]].host = NoHost
            /\ s.obj[z.srv.leases[k]].host = s.obj[lease].host
            /\ z.srv.leases[k] # lease \/ s.obj[lease].mac = ZeroMac
      BY <2>10 DEF Emptied
    <3>2. k \in Nat /\ z.srv.leases[k] \in DOMAIN z.srv.obj
      <4>1. z.srv \in Server
        BY <2>1 DEF RmState
      <4>2. DOMAIN z.srv.leases = 1..Len(z.srv.leases)
        BY <2>1, <4>1, AtLease
      <4> QED
        BY <2>1, <4>2 DEF Pointers
    <3>3. k < i /\ k <= i
      BY <3>1, <3>2
    <3>4. /\ k \in DOMAIN r.srv.leases /\ r.srv.leases[k] = z.srv.leases[k]
          /\ r.srv.obj[r.srv.leases[k]].host = NoHost
      BY <2>5, <3>1, <3>2, <3>3 DEF Onward
    <3>5. Emptied(s, r.srv, lease, i)
      BY <3>1, <3>3, <3>4 DEF Emptied
    <3> QED
      BY <3>5
  <2>11. Good(r, i)
    BY <1>4, <2>9, <2>10
  <2> QED
    BY <2>8, <2>11 DEF r
<1> HIDE DEF f, mac, ip
<1>5. 0 \in S
  BY <1>1, <1>2, <1>3
<1>6. ASSUME NEW i \in 1..n, i - 1 \in S
      PROVE  i \in S
  <2>1. /\ Fine(f[i - 1]) /\ Good(f[i - 1], i - 1)
        /\ f[i] = rmDynamicStep(f[i - 1], i, lease)
    BY <1>2, <1>6
  <2> HIDE DEF Fine, Good
  <2> QED
    BY <1>1, <1>4, <2>1
<1>7. n \in S
  <2>1. n \in Nat /\ n \in 0..n
    BY <1>1
  <2> HIDE DEF S, n
  <2> QED
    BY <1>5, <1>6, <2>1, Reaches
<1>8. rmDynamicLease(s, lease) = f[n]
  BY DEF rmDynamicLease, f
<1> QED
  BY <1>7, <1>8

(* No two leases of the slice have one name.                               *)
LEMMA OneName ==
    ASSUME NEW s, Tied(s)
    PROVE  \A a, b \in Range(s.leases) :
             s.obj[a].host # NoHost /\ s.obj[a].host = s.obj[b].host => a = b
  BY DEF Tied, At, Range

(* rmDynamicLease for a lease of the slice empties no hostname, for no     *)
(* other lease has that one.                                               *)
LEMMA RmOwnTied ==
    ASSUME NEW s, Sound(s), NEW t, Sound(t), Tied(t), t.obj = s.obj,
           Range(t.leases) \subseteq Range(s.leases), Tied(s),
           NEW lease \in Range(s.leases), s.obj[lease].mac # ZeroMac
    PROVE  LET r == rmDynamicLease(t, lease)
           IN  /\ Tied(r.srv) /\ r.srv.obj = s.obj
               /\ Range(r.arr) \subseteq Range(t.leases)
<1> DEFINE r == rmDynamicLease(t, lease)
<1>1. /\ t \in Server /\ Pointers(t) /\ lease \in DOMAIN t.obj
  BY DEF Sound, Pointers, Range
<1>2. /\ \/ Tied(r.srv) /\ r.srv.obj = t.obj
         \/ Emptied(t, r.srv, lease, Len(t.leases))
      /\ Range(r.arr) \subseteq Range(t.leases)
  BY <1>1, RmDynamicTied
<1>3. Thinned(t, r.srv, t.obj[lease].mac, t.obj[lease].ip)
  BY <1>1, RmDynamicFacts
<1> HIDE DEF r
<1>4. ~Emptied(t, r.srv, lease, Len(t.leases))
  <2> SUFFICES ASSUME NEW k \in DOMAIN r.srv.leases,
                      s.obj[r.srv.leases[k]].host # NoHost,
                      s.obj[r.srv.leases[k]].host = s.obj[lease].host,
                      r.srv.leases[k] # lease
               PROVE  FALSE
    BY DEF Emptied
  <2>1. r.srv.leases[k] \in Range(s.leases)
    <3>1. r.srv.leases[k] \in Range(r.srv.leases)
      BY DEF Range
    <3> QED
      BY <1>3, <3>1 DEF Thinned
  <2> QED
    BY <2>1, OneName
<1> QED
  BY <1>2, <1>4 DEF r

LEMMA ReleaseTied ==
    ASSUME NEW s, Sound(s), Tied(s), NEW mac \in Macs, NEW ip
    PROVE  Tied(ReleaseLeases(s, mac, ip).srv)
<1> DEFINE n == Len(s.leases)
           f == ReleaseLoop(s, mac, ip)
           Fine(z) == /\ Releasing(s, z, mac, ip) /\ Tied(z.srv) /\ z.srv.obj = s.obj
                      /\ Range(z.arr) \subseteq Range(s.leases)
           S == {i \in 0..n : Fine(f[i])}
<1>1. /\ DOMAIN s.leases = 1..n /\ n \in Nat /\ s.leases \in Seq(Nat)
      /\ s \in Server /\ Pointers(s)
  BY AtLease DEF Server, Sound
<1>2. /\ f[0] = [srv |-> s, arr |-> s.leases, err |-> FALSE]
      /\ \A i \in 1..n : f[i] = ReleaseStep(f[i - 1], i, mac, ip)
  BY <1>1, ReleaseLoopDef
<1>3. Fine([srv |-> s, arr |-> s.leases, err |-> FALSE])
  <2>1. Thinned(s, s, mac, ip)
    BY <1>1, ThinnedSelf
  <2>2. ArrayOK(s, s.leases)
    BY <1>1 DEF ArrayOK, Pointers
  <2> QED
    BY <1>1, <2>1, <2>2 DEF Releasing
<1>4. ASSUME NEW z, Fine(z), NEW i \in 1..n
      PROVE  Fine(ReleaseStep(z, i, mac, ip))
  <2> DEFINE l == z.srv.obj[z.arr[i]]
             r == rmDynamicLease(z.srv, z.arr[i])
             w == ReleaseStep(z, i, mac, ip)
  <2>1. /\ Releasing(s, w, mac, ip)
        /\ Range(w.arr) \subseteq Range(z.arr) \cup Range(r.arr)
    BY <1>1, <1>4, ReleaseStepFacts
  <2>2. CASE z.err \/ l.mac # mac \/ l.ip # ip
    <3>1. w = z
      BY <2>2 DEF ReleaseStep
    <3> QED
      BY <1>4, <3>1
  <2>3. CASE ~(z.err \/ l.mac # mac \/ l.ip # ip)
    <3>1. w.srv = r.srv
      BY <2>3 DEF ReleaseStep
    <3>2. /\ Sound(z.srv) /\ Range(z.srv.leases) \subseteq Range(s.leases)
      BY <1>4 DEF Releasing, Thinned
    <3>3. z.arr[i] \in Range(s.leases)
      <4>1. i \in DOMAIN z.arr
        BY <1>1, <1>4 DEF Releasing
      <4> QED
        BY <1>4, <4>1 DEF Range
    <3>4. s.obj[z.arr[i]].mac # ZeroMac
      BY <1>4, <2>3, ConstantsAssumption
    <3>5. /\ Tied(r.srv) /\ r.srv.obj = s.obj /\ Range(r.arr) \subseteq Range(z.srv.leases)
      BY <1>4, <3>2, <3>3, <3>4, RmOwnTied
    <3> HIDE DEF r, w
    <3>6. Fine(w)
      BY <1>4, <2>1, <3>1, <3>2, <3>5
    <3> QED
      BY <3>6 DEF w
  <2> QED
    BY <2>2, <2>3
<1> HIDE DEF f
<1>5. 0 \in S
  BY <1>1, <1>2, <1>3
<1>6. ASSUME NEW i \in 1..n, i - 1 \in S
      PROVE  i \in S
  <2>1. Fine(f[i - 1]) /\ f[i] = ReleaseStep(f[i - 1], i, mac, ip)
    BY <1>2, <1>6
  <2> HIDE DEF Fine
  <2> QED
    BY <1>1, <1>4, <2>1
<1>7. n \in S
  <2>1. n \in Nat /\ n \in 0..n
    BY <1>1
  <2> HIDE DEF S, n
  <2> QED
    BY <1>5, <1>6, <2>1, Reaches
<1>8. ReleaseLeases(s, mac, ip) = f[n]
  BY DEF ReleaseLeases, f
<1> QED
  BY <1>7, <1>8

-----------------------------------------------------------------------------
(* The loop of ResetLeases, unrolled.                                      *)
LEMMA ResetLoopDef ==
    ASSUME NEW stored, Len(stored) \in Nat
    PROVE  LET f == ResetLoop(stored)
           IN  /\ f[0] = NoLeases
               /\ \A i \in 1..Len(stored) : f[i] = addLease(New(f[i - 1], Named(stored[i])), i).srv
<1> DEFINE n == Len(stored)
           x == NoLeases
           Unrolled(f, k) ==
             f = [i \in 0..k |-> IF i = 0 THEN x ELSE addLease(New(f[i - 1], Named(stored[i])), i).srv]
           S == {k \in 0..n : \E f : Unrolled(f, k)}
<1>0. n \in Nat
  OBVIOUS
<1> HIDE DEF x, n
<1>1. 0 \in S
  <2> DEFINE f == [i \in 0..0 |-> x]
  <2>1. \A i \in 0..0 : i = 0
    OBVIOUS
  <2>2. Unrolled(f, 0)
    BY <2>1
  <2>3. \E g : Unrolled(g, 0)
    BY <2>2
  <2> HIDE DEF f, Unrolled
  <2> QED
    BY <1>0, <2>3
<1>2. ASSUME NEW k \in 1..n, k - 1 \in S
      PROVE  k \in S
  <2>1. PICK f : Unrolled(f, k - 1)
    BY <1>2
  <2> DEFINE g == [i \in 0..k |-> IF i = k THEN addLease(New(f[k - 1], Named(stored[k])), k).srv ELSE f[i]]
  <2>2. \A i \in 0..(k - 1) : f[i] = IF i = 0 THEN x ELSE addLease(New(f[i - 1], Named(stored[i])), i).srv
    BY <2>1
  <2>3. ASSUME NEW i \in 0..k
        PROVE  g[i] = IF i = 0 THEN x ELSE addLease(New(g[i - 1], Named(stored[i])), i).srv
    <3>1. CASE i = k
      <4>1. g[k - 1] = f[k - 1] /\ g[k] = addLease(New(f[k - 1], Named(stored[k])), k).srv /\ k # 0
        BY <1>0
      <4> QED
        BY <3>1, <4>1
    <3>2. CASE i # k /\ i # 0
      <4>1. i \in 0..(k - 1) /\ g[i] = f[i] /\ g[i - 1] = f[i - 1]
        BY <1>0, <3>2
      <4> QED
        BY <2>2, <3>2, <4>1
    <3>3. CASE i # k /\ i = 0
      BY <1>0, <2>2, <3>3
    <3> QED
      BY <3>1, <3>2, <3>3
  <2>4. Unrolled(g, k)
    <3>1. g = [i \in 0..k |-> g[i]]
      OBVIOUS
    <3> HIDE DEF g
    <3> QED
      BY <2>3, <3>1
  <2>5. \E h : Unrolled(h, k)
    BY <2>4
  <2> HIDE DEF g, Unrolled
  <2> QED
    BY <1>0, <2>5
<1>3. n \in S
  <2>1. n \in Nat /\ n \in 0..n
    BY <1>0
  <2> HIDE DEF S
  <2> QED
    BY <1>1, <1>2, <2>1, Reaches
<1> DEFINE f == ResetLoop(stored)
<1>4. f = CHOOSE g : Unrolled(g, n)
  BY SMTT(30) DEF ResetLoop, x, n
<1>5. Unrolled(f, n)
  BY <1>3, <1>4
<1>6. \A i \in 0..n : f[i] = IF i = 0 THEN x ELSE addLease(New(f[i - 1], Named(stored[i])), i).srv
  <2> HIDE DEF f
  <2> QED
    BY <1>5
<1>7. f[0] = x /\ \A i \in 1..n : i \in 0..n /\ i # 0
  <2> HIDE DEF f
  <2> QED
    BY <1>0, <1>6
<1> HIDE DEF f
<1> QED
  BY <1>6, <1>7 DEF x, f, n

(* A lease gets a name, and a named one keeps it.                          *)
LEMMA NamedFacts ==
    ASSUME NEW l \in Lease
    PROVE  /\ Named(l) \in Lease /\ Same(Named(l), l) /\ Named(Named(l)) = Named(l)
<1> DEFINE h == validHostnameForClient(l.host, l.ip)
           m == [l EXCEPT !.host = h]
<1>1. h \in Names
  BY DEF Lease, Names, validHostnameForClient
<1>3. Named(l) = IF l.static THEN l ELSE m
  BY DEF Named
<1>4. validHostnameForClient(h, l.ip) = h
  BY DEF validHostnameForClient
<1> HIDE DEF h
<1>5. m \in Lease /\ m.host = h /\ m.ip = l.ip /\ m.static = l.static /\ Same(m, l)
  BY <1>1 DEF Lease, Same
<1>6. ~l.static => Named(m) = m
  <2>1. [m EXCEPT !.host = h] = m
    BY <1>5 DEF Lease
  <2> HIDE DEF m
  <2> QED
    BY <1>4, <1>5, <2>1 DEF Named
<1> HIDE DEF m
<1> QED
  BY <1>3, <1>5, <1>6 DEF Same

(* ResetLeases, on leases that are apart.                                  *)
LEMMA ResetFacts ==
    ASSUME NEW stored \in Seq(Lease),
           \A i, j \in DOMAIN stored : i # j =>
             /\ stored[i].ip # stored[j].ip
             /\ stored[i].mac # ZeroMac => stored[i].mac # stored[j].mac
    PROVE  LET t == ResetLeases(stored)
           IN  /\ Sound(t) /\ Tied(t) /\ Len(t.leases) <= Len(stored)
               /\ Len(t.leases) = Len(stored) =>
                    \A k \in DOMAIN stored :
                      k \in DOMAIN t.leases /\ At(t, k) = Named(stored[k])
<1> DEFINE n == Len(stored)
           f == ResetLoop(stored)
           Fine(s, k) ==
             /\ Sound(s) /\ Tied(s) /\ DOMAIN s.obj = 1..k
             /\ \A j \in 1..k : s.obj[j] = Named(stored[j])
             /\ Len(s.leases) <= k
             /\ Len(s.leases) = k => \A j \in 1..k : s.leases[j] = j
           S == {k \in 0..n : Fine(f[k], k)}
<1>1. n \in Nat /\ DOMAIN stored = 1..n
  OBVIOUS
<1>2. f[0] = NoLeases /\ \A i \in 1..n : f[i] = addLease(New(f[i - 1], Named(stored[i])), i).srv
  BY <1>1, ResetLoopDef
<1>3. Fine(NoLeases, 0)
  <2>1. NoLeases \in Server
    BY DEF NoLeases, Server
  <2>2. DOMAIN NoLeases.obj = {} /\ DOMAIN NoLeases.leases = {} /\ Len(NoLeases.leases) = 0
    BY DEF NoLeases
  <2>3. Pointers(NoLeases)
    BY <2>2 DEF NoLeases, Pointers
  <2>4. Sound(NoLeases)
    BY <2>1, <2>2, <2>3 DEF Sound, Apart, Covered
  <2>5. 1..0 = {}
    OBVIOUS
  <2>6. Tied(NoLeases)
    BY <2>2 DEF NoLeases, Tied
  <2> QED
    BY <2>2, <2>4, <2>5, <2>6
<1>4. \A k \in 1..n : /\ Named(stored[k]) \in Lease /\ Named(stored[k]).ip = stored[k].ip
                      /\ Named(stored[k]).mac = stored[k].mac
  BY <1>1, NamedFacts DEF Same
<1>5. ASSUME NEW s, NEW k \in 1..n, Fine(s, k - 1)
      PROVE  Fine(addLease(New(s, Named(stored[k])), k).srv, k)
  <2> DEFINE l == Named(stored[k])
             u == New(s, l)
             t == addLease(u, k).srv
  <2>1. s \in Server /\ Pointers(s) /\ Sound(s) /\ Tied(s)
    BY <1>5 DEF Sound
  <2>2. Fresh(s) = k
    <3>1. DOMAIN s.obj = 1..Len(s.obj) /\ Len(s.obj) \in Nat
      BY <2>1, AtLease
    <3>2. 1..Len(s.obj) = 1..(k - 1)
      BY <1>5, <3>1
    <3>3. Len(s.obj) = k - 1
      BY <1>1, <3>1, <3>2
    <3> QED
      BY <1>1, <3>3 DEF Fresh
  <2>3. l \in Lease /\ l.ip = stored[k].ip /\ l.mac = stored[k].mac
    BY <1>4
  <2> HIDE DEF l
  <2>4. /\ u \in Server /\ Pointers(u) /\ Sound(u) /\ u.leases = s.leases
        /\ u.hostsIndex = s.hostsIndex /\ u.ipIndex = s.ipIndex
        /\ DOMAIN u.obj = DOMAIN s.obj \cup {k} /\ u.obj[k] = l
        /\ \A j \in DOMAIN s.obj : u.obj[j] = s.obj[j]
        /\ \A j \in DOMAIN s.leases : At(u, j) = At(s, j)
    BY <2>1, <2>2, <2>3, NewFacts
  <2> HIDE DEF u
  <2>5. DOMAIN u.obj = 1..k /\ \A j \in 1..k : u.obj[j] = Named(stored[j])
    <3>1. 1..k = (1..(k - 1)) \cup {k}
      OBVIOUS
    <3> QED
      BY <1>5, <2>4, <3>1 DEF l
  <2>6. \A j \in DOMAIN u.leases :
          At(u, j).ip # u.obj[k].ip /\ (At(u, j).mac # ZeroMac => At(u, j).mac # u.obj[k].mac)
    <3> SUFFICES ASSUME NEW j \in DOMAIN u.leases
                 PROVE  At(u, j).ip # u.obj[k].ip
                        /\ (At(u, j).mac # ZeroMac => At(u, j).mac # u.obj[k].mac)
      OBVIOUS
    <3>1. s.leases[j] \in 1..(k - 1) /\ At(u, j) = Named(stored[s.leases[j]])
      BY <1>5, <2>1, <2>4 DEF Pointers, At
    <3>2. s.leases[j] \in 1..n /\ s.leases[j] # k
      BY <1>1, <3>1
    <3> QED
      BY <1>1, <1>4, <2>3, <2>4, <3>1, <3>2
  <2>7. Sound(t) /\ Tied(t)
    <3>1. Tied(u)
      BY <2>1, <2>4, TiedSlice
    <3> QED
      BY <2>4, <2>6, <3>1, AddSound, AddTied
  <2>8. Len(s.leases) \in Nat /\ s.leases \in Seq(Nat)
    BY <2>1 DEF Server
  <2>9. ASSUME addLease(u, k).err
        PROVE  Fine(t, k)
    <3>1. t = u
      BY <2>9 DEF addLease
    <3> HIDE DEF t
    <3> QED
      BY <1>5, <2>4, <2>5, <2>7, <2>8, <3>1
  <2>10. ASSUME ~addLease(u, k).err
         PROVE  Fine(t, k)
    <3>1. t.obj = u.obj /\ t.leases = Append(u.leases, k)
      BY <2>4, <2>10, AddFacts
    <3> HIDE DEF t
    <3>2. t.leases = Append(s.leases, k)
      BY <2>4, <3>1
    <3>3. /\ Len(t.leases) = Len(s.leases) + 1 /\ t.leases[Len(s.leases) + 1] = k
          /\ \A j \in 1..Len(s.leases) : t.leases[j] = s.leases[j]
      BY <2>8, <3>2
    <3>4. Len(t.leases) <= k
      BY <1>5, <2>8, <3>3
    <3>5. ASSUME Len(t.leases) = k
          PROVE  \A j \in 1..k : t.leases[j] = j
      <4>1. Len(s.leases) = k - 1
        BY <2>8, <3>3, <3>5
      <4>2. \A j \in 1..(k - 1) : s.leases[j] = j
        BY <1>5, <4>1
      <4>3. \A j \in 1..k : j = k \/ j \in 1..(k - 1)
        OBVIOUS
      <4> QED
        BY <3>3, <4>1, <4>2, <4>3
    <3> QED
      BY <2>5, <2>7, <3>1, <3>4, <3>5
  <2>11. Fine(t, k)
    BY <2>9, <2>10
  <2> HIDE DEF Fine
  <2> QED
    BY <2>11 DEF t, u, l
<1> HIDE DEF f
<1>6. 0 \in S
  <2>1. Fine(f[0], 0)
    <3> HIDE DEF Fine
    <3> QED
      BY <1>2, <1>3
  <2> HIDE DEF Fine
  <2> QED
    BY <1>1, <2>1
<1>7. ASSUME NEW i \in 1..n, i - 1 \in S
      PROVE  i \in S
  <2>1. Fine(f[i - 1], i - 1) /\ f[i] = addLease(New(f[i - 1], Named(stored[i])), i).srv
    BY <1>2, <1>7
  <2> HIDE DEF Fine
  <2> QED
    BY <1>1, <1>5, <2>1
<1>8. n \in S
  <2>1. n \in Nat /\ n \in 0..n
    BY <1>1
  <2> HIDE DEF S, n
  <2> QED
    BY <1>6, <1>7, <2>1, Reaches
<1> DEFINE t == ResetLeases(stored)
<1>9. t = f[n]
  BY DEF ResetLeases, f
<1> HIDE DEF t
<1>10. Fine(t, n)
  BY <1>8, <1>9
<1>11. DOMAIN t.leases = 1..Len(t.leases)
  BY <1>10, AtLease DEF Sound
<1> QED
  BY <1>1, <1>10, <1>11 DEF t, At
-----------------------------------------------------------------------------
(* Removing a lease that has been looked up.                               *)
LEMMA RmLeaseFacts ==
    ASSUME NEW s \in Server, Pointers(s), NEW l
    PROVE  LET r == rmLease(s, l)
           IN  \/ r.srv = s /\ (r.err \/ s.leases = <<>>)
               \/ /\ ~r.err
                  /\ \E i \in DOMAIN s.leases :
                       At(s, i).ip = l.ip /\ r.srv = Removed(s, i)
<1> DEFINE at == {i \in DOMAIN s.leases : s.obj[s.leases[i]].ip = l.ip}
           i == Min(at)
           found == s.obj[s.leases[i]]
           t == rmLeaseByIndex(Start(s), i).srv
<1>1. rmLease(s, l) = IF s.leases = <<>> THEN [srv |-> s, err |-> FALSE]
                      ELSE IF at = {} \/ found.mac # l.mac \/ found.host # l.host
                      THEN [srv |-> s, err |-> TRUE]
                      ELSE [srv |-> t, err |-> FALSE]
  BY DEF rmLease
<1>2. at # {} => i \in at
  <2>1. at \in SUBSET Nat
    BY AtLease
  <2> HIDE DEF at
  <2> QED
    BY <2>1, MinFacts
<1>3. ASSUME at # {}
      PROVE  i \in DOMAIN s.leases /\ At(s, i).ip = l.ip /\ t = Removed(s, i)
  <2>1. i \in DOMAIN s.leases /\ At(s, i).ip = l.ip
    BY <1>2, <1>3 DEF At
  <2>2. Start(s) \in RmState /\ Start(s).srv = s /\ Start(s).arr = s.leases
    BY DEF Start, RmState, Server
  <2>3. ArrayOK(s, s.leases)
    <3>1. Len(s.leases) \in Nat
      BY AtLease
    <3> QED
      BY <3>1 DEF ArrayOK, Pointers
  <2> HIDE DEF i
  <2>4. rmLeaseByIndex(Start(s), i).srv = Removed(s, i)
    BY <2>1, <2>2, <2>3, ByIndexFacts
  <2> QED
    BY SMTT(30), <2>1, <2>4 DEF i
<1> HIDE DEF at, i, t, found
<1> QED
  BY <1>1, <1>3

(* What an administrator's request leaves: static leases and some of those *)
(* there were.                                                             *)
Replaced(s, t) ==
    \A k \in DOMAIN t.leases :
        At(t, k).static \/ \E j \in DOMAIN s.leases : Same(At(t, k), At(s, j))

LEMMA RemovedReplaced ==
    ASSUME NEW s \in Server, Pointers(s), NEW i \in DOMAIN s.leases
    PROVE  Replaced(s, Removed(s, i))
<1> DEFINE t == Removed(s, i)
<1>1. \A k \in DOMAIN t.leases : /\ Gap(i, k) \in DOMAIN s.leases \ {i}
                                 /\ t.leases[k] = s.leases[Gap(i, k)]
                                 /\ At(t, k) = At(s, Gap(i, k))
  BY RemovedFacts
<1> HIDE DEF t
<1> QED
  BY <1>1 DEF Replaced, Same, t

(* A static lease appended.                                                *)
LEMMA AddStaticFacts ==
    ASSUME NEW s, NEW t \in Server, Pointers(t), Replaced(s, t),
           NEW id \in DOMAIN t.obj, t.obj[id].static
    PROVE  Replaced(s, addLease(t, id).srv)
<1> DEFINE u == addLease(t, id).srv
<1>1. CASE addLease(t, id).err
  BY <1>1 DEF addLease
<1>2. CASE ~addLease(t, id).err
  <2>1. u.obj = t.obj /\ u.leases = Append(t.leases, id)
    BY <1>2, AddFacts
  <2>2. t.leases \in Seq(Nat) /\ id \in Nat
    BY AtLease DEF Server
  <2> HIDE DEF u
  <2>3. \A k \in DOMAIN u.leases :
          (k \in DOMAIN t.leases /\ u.leases[k] = t.leases[k]) \/ u.leases[k] = id
    BY <2>1, <2>2
  <2>4. \A k \in DOMAIN u.leases :
          At(u, k).static \/ (k \in DOMAIN t.leases /\ At(u, k) = At(t, k))
    BY <2>1, <2>3 DEF At
  <2> QED
    BY <2>4 DEF Replaced, u
<1> QED
  BY <1>1, <1>2

(* UpdateStaticLease: validateStaticLease relies on the index by address.  *)
LEMMA ReplaceFacts ==
    ASSUME NEW s, Sound(s), NEW m \in Macs, NEW ip \in IPs, NEW h \in AdminHosts,
           findLease(s, m) # None, validateStaticLease(s, StaticLease(m, ip, h))
    PROVE  LET t == ReplaceLease(s, findLease(s, m), StaticLease(m, ip, h)).srv
           IN  /\ Sound(t) /\ DOMAIN s.obj \subseteq DOMAIN t.obj /\ Replaced(s, t)
               /\ Tied(s) => Tied(t)
<1> DEFINE l == StaticLease(m, ip, h)
           found == findLease(s, m)
           rm == rmLease(s, s.obj[found])
           u == New(rm.srv, l)
           id == Fresh(rm.srv)
           t == ReplaceLease(s, found, l).srv
<1>1. s \in Server /\ Pointers(s) /\ Apart(s) /\ Covered(s)
  BY DEF Sound
<1>2. l \in Lease /\ l.mac = m /\ l.ip = ip /\ l.static
  BY ConstantsAssumption DEF StaticLease, Lease
<1>3. PICK k \in DOMAIN s.leases : found = s.leases[k] /\ At(s, k).mac = m
  BY <1>1, FindFacts
<1>4. t = IF rm.err THEN rm.srv ELSE addLease(u, id).srv
  BY DEF ReplaceLease
<1>5. Replaced(s, s)
  BY DEF Replaced, Same
<1>6. s.leases # <<>>
  <2>1. DOMAIN s.leases # {}
    BY <1>3
  <2> QED
    BY <2>1
<1>7. \/ rm.srv = s /\ rm.err
      \/ ~rm.err /\ rm.srv = Removed(s, k)
  <2>1. s.obj[found] = At(s, k)
    BY <1>3 DEF At
  <2>2. \/ rm.srv = s /\ rm.err
        \/ /\ ~rm.err
           /\ \E i \in DOMAIN s.leases : At(s, i).ip = s.obj[found].ip /\ rm.srv = Removed(s, i)
    BY <1>1, <1>6, RmLeaseFacts
  <2> HIDE DEF rm
  <2> QED
    BY <1>1, <2>1, <2>2 DEF Apart
<1> HIDE DEF rm, t, l, found
<1>8. CASE rm.srv = s /\ rm.err
  BY <1>4, <1>5, <1>8 DEF t, l, found
<1>9. CASE ~rm.err /\ rm.srv = Removed(s, k)
  <2> DEFINE v == Removed(s, k)
  <2>1. /\ v \in Server /\ Pointers(v) /\ v.obj = s.obj
        /\ \A j \in DOMAIN v.leases : /\ Gap(k, j) \in DOMAIN s.leases \ {k}
                                      /\ v.leases[j] = s.leases[Gap(k, j)]
                                      /\ At(v, j) = At(s, Gap(k, j))
    BY <1>1, RemovedFacts
  <2>2. Sound(v) /\ Replaced(s, v)
    BY <1>1, RemovedSound, RemovedReplaced
  <2> HIDE DEF v
  <2>3. /\ u \in Server /\ Pointers(u) /\ Sound(u) /\ u.leases = v.leases
        /\ u.hostsIndex = v.hostsIndex /\ u.ipIndex = v.ipIndex
        /\ DOMAIN u.obj = DOMAIN v.obj \cup {id} /\ u.obj[id] = l
        /\ \A j \in DOMAIN v.leases : At(u, j) = At(v, j)
    BY <1>2, <1>9, <2>1, <2>2, NewFacts DEF v
  <2> HIDE DEF u, id
  <2>4. \A j \in DOMAIN s.leases \ {k} : At(s, j).ip # ip /\ At(s, j).mac # m
    <3> SUFFICES ASSUME NEW j \in DOMAIN s.leases \ {k}
                 PROVE  At(s, j).ip # ip /\ At(s, j).mac # m
      OBVIOUS
    <3>1. At(s, j).mac # m
      BY <1>1, <1>3, ConstantsAssumption DEF Apart
    <3>2. ASSUME At(s, j).ip = ip
          PROVE  FALSE
      <4>1. s.ipIndex[ip] = s.leases[j] /\ s.leases[j] # None
        BY <1>1, <3>2, AtLease DEF Covered, Pointers
      <4>2. s.obj[s.ipIndex[ip]].mac = m
        BY <1>2, <4>1 DEF validateStaticLease, l
      <4> QED
        BY <3>1, <4>1, <4>2 DEF At
    <3> QED
      BY <3>1, <3>2
  <2>5. \A j \in DOMAIN u.leases :
          At(u, j).ip # u.obj[id].ip /\ (At(u, j).mac # ZeroMac => At(u, j).mac # u.obj[id].mac)
    BY <1>2, <2>1, <2>3, <2>4
  <2>6. /\ Sound(addLease(u, id).srv)
        /\ Tied(s) => Tied(addLease(u, id).srv)
    <3>1. Tied(s) => Tied(v)
      BY RemovedTied DEF v
    <3>2. Tied(s) => Tied(u)
      BY <2>3, <3>1, TiedSlice
    <3> QED
      BY <2>3, <2>5, <3>2, AddSound, AddTied
  <2>7. Replaced(s, u)
    BY <2>2, <2>3 DEF Replaced
  <2>8. Replaced(s, addLease(u, id).srv)
    BY <1>2, <2>3, <2>7, AddStaticFacts
  <2>9. addLease(u, id).srv.obj = u.obj
    <3>1. CASE addLease(u, id).err
      BY <3>1 DEF addLease
    <3>2. CASE ~addLease(u, id).err
      BY <2>3, <3>2, AddFacts
    <3> QED
      BY <3>1, <3>2
  <2>10. t = addLease(u, id).srv
    BY <1>4, <1>9 DEF u, id
  <2> QED
    BY <2>1, <2>3, <2>6, <2>8, <2>9, <2>10 DEF t, l, found
<1> QED
  BY <1>7, <1>8, <1>9
(* AddStaticLease, unless rmDynamicLease has left something behind.        *)
LEMMA UpdateStaticFacts ==
    ASSUME NEW s, Sound(s), NEW m \in Macs, NEW ip \in IPs, NEW h \in AdminHosts,
           updateStaticLease(s, StaticLease(m, ip, h)).skip = {}
    PROVE  LET t == updateStaticLease(s, StaticLease(m, ip, h)).srv
           IN  /\ Sound(t) /\ DOMAIN s.obj \subseteq DOMAIN t.obj /\ Replaced(s, t)
               /\ Tied(s) /\ BlankIf(s, t) = {} => Tied(t)
<1> DEFINE l == StaticLease(m, ip, h)
           u == New(s, l)
           id == Fresh(s)
           rm == rmDynamicLease(u, id)
           v == rm.srv
           t == updateStaticLease(s, l).srv
<1>1. s \in Server /\ Pointers(s)
  BY DEF Sound
<1>2. l \in Lease /\ l.mac = m /\ l.ip = ip /\ l.static
  BY ConstantsAssumption DEF StaticLease, Lease
<1>3. /\ t = IF rm.err THEN v ELSE addLease(v, id).srv
      /\ rm.err \/ SkipIf(v, l.mac, l.ip) = {}
  BY DEF updateStaticLease
<1> HIDE DEF l
<1>4. /\ u \in Server /\ Pointers(u) /\ Sound(u) /\ u.leases = s.leases
      /\ u.hostsIndex = s.hostsIndex /\ u.ipIndex = s.ipIndex
      /\ id \notin DOMAIN s.obj /\ \A i \in DOMAIN s.obj : u.obj[i] = s.obj[i]
      /\ DOMAIN u.obj = DOMAIN s.obj \cup {id} /\ u.obj[id] = l
      /\ \A k \in DOMAIN s.leases : At(u, k) = At(s, k)
  BY <1>1, <1>2, NewFacts
<1> HIDE DEF u, id
<1>5. Thinned(u, v, l.mac, l.ip)
  BY <1>4, RmDynamicFacts
<1>6. ASSUME Tied(s)
      PROVE  \/ Tied(v) /\ v.obj = u.obj
             \/ \E j \in Range(s.leases) \cap Range(v.leases) :
                  s.obj[j].host # NoHost /\ v.obj[j].host = NoHost
  <2>1. Tied(u)
    BY <1>4, <1>6, TiedSlice
  <2>2. \/ Tied(v) /\ v.obj = u.obj
        \/ Emptied(u, v, id, Len(u.leases))
    BY <1>4, <2>1, RmDynamicTied
  <2>3. CASE Emptied(u, v, id, Len(u.leases))
    <3> HIDE DEF v
    <3>1. PICK k \in DOMAIN v.leases :
            u.obj[v.leases[k]].host # NoHost /\ v.obj[v.leases[k]].host = NoHost
      BY <2>3 DEF Emptied
    <3>2. v.leases[k] \in Range(v.leases) /\ Range(v.leases) \subseteq Range(u.leases)
      BY <1>5 DEF Range, Thinned
    <3>3. v.leases[k] \in Range(s.leases) /\ v.leases[k] \in DOMAIN s.obj
      BY <1>1, <1>4, <3>2 DEF Pointers, Range
    <3> QED
      BY <1>4, <3>1, <3>2, <3>3
  <2> QED
    BY <2>2, <2>3
<1> HIDE DEF rm
<1>7. /\ Sound(v) /\ v \in Server /\ Pointers(v) /\ DOMAIN v.obj = DOMAIN u.obj
      /\ \A j \in DOMAIN u.obj : Same(v.obj[j], u.obj[j])
      /\ Range(v.leases) \subseteq Range(u.leases)
  BY <1>4, <1>5 DEF Thinned
<1>8. v.obj[id].mac = m /\ v.obj[id].ip = ip /\ v.obj[id].static
  BY <1>2, <1>4, <1>7 DEF Same
<1>9. Replaced(s, v)
  <2> SUFFICES ASSUME NEW k \in DOMAIN v.leases
               PROVE  \E j \in DOMAIN s.leases : Same(At(v, k), At(s, j))
    BY DEF Replaced
  <2>1. PICK j \in DOMAIN u.leases : v.leases[k] = u.leases[j]
    BY <1>7 DEF Range
  <2>2. u.leases[j] \in DOMAIN u.obj
    BY <1>4, <2>1 DEF Pointers
  <2>3. Same(At(v, k), At(u, j))
    BY <1>7, <2>1, <2>2 DEF At
  <2> QED
    BY <1>4, <2>1, <2>3
<1>10. CASE rm.err
  <2>1. Tied(s) /\ BlankIf(s, v) = {} => Tied(v)
    BY <1>6 DEF BlankIf, When
  <2> QED
    BY <1>3, <1>4, <1>7, <1>9, <1>10, <2>1 DEF t, l
<1>11. CASE ~rm.err
  <2>1. \A j \in Range(v.leases) : v.obj[j].mac # m /\ v.obj[j].ip # ip
    BY <1>2, <1>3, <1>11 DEF SkipIf, When
  <2>2. \A k \in DOMAIN v.leases :
          At(v, k).ip # v.obj[id].ip /\ (At(v, k).mac # ZeroMac => At(v, k).mac # v.obj[id].mac)
    BY <1>8, <2>1 DEF Range, At
  <2>3. id \in DOMAIN v.obj
    BY <1>4, <1>7
  <2>4. Sound(addLease(v, id).srv)
    BY <1>7, <2>2, <2>3, AddSound
  <2>5. Replaced(s, addLease(v, id).srv)
    BY <1>7, <1>8, <1>9, <2>3, AddStaticFacts
  <2>6. addLease(v, id).srv.obj = v.obj
    <3>1. CASE addLease(v, id).err
      BY <3>1 DEF addLease
    <3>2. CASE ~addLease(v, id).err
      BY <1>7, <2>3, <3>2, AddFacts
    <3> QED
      BY <3>1, <3>2
  <2>7. t = addLease(v, id).srv
    BY <1>3, <1>11
  <2>8. ASSUME Tied(s), BlankIf(s, t) = {}
        PROVE  Tied(t)
    <3>1. Range(v.leases) \subseteq Range(t.leases)
      <4>1. CASE addLease(v, id).err
        BY <2>7, <4>1 DEF addLease
      <4>2. CASE ~addLease(v, id).err
        <5>1. t.leases = Append(v.leases, id)
          BY ZenonT(30), <1>7, <2>3, <2>7, <4>2, AddFacts
        <5>2. v.leases \in Seq(Nat)
          BY <1>7 DEF Server
        <5>3. \A k \in DOMAIN v.leases : k \in DOMAIN t.leases /\ t.leases[k] = v.leases[k]
          <6> HIDE DEF t, v
          <6> QED
            BY <5>1, <5>2
        <5> QED
          BY <5>3 DEF Range
      <4> QED
        BY <4>1, <4>2
    <3>2. ~\E j \in Range(s.leases) \cap Range(v.leases) :
             s.obj[j].host # NoHost /\ v.obj[j].host = NoHost
      <4> HIDE DEF t, v
      <4> QED
        BY <2>6, <2>7, <2>8, <3>1 DEF BlankIf, When
    <3>3. Tied(v)
      BY <1>6, <2>8, <3>2
    <3> QED
      BY <1>7, <2>2, <2>3, <2>7, <3>3, AddTied
  <2> QED
    BY <1>4, <1>7, <2>4, <2>5, <2>6, <2>7, <2>8 DEF t, l
<1> QED
  BY <1>10, <1>11

(* What commitLease makes of s, as a record.                               *)
CommitHost(s, id, h) ==
    LET want == validHostnameForClient(h, s.obj[id].ip)
    IN  IF s.hostsIndex[want] = None THEN want
        ELSE IF s.obj[id].host = NoHost THEN Gen(s.obj[id].ip) ELSE s.obj[id].host

Committed(s, id, h) ==
    LET l == s.obj[id]
        host == CommitHost(s, id, h)
    IN  [obj |-> Put(s, id, [mac |-> l.mac, ip |-> l.ip, host |-> host,
                             exp |-> now + LeaseTime, static |-> l.static]).obj,
         leases |-> s.leases,
         hostsIndex |-> [n \in Names |-> IF n = host THEN id
                                         ELSE IF n = l.host THEN None ELSE s.hostsIndex[n]],
         ipIndex |-> [s.ipIndex EXCEPT ![l.ip] = id],
         leasedOffsets |-> s.leasedOffsets]

LEMMA CommitIs ==
    ASSUME NEW s \in Server, Pointers(s), NEW id \in DOMAIN s.obj, NEW h
    PROVE  commitLease(s, id, h) = Committed(s, id, h)
<1> DEFINE l == s.obj[id]
           host == CommitHost(s, id, h)
           e == now + LeaseTime
           hi == [n \in Names |-> IF n = host THEN id
                                  ELSE IF n = l.host THEN None ELSE s.hostsIndex[n]]
           ii == [s.ipIndex EXCEPT ![l.ip] = id]
           m == [mac |-> l.mac, ip |-> l.ip, host |-> host, exp |-> e, static |-> l.static]
           p == Put(s, id, m)
           t == [obj |-> p.obj, leases |-> s.leases, hostsIndex |-> hi, ipIndex |-> ii,
                 leasedOffsets |-> s.leasedOffsets]
<1>1. s \in Server /\ Pointers(s)
  OBVIOUS
<1>2. id \in DOMAIN s.obj /\ l \in Lease /\ s.obj \in Seq(Lease)
  BY AtLease DEF Server
<1>4. commitLease(s, id, h) = [[[[s EXCEPT !.obj[id].host = host] EXCEPT !.obj[id].exp = e]
                                 EXCEPT !.hostsIndex = [n \in Names |->
                                   IF n = host THEN id ELSE IF n = l.host THEN None ELSE @[n]]]
                                 EXCEPT !.ipIndex[l.ip] = id]
  BY DEF commitLease, CommitHost
<1>6. Committed(s, id, h) = t
  BY DEF Committed
<1> HIDE DEF host, e
<1>5. commitLease(s, id, h) = t
  <2> DEFINE R(o, x, y) == [obj |-> o, leases |-> s.leases, hostsIndex |-> x,
                            ipIndex |-> y, leasedOffsets |-> s.leasedOffsets]
             l1 == [l EXCEPT !.host = host]
             l2 == [l1 EXCEPT !.exp = e]
             o1 == [s.obj EXCEPT ![id] = l1]
             o2 == [o1 EXCEPT ![id] = l2]
  <2>1. s = R(s.obj, s.hostsIndex, s.ipIndex)
    BY <1>1 DEF Server
  <2>2. [s EXCEPT !.obj[id].host = host] = R(o1, s.hostsIndex, s.ipIndex)
    BY <1>1, PutHost DEF Put
  <2>3. o1[id] = l1 /\ DOMAIN o1 = DOMAIN s.obj
    BY <1>2
  <2>4. [R(o1, s.hostsIndex, s.ipIndex) EXCEPT !.obj[id].exp = e] = R(o2, s.hostsIndex, s.ipIndex)
    <3> HIDE DEF o1, l1
    <3> QED
      BY <2>3
  <2>5. o2 = p.obj
    <3>1. l1 = [mac |-> l.mac, ip |-> l.ip, host |-> host, exp |-> l.exp, static |-> l.static]
      <4>1. l = [mac |-> l.mac, ip |-> l.ip, host |-> l.host, exp |-> l.exp, static |-> l.static]
        BY <1>2 DEF Lease
      <4> HIDE DEF l
      <4> QED
        BY <4>1
    <3> HIDE DEF l1, l
    <3>2. l2 = m
      BY <3>1 DEF m
    <3>3. p.obj = [s.obj EXCEPT ![id] = m]
      BY DEF Put
    <3> HIDE DEF l2, m
    <3> QED
      BY <1>2, <3>2, <3>3
  <2> HIDE DEF o1, o2, p, l
  <2>6. [R(o2, s.hostsIndex, s.ipIndex) EXCEPT !.hostsIndex = [n \in Names |->
           IF n = host THEN id ELSE IF n = l.host THEN None ELSE @[n]]]
        = R(o2, hi, s.ipIndex)
    OBVIOUS
  <2> HIDE DEF hi
  <2>7. [R(o2, hi, s.ipIndex) EXCEPT !.ipIndex[l.ip] = id] = R(o2, hi, ii)
    OBVIOUS
  <2> HIDE DEF ii
  <2>8. t = R(o2, hi, ii)
    BY <2>5
  <2> DEFINE x1 == [s EXCEPT !.obj[id].host = host]
             x2 == [x1 EXCEPT !.obj[id].exp = e]
             x3 == [x2 EXCEPT !.hostsIndex = [n \in Names |->
                      IF n = host THEN id ELSE IF n = l.host THEN None ELSE @[n]]]
             x4 == [x3 EXCEPT !.ipIndex[l.ip] = id]
  <2>9. commitLease(s, id, h) = x4
    BY <1>4
  <2> HIDE DEF R, t
  <2>10. x1 = R(o1, s.hostsIndex, s.ipIndex)
    BY <2>2
  <2> HIDE DEF x1
  <2>11. x2 = R(o2, s.hostsIndex, s.ipIndex)
    BY <2>4, <2>10
  <2> HIDE DEF x2
  <2>12. x3 = R(o2, hi, s.ipIndex)
    BY <2>6, <2>11
  <2> HIDE DEF x3
  <2>13. x4 = R(o2, hi, ii)
    BY <2>7, <2>12
  <2> HIDE DEF x4
  <2> QED
    BY <2>8, <2>9, <2>13
<1> QED
  BY <1>5, <1>6

(* A commit of a lease that is still the client's.                         *)
LEMMA CommitFacts ==
    ASSUME NEW s, Sound(s), NEW k \in DOMAIN s.leases, NEW h \in Hosts \cup {NoHost},
           now \in Nat
    PROVE  LET t == commitLease(s, s.leases[k], h)
           IN  /\ Sound(t) /\ DOMAIN t.obj = DOMAIN s.obj /\ t.leases = s.leases
               /\ At(t, k).mac = At(s, k).mac /\ At(t, k).ip = At(s, k).ip
               /\ At(t, k).exp = now + LeaseTime
               /\ \A j \in DOMAIN s.leases \ {k} : At(t, j) = At(s, j)
               /\ Tied(s) /\ (At(t, k).host = At(s, k).host \/ s.hostsIndex[At(t, k).host] = None)
                  => Tied(t)
<1> DEFINE id == s.leases[k]
           l == s.obj[id]
           want == validHostnameForClient(h, l.ip)
           host == IF s.hostsIndex[want] = None THEN want
                   ELSE IF l.host = NoHost THEN Gen(l.ip) ELSE l.host
           e == now + LeaseTime
           hi == [n \in Names |-> IF n = host THEN id
                                  ELSE IF n = l.host THEN None ELSE s.hostsIndex[n]]
           ii == [s.ipIndex EXCEPT ![l.ip] = id]
           m == [mac |-> l.mac, ip |-> l.ip, host |-> host, exp |-> e, static |-> l.static]
           p == Put(s, id, m)
           t == [obj |-> p.obj, leases |-> s.leases, hostsIndex |-> hi, ipIndex |-> ii,
                 leasedOffsets |-> s.leasedOffsets]
<1>1. s \in Server /\ Pointers(s) /\ Apart(s) /\ Covered(s)
  BY DEF Sound
<1>2. id \in DOMAIN s.obj /\ l = At(s, k) /\ l \in Lease /\ s.obj \in Seq(Lease)
  BY <1>1, AtLease DEF Pointers, At, Server
<1>3. host \in Names /\ e \in Nat /\ l.ip \in IPs
  <2>1. h \in Names /\ l.host \in Names /\ l.ip \in IPs /\ Gen(l.ip) \in Names
    BY <1>2 DEF Names, Lease
  <2>2. want \in Names
    BY <2>1 DEF validHostnameForClient
  <2>3. e \in Nat
    BY ConstantsAssumption
  <2> QED
    BY <2>1, <2>2, <2>3
<1> HIDE DEF host, e
<1>5. commitLease(s, id, h) = t
  <2>1. commitLease(s, id, h) = Committed(s, id, h)
    BY <1>1, <1>2, CommitIs
  <2>2. host = CommitHost(s, id, h)
    BY DEF host, CommitHost
  <2> QED
    BY <2>1, <2>2 DEF Committed, e
<1>6. m \in Lease /\ m.ip = l.ip /\ m.mac = l.mac /\ m.exp = e /\ m.host = host
  BY <1>2, <1>3 DEF Lease
<1>7. /\ p \in Server /\ Pointers(p) /\ DOMAIN p.obj = DOMAIN s.obj
      /\ p.leases = s.leases /\ p.leasedOffsets = s.leasedOffsets
  <2> HIDE DEF m
  <2> QED
    BY <1>1, <1>2, <1>6, PutFacts
<1>8. m.mac # ZeroMac => \A j \in DOMAIN s.leases \ {k} : At(s, j).mac # m.mac
  BY <1>1, <1>2, <1>6 DEF Apart
<1> HIDE DEF m
<1>9. /\ Sound(p) /\ At(p, k) = m
      /\ \A j \in DOMAIN s.leases \ {k} : At(p, j) = At(s, j)
  BY <1>2, <1>6, <1>8, PutSound
<1> HIDE DEF p
<1>10. /\ hi \in [Names -> Nat \cup {None}] /\ ii \in [IPs -> Nat \cup {None}]
       /\ \A n \in Names : hi[n] \in DOMAIN s.obj \cup {None}
       /\ \A n \in Names : hi[n] = IF n = host THEN id
                                    ELSE IF n = l.host THEN None ELSE s.hostsIndex[n]
       /\ \A ip \in IPs : ii[ip] \in DOMAIN s.obj \cup {None}
       /\ ii = s.ipIndex
  <2>1. id \in Nat
    BY <1>1, <1>2, AtLease
  <2>2. s.ipIndex \in [IPs -> Nat \cup {None}] /\ s.hostsIndex \in [Names -> Nat \cup {None}]
    BY <1>1 DEF Server
  <2>3. s.ipIndex[l.ip] = id
    BY <1>1, <1>2 DEF Covered
  <2> HIDE DEF id, l
  <2> QED
    BY <1>1, <1>2, <1>3, <2>1, <2>2, <2>3 DEF Pointers
<1> HIDE DEF hi, ii
<1>11. /\ t \in Server /\ t.obj = p.obj /\ t.leases = s.leases /\ t.ipIndex = s.ipIndex
       /\ t.hostsIndex = hi /\ t.leasedOffsets = s.leasedOffsets
  BY <1>1, <1>7, <1>10 DEF Server
<1> HIDE DEF t
<1>12. Pointers(t)
  BY <1>7, <1>10, <1>11 DEF Pointers
<1>13. \A j \in DOMAIN s.leases : At(t, j) = At(p, j)
  BY <1>7, <1>11 DEF At
<1>14. Sound(t)
  <2>1. \A j \in DOMAIN s.leases : At(t, j).mac = At(s, j).mac /\ At(t, j).ip = At(s, j).ip
    BY <1>2, <1>6, <1>9, <1>13
  <2> QED
    BY <1>11, <1>12, <2>1, SameSlice
<1>15. At(t, k).exp = now + LeaseTime
  BY <1>6, <1>9, <1>13 DEF e
<1>16. At(t, k) = m /\ \A j \in DOMAIN s.leases \ {k} : At(t, j) = At(s, j)
  BY <1>9, <1>13
<1>17. ASSUME Tied(s), host = l.host \/ s.hostsIndex[host] = None
       PROVE  Tied(t)
  <2>1. /\ \A j \in DOMAIN s.leases : s.leases[j] # None /\ At(s, j).host \in Names
        /\ At(s, k).host = l.host /\ At(t, k).host = host
    BY <1>1, <1>2, <1>6, <1>16, AtLease DEF Pointers, Lease
  <2>2. ASSUME NEW j \in DOMAIN s.leases, At(t, j).host # NoHost
        PROVE  t.hostsIndex[At(t, j).host] = s.leases[j]
    <3>1. CASE j = k
      BY <1>3, <1>10, <1>11, <2>1, <3>1
    <3>2. CASE j # k
      <4> DEFINE g == At(s, j).host
      <4>1. At(t, j).host = g /\ g \in Names /\ g # NoHost
        BY <1>16, <2>1, <2>2, <3>2
      <4>2. s.hostsIndex[g] = s.leases[j] /\ s.leases[j] # None
        BY <1>17, <2>1, <4>1 DEF Tied
      <4>3. g # l.host
        <5>1. SUFFICES ASSUME g = l.host
                       PROVE  FALSE
          OBVIOUS
        <5>2. s.hostsIndex[l.host] = s.leases[k]
          BY <1>17, <2>1, <4>1, <5>1 DEF Tied
        <5> QED
          BY <3>2, <4>2, <5>1, <5>2, PlacesApart
      <4>4. g # host
        BY <1>17, <4>2, <4>3
      <4> QED
        BY <1>10, <1>11, <4>1, <4>2, <4>3, <4>4
    <3> QED
      BY <3>1, <3>2
  <2>3. ASSUME NEW ip \in IPs, t.ipIndex[ip] # None
        PROVE  \E j \in DOMAIN s.leases : s.leases[j] = t.ipIndex[ip] /\ At(t, j).ip = ip
    <3>1. PICK j \in DOMAIN s.leases : s.leases[j] = t.ipIndex[ip] /\ At(s, j).ip = ip
      BY <1>11, <1>17, <2>3 DEF Tied
    <3>2. At(t, j).ip = At(s, j).ip
      BY <1>2, <1>6, <1>16
    <3> QED
      BY <3>1, <3>2
  <2>4. ASSUME NEW g \in Names, t.hostsIndex[g] # None
        PROVE  \E j \in DOMAIN s.leases : s.leases[j] = t.hostsIndex[g] /\ At(t, j).host = g
    <3>1. CASE g = host
      BY <1>10, <1>11, <2>1, <3>1
    <3>2. CASE g # host
      <4>1. g # l.host /\ t.hostsIndex[g] = s.hostsIndex[g]
        BY <1>10, <1>11, <2>4, <3>2
      <4>2. PICK j \in DOMAIN s.leases : s.leases[j] = s.hostsIndex[g] /\ At(s, j).host = g
        BY <1>17, <2>4, <4>1 DEF Tied
      <4>3. j # k
        BY <2>1, <4>1, <4>2
      <4> QED
        BY <1>16, <4>1, <4>2, <4>3
    <3> QED
      BY <3>1, <3>2
  <2> QED
    BY <1>11, <2>2, <2>3, <2>4 DEF Tied
<1> QED
  BY <1>2, <1>5, <1>6, <1>7, <1>9, <1>11, <1>14, <1>15, <1>16, <1>17
-----------------------------------------------------------------------------
(* Who is backed stays backed.                                             *)
LEMMA StoredFacts ==
    ASSUME NEW s, Sound(s)
    PROVE  ApartIn(Stored(s)) /\ Stored(s) = {At(s, k) : k \in DOMAIN s.leases}
<1>1. s \in Server /\ Pointers(s) /\ Apart(s)
  BY DEF Sound
<1>2. /\ DOMAIN s.leases = 1..Len(s.leases) /\ Len(s.leases) \in Nat
      /\ \A k \in DOMAIN s.leases : At(s, k) \in Lease
  BY <1>1, AtLease
<1>3. Stored(s) = {At(s, k) : k \in DOMAIN s.leases}
  BY DEF Stored, Range, At
<1> DEFINE f == [k \in DOMAIN s.leases |-> At(s, k)]
<1>4. IsFiniteSet(DOMAIN s.leases)
  BY <1>2, FS_Interval
<1>5. f \in Surjection(DOMAIN s.leases, Stored(s))
  BY <1>3 DEF Surjection
<1> HIDE DEF f
<1>6. IsFiniteSet(Stored(s))
  BY <1>4, <1>5, FS_Surjection
<1> QED
  BY <1>1, <1>2, <1>3, <1>6 DEF ApartIn, Apart

LEMMA GrownBacked ==
    ASSUME NEW s, Sound(s), NEW t, Grown(s, t), now \in Nat, NEW m,
           NEW a \in AckType \cup {None}, a # None => a.exp > now, BackedBy(a, m, s)
    PROVE  BackedBy(a, m, t)
<1> SUFFICES ASSUME a # None
             PROVE  \E k \in DOMAIN t.leases :
                      /\ At(t, k).mac = m /\ At(t, k).ip = a.ip
                      /\ At(t, k).static \/ At(t, k).exp >= a.exp
  BY DEF BackedBy
<1>1. PICK k \in DOMAIN s.leases :
        /\ At(s, k).mac = m /\ At(s, k).ip = a.ip
        /\ At(s, k).static \/ At(s, k).exp >= a.exp
  BY DEF BackedBy
<1>2. At(s, k).exp \in Nat /\ a.exp \in Nat
  <2>1. At(s, k) \in Lease
    BY AtLease DEF Sound
  <2> QED
    BY <2>1 DEF Lease, AckType
<1>3. ~Expired(At(s, k))
  BY <1>1, <1>2 DEF Expired
<1> QED
  BY <1>1, <1>3 DEF Grown, Same

(* An administrator's request, unless it takes a lease away.               *)
LEMMA ReplacedBacked ==
    ASSUME NEW s, Sound(s), NEW t, Sound(t), Replaced(s, t), EvictIf(t) = {},
           NEW m \in Macs, BackedBy(ack[m], m, s)
    PROVE  BackedBy(ack[m], m, t)
<1> SUFFICES ASSUME ack[m] # None
             PROVE  \E k \in DOMAIN t.leases :
                      /\ At(t, k).mac = m /\ At(t, k).ip = ack[m].ip
                      /\ At(t, k).static \/ At(t, k).exp >= ack[m].exp
  BY DEF BackedBy
<1>1. PICK id \in Range(t.leases) : t.obj[id].mac = m /\ t.obj[id].ip = ack[m].ip
  BY DEF EvictIf, When
<1>2. PICK k \in DOMAIN t.leases : At(t, k).mac = m /\ At(t, k).ip = ack[m].ip
  BY <1>1 DEF Range, At
<1>3. CASE At(t, k).static
  BY <1>2, <1>3
<1>4. CASE ~At(t, k).static
  <2>1. PICK j \in DOMAIN s.leases : Same(At(t, k), At(s, j))
    BY <1>4 DEF Replaced
  <2>2. PICK i \in DOMAIN s.leases :
          /\ At(s, i).mac = m /\ At(s, i).ip = ack[m].ip
          /\ At(s, i).static \/ At(s, i).exp >= ack[m].exp
    BY DEF BackedBy
  <2>3. i = j
    BY <1>2, <2>1, <2>2 DEF Same, Sound, Apart
  <2> QED
    BY <1>2, <2>1, <2>2, <2>3 DEF Same
<1> QED
  BY <1>3, <1>4

(* Without a lease of the client with the address handleRelease changes    *)
(* nothing.                                                                *)
LEMMA ReleaseNothing ==
    ASSUME NEW s \in Server, Pointers(s), NEW mac, NEW ip,
           \A k \in DOMAIN s.leases : ~(At(s, k).mac = mac /\ At(s, k).ip = ip)
    PROVE  ReleaseLeases(s, mac, ip).srv = s
<1> DEFINE n == Len(s.leases)
           f == ReleaseLoop(s, mac, ip)
           x == [srv |-> s, arr |-> s.leases, err |-> FALSE]
           S == {i \in 0..n : f[i] = x}
<1>1. DOMAIN s.leases = 1..n /\ n \in Nat
  BY AtLease
<1>2. f[0] = x /\ \A i \in 1..n : f[i] = ReleaseStep(f[i - 1], i, mac, ip)
  BY <1>1, ReleaseLoopDef
<1>3. ASSUME NEW i \in 1..n
      PROVE  ReleaseStep(x, i, mac, ip) = x
  <2>1. ~(s.obj[s.leases[i]].mac = mac /\ s.obj[s.leases[i]].ip = ip)
    BY <1>1 DEF At
  <2> QED
    BY <2>1 DEF ReleaseStep
<1> HIDE DEF f, x
<1>4. 0 \in S
  BY <1>1, <1>2
<1>5. \A i \in 1..n : i - 1 \in S => i \in S
  BY <1>1, <1>2, <1>3
<1>6. n \in S
  <2>1. n \in Nat /\ n \in 0..n
    BY <1>1
  <2> HIDE DEF S, n
  <2> QED
    BY <1>4, <1>5, <2>1, Reaches
<1>7. ReleaseLeases(s, mac, ip) = x
  BY <1>6 DEF ReleaseLeases, f
<1> QED
  BY <1>7 DEF x

LEMMA ReleaseBacked ==
    ASSUME NEW s, Sound(s), NEW mac \in Macs, NEW ip, NEW m, NEW a,
           BackedBy(a, m, s), m = mac /\ a # None => a.ip # ip
    PROVE  BackedBy(a, m, ReleaseLeases(s, mac, ip).srv)
<1> DEFINE t == ReleaseLeases(s, mac, ip).srv
<1>1. s \in Server /\ Pointers(s) /\ Apart(s)
  BY DEF Sound
<1>2. CASE \A k \in DOMAIN s.leases : ~(At(s, k).mac = mac /\ At(s, k).ip = ip)
  <2>1. t = s
    BY <1>1, <1>2, ReleaseNothing
  <2> QED
    BY <2>1
<1>3. CASE \E k \in DOMAIN s.leases : At(s, k).mac = mac /\ At(s, k).ip = ip
  <2>1. PICK k \in DOMAIN s.leases : At(s, k).mac = mac /\ At(s, k).ip = ip
    BY <1>3
  <2> SUFFICES ASSUME a # None
               PROVE  \E j \in DOMAIN t.leases :
                        /\ At(t, j).mac = m /\ At(t, j).ip = a.ip
                        /\ At(t, j).static \/ At(t, j).exp >= a.exp
    BY DEF BackedBy
  <2>2. PICK i \in DOMAIN s.leases :
          /\ At(s, i).mac = m /\ At(s, i).ip = a.ip
          /\ At(s, i).static \/ At(s, i).exp >= a.exp
    BY DEF BackedBy
  <2>3. i # k
    BY <2>1, <2>2
  <2>4. At(s, i).mac # mac /\ At(s, i).ip # ip
    BY <1>1, <2>1, <2>3, ConstantsAssumption DEF Apart
  <2>5. Thinned(s, t, mac, ip)
    BY <1>1, ReleaseFacts
  <2> HIDE DEF t
  <2>6. s.leases[i] \in Range(s.leases) /\ s.leases[i] \in DOMAIN s.obj
    BY <1>1 DEF Range, Pointers
  <2>7. s.leases[i] \in Range(t.leases)
    BY <2>4, <2>5, <2>6 DEF Thinned, At
  <2>8. PICK j \in DOMAIN t.leases : t.leases[j] = s.leases[i]
    BY <2>7 DEF Range
  <2>9. Same(At(t, j), At(s, i))
    BY <2>5, <2>6, <2>8 DEF Thinned, At
  <2> QED
    BY <2>2, <2>9 DEF Same
<1> QED
  BY <1>2, <1>3

(* Where the handlers end.                                                 *)
LEMMA BecomeBacked ==
    ASSUME NEW s, Sound(s), NEW p, Held(s, p), Become(s, p)
    PROVE  /\ Sound(srv') /\ Held(srv', pend') /\ Stored(srv') = Stored(s)
           /\ DOMAIN srv'.leases = DOMAIN s.leases
           /\ \A a, m : BackedBy(a, m, s) => BackedBy(a, m, srv')
<1>1. /\ Sound(srv') /\ Held(srv', pend') /\ Stored(srv') = Stored(s)
      /\ DOMAIN srv'.leases = DOMAIN s.leases
      /\ \A k \in DOMAIN s.leases : At(srv', k) = At(s, k)
  BY BecomeSound
<1> QED
  BY <1>1 DEF BackedBy

LEMMA HeldOn ==
    ASSUME NEW s, NEW p, Held(s, p), NEW t, DOMAIN s.obj \subseteq DOMAIN t.obj
    PROVE  Held(t, p)
BY DEF Held

LEMMA HeldIdle ==
    ASSUME NEW s, NEW p, Held(s, p), NEW m \in Macs
    PROVE  Held(s, [p EXCEPT ![m] = Idle])
<1>1. Idle \in PendType /\ Idle.id = None /\ Idle.pc # "commit"
  BY PoolFacts DEF Idle, PendType
<1> HIDE DEF Idle
<1> QED
  BY <1>1 DEF Held
-----------------------------------------------------------------------------
(* The actions.                                                            *)
Backs(s) == \A m \in Macs : BackedBy(ack[m], m, s)

(* What every action has to show.                                          *)
Preserved == Core' /\ (mishaps' \cap Bereft = {} /\ Backs(srv) => Backs(srv)')

(* handleDiscover reserves a lease for a client that has none.             *)
LEMMA DiscoverGrows ==
    ASSUME Core, NEW m \in Macs, handleDiscover(m)
    PROVE  \E s : Grown(srv, s) /\ Become(s, pend) /\ Note(BlankIf(srv, s))
<1>1. PICK busy \in BusySets :
        LET s == IF findLease(srv, m) # None THEN srv ELSE allocateLease(srv, m, busy).srv
        IN  Become(s, pend) /\ Note(BlankIf(srv, s))
  BY DEF handleDiscover
<1> DEFINE s == IF findLease(srv, m) # None THEN srv ELSE allocateLease(srv, m, busy).srv
<1>2. now \in Nat /\ Sound(srv) /\ srv \in Server /\ Pointers(srv)
  BY DEF Core, Sound
<1>3. Grown(srv, s)
  <2>1. CASE findLease(srv, m) # None
    BY <1>2, <2>1, KeptSelf DEF Grown, Same
  <2>2. CASE findLease(srv, m) = None
    <3>1. NobodyIs(srv, m)
      <4>1. \A k \in DOMAIN srv.leases : srv.leases[k] # None
        BY <1>2, AtLease DEF Pointers
      <4> QED
        BY <1>2, <2>2, <4>1, FindFacts DEF NobodyIs
    <3> QED
      BY <1>2, <2>2, <3>1, AllocateFacts
  <2> QED
    BY <2>1, <2>2
<1>4. Become(s, pend) /\ Note(BlankIf(srv, s))
  BY <1>1
<1> HIDE DEF s
<1> QED
  BY <1>3, <1>4

LEMMA DiscoverKeeps ==
    ASSUME Core, NEW m \in Macs, handleDiscover(m)
    PROVE  Preserved
<1>1. PICK s : Grown(srv, s) /\ Become(s, pend)
  BY DiscoverGrows
<1>2. now \in Nat /\ Sound(srv) /\ srv \in Server /\ Pointers(srv) /\ Held(srv, pend)
  BY DEF Core, Sound
<1>3. now' = now /\ ack' = ack /\ db' = Stored(srv')
  BY DEF handleDiscover, dbStore
<1>4. Sound(s) /\ Held(s, pend) /\ Become(s, pend)
  BY <1>1, <1>2, HeldOn DEF Grown
<1>5. /\ Sound(srv') /\ Held(srv', pend')
      /\ \A a, i : BackedBy(a, i, s) => BackedBy(a, i, srv')
  BY <1>4, BecomeBacked
<1>6. ApartIn(db')
  BY <1>3, <1>5, StoredFacts
<1>7. Backs(srv) => Backs(srv)'
  <2> SUFFICES ASSUME Backs(srv), NEW i \in Macs
               PROVE  BackedBy(ack'[i], i, srv')
    BY DEF Backs
  <2>1. ack[i] \in AckType \cup {None} /\ (ack[i] # None => ack[i].exp > now)
    BY DEF Core
  <2>2. BackedBy(ack[i], i, srv)
    BY DEF Backs
  <2>3. BackedBy(ack[i], i, s)
    BY <1>1, <1>2, <2>1, <2>2, GrownBacked
  <2> QED
    BY <1>3, <1>5, <2>3
<1>8. Core'
  BY <1>3, <1>5, <1>6 DEF Core
<1> QED
  BY <1>7, <1>8 DEF Preserved

LEMMA IdleCommit ==
    ASSUME NEW id, NEW host
    PROVE  [Idle EXCEPT !.pc = "commit", !.id = id, !.host = host]
           = [pc |-> "commit", id |-> id, host |-> host, ip |-> 0]
<1> DEFINE b == Idle
           a == [b EXCEPT !.pc = "commit"]
           c == [a EXCEPT !.id = id]
<1>1. b = [pc |-> b.pc, id |-> b.id, host |-> b.host, ip |-> b.ip] /\ b.ip = 0
  BY DEF Idle
<1> HIDE DEF b
<1>2. a = [pc |-> "commit", id |-> b.id, host |-> b.host, ip |-> b.ip]
  BY <1>1
<1> HIDE DEF a
<1>3. c = [pc |-> "commit", id |-> id, host |-> b.host, ip |-> b.ip]
  BY <1>2
<1> HIDE DEF c
<1>4. [c EXCEPT !.host = host] = [pc |-> "commit", id |-> id, host |-> host, ip |-> b.ip]
  BY <1>3
<1> QED
  BY <1>1, <1>4 DEF a, b, c

LEMMA IdleDecline ==
    ASSUME NEW ip
    PROVE  [Idle EXCEPT !.pc = "decline", !.ip = ip]
           = [pc |-> "decline", id |-> None, host |-> NoHost, ip |-> ip]
<1> DEFINE b == Idle
           a == [b EXCEPT !.pc = "decline"]
<1>1. /\ b = [pc |-> b.pc, id |-> b.id, host |-> b.host, ip |-> b.ip]
      /\ b.id = None /\ b.host = NoHost
  BY DEF Idle
<1> HIDE DEF b
<1>2. a = [pc |-> "decline", id |-> b.id, host |-> b.host, ip |-> b.ip]
  BY <1>1
<1> HIDE DEF a
<1>3. [a EXCEPT !.ip = ip] = [pc |-> "decline", id |-> b.id, host |-> b.host, ip |-> ip]
  BY <1>2
<1> QED
  BY <1>1, <1>3 DEF a, b

(* The first half of a REQUEST holds on to a lease of the client.          *)
LEMMA HeldCommit ==
    ASSUME srv \in Server, Pointers(srv), Held(srv, pend), NEW m \in Macs, handleByRequestType(m)
    PROVE  Held(srv, pend')
<1>1. PICK ip \in IPs, h \in Hosts \cup {NoHost} :
        /\ checkLease(srv, m, ip) # None
        /\ pend' = [pend EXCEPT ![m] = [Idle EXCEPT !.pc = "commit",
                                          !.id = checkLease(srv, m, ip), !.host = h]]
  BY DEF handleByRequestType
<1> DEFINE id == checkLease(srv, m, ip)
           q == [Idle EXCEPT !.pc = "commit", !.id = id, !.host = h]
<1>2. id \in DOMAIN srv.obj
  <2>1. id = findLease(srv, m)
    BY <1>1 DEF checkLease
  <2>2. \E k \in DOMAIN srv.leases : findLease(srv, m) = srv.leases[k]
    BY <1>1, <2>1, FindFacts
  <2> QED
    BY <2>1, <2>2 DEF Pointers
<1> HIDE DEF id
<1>3. q \in PendType /\ q.id = id
  <2>1. DOMAIN srv.obj \in SUBSET Nat
    BY AtLease
  <2>2. q = [pc |-> "commit", id |-> id, host |-> h, ip |-> 0]
    BY IdleCommit
  <2> QED
    BY <1>2, <2>1, <2>2, PoolFacts DEF PendType
<1> HIDE DEF q
<1>4. pend' = [pend EXCEPT ![m] = q] /\ id # None
  BY <1>1 DEF q, id
<1> QED
  BY <1>2, <1>3, <1>4 DEF Held

LEMMA ByRequestTypeKeeps ==
    ASSUME Core, NEW m \in Macs, handleByRequestType(m)
    PROVE  Preserved
<1>1. Held(srv, pend')
  BY HeldCommit DEF Core, Sound
<1>2. UNCHANGED <<now, srv, db, ack, mishaps>>
  BY DEF handleByRequestType
<1>3. Core'
  BY <1>1, <1>2 DEF Core
<1> QED
  BY <1>2, <1>3 DEF Preserved, Backs

(* The acknowledgement of a lease that has just been prolonged.            *)
LEMMA RequestKeeps ==
    ASSUME Core, NEW m \in Macs, handleRequest(m), mishaps' \cap Doubled = {}
    PROVE  Preserved
<1> DEFINE id == pend[m].id
           l == srv.obj[id]
           s == IF l.static THEN srv ELSE commitLease(srv, id, pend[m].host)
           p == [pend EXCEPT ![m] = Idle]
           b == [ip |-> l.ip, exp |-> now + LeaseTime]
<1>1. /\ Become(s, p) /\ ack' = [ack EXCEPT ![m] = b]
      /\ db' = Stored(srv') /\ now' = now /\ pend[m].pc = "commit"
  BY DEF handleRequest, dbStore
<1>2. l.mac = m /\ id \in Range(srv.leases)
  <2>1. When(l.mac # m \/ id \notin Range(srv.leases), "race") \subseteq mishaps'
    BY DEF handleRequest, Note
  <2> QED
    BY SMTT(30), <2>1 DEF When, Doubled
<1>3. PICK k \in DOMAIN srv.leases : id = srv.leases[k] /\ l = At(srv, k)
  BY <1>2 DEF Range, At
<1>4. /\ now \in Nat /\ Sound(srv) /\ srv \in Server /\ Pointers(srv) /\ Apart(srv)
      /\ Held(srv, pend)
  BY DEF Core, Sound
<1>5. l \in Lease /\ b \in AckType /\ b.exp > now
  <2>1. l \in Lease
    BY <1>3, <1>4, AtLease
  <2>2. l.ip \in IPs
    BY <2>1 DEF Lease
  <2> HIDE DEF l
  <2> QED
    BY <1>4, <2>1, <2>2, ConstantsAssumption DEF AckType
<1> HIDE DEF l, id, b
<1>6. /\ Sound(s) /\ DOMAIN s.obj = DOMAIN srv.obj /\ s.leases = srv.leases
      /\ At(s, k).mac = m /\ At(s, k).ip = b.ip
      /\ At(s, k).static \/ At(s, k).exp >= b.exp
      /\ \A j \in DOMAIN srv.leases \ {k} : At(s, j) = At(srv, j)
  <2>1. CASE l.static
    BY <1>2, <1>3, <1>4, <2>1 DEF b
  <2>2. CASE ~l.static
    <3>1. pend[m].host \in Hosts \cup {NoHost}
      BY <1>4 DEF Held, PendType
    <3> DEFINE t == commitLease(srv, id, pend[m].host)
    <3>2. /\ Sound(t) /\ DOMAIN t.obj = DOMAIN srv.obj /\ t.leases = srv.leases
          /\ At(t, k).mac = At(srv, k).mac /\ At(t, k).ip = At(srv, k).ip
          /\ At(t, k).exp = now + LeaseTime
          /\ \A j \in DOMAIN srv.leases \ {k} : At(t, j) = At(srv, j)
      BY <1>3, <1>4, <3>1, CommitFacts
    <3>3. s = t
      BY <2>2
    <3> HIDE DEF s, t
    <3>4. now + LeaseTime >= b.exp
      BY <1>4, ConstantsAssumption DEF b
    <3> QED
      BY <1>2, <1>3, <3>2, <3>3, <3>4 DEF b
  <2> QED
    BY <2>1, <2>2
<1> HIDE DEF s
<1>7. Held(s, p)
  <2>1. Held(srv, p)
    BY <1>4, HeldIdle
  <2> HIDE DEF p
  <2> QED
    BY <1>6, <2>1, HeldOn
<1> HIDE DEF p
<1>8. /\ Sound(srv') /\ Held(srv', pend')
      /\ \A a, i : BackedBy(a, i, s) => BackedBy(a, i, srv')
  BY <1>1, <1>6, <1>7, BecomeBacked
<1>9. ApartIn(db')
  BY <1>1, <1>8, StoredFacts
<1>10. /\ ack' \in [Macs -> AckType \cup {None}]
       /\ \A i \in Macs : ack'[i] # None => ack'[i].exp > now
       /\ ack'[m] = b /\ \A i \in Macs \ {m} : ack'[i] = ack[i]
  <2>1. ack \in [Macs -> AckType \cup {None}] /\ \A i \in Macs : ack[i] # None => ack[i].exp > now
    BY DEF Core
  <2> QED
    BY <1>1, <1>5, <2>1
<1>11. Backs(srv) => Backs(srv)'
  <2> SUFFICES ASSUME Backs(srv), NEW i \in Macs
               PROVE  BackedBy(ack'[i], i, srv')
    BY DEF Backs
  <2>1. CASE i = m
    <3>1. BackedBy(b, m, s)
      BY <1>6 DEF BackedBy
    <3> QED
      BY <1>8, <1>10, <2>1, <3>1
  <2>2. CASE i # m
    <3>1. BackedBy(ack[i], i, srv)
      BY DEF Backs
    <3>2. BackedBy(ack[i], i, s)
      BY <1>2, <1>3, <1>6, <2>2, <3>1 DEF BackedBy
    <3> QED
      BY <1>8, <1>10, <2>2, <3>2
  <2> QED
    BY <2>1, <2>2
<1>12. Core'
  BY <1>1, <1>4, <1>8, <1>9, <1>10 DEF Core
<1> QED
  BY <1>11, <1>12 DEF Preserved
LEMMA ReleaseKeeps ==
    ASSUME Core, NEW m \in Macs, handleRelease(m)
    PROVE  Preserved
<1>1. PICK ip \in IPs : /\ Become(ReleaseLeases(srv, m, ip).srv, pend)
                        /\ ack' = GiveUp(m, ip)
  BY DEF handleRelease
<1> DEFINE s == ReleaseLeases(srv, m, ip).srv
<1>2. now \in Nat /\ Sound(srv) /\ srv \in Server /\ Pointers(srv) /\ Held(srv, pend)
  BY DEF Core, Sound
<1>3. now' = now /\ db' = Stored(srv')
  BY DEF handleRelease, dbStore
<1>4. Thinned(srv, s, m, ip)
  BY <1>2, ReleaseFacts
<1>5. \A a, i : BackedBy(a, i, srv) /\ (i = m /\ a # None => a.ip # ip) => BackedBy(a, i, s)
  BY <1>2, ReleaseBacked
<1> HIDE DEF s
<1>6. Sound(s) /\ Held(s, pend) /\ Become(s, pend)
  <2>1. Sound(s) /\ DOMAIN s.obj = DOMAIN srv.obj
    BY <1>2, <1>4 DEF Thinned
  <2>2. Held(s, pend)
    BY <1>2, <2>1, HeldOn
  <2> QED
    BY <1>1, <2>1, <2>2 DEF s
<1>7. /\ Sound(srv') /\ Held(srv', pend')
      /\ \A a, i : BackedBy(a, i, s) => BackedBy(a, i, srv')
  BY <1>6, BecomeBacked
<1>8. ApartIn(db')
  BY <1>3, <1>7, StoredFacts
<1>9. /\ ack' \in [Macs -> AckType \cup {None}]
      /\ \A i \in Macs : ack'[i] # None => ack'[i].exp > now
      /\ \A i \in Macs : ack'[i] \in {ack[i], None}
      /\ ack'[m] # None => ack'[m].ip # ip
  BY <1>1 DEF GiveUp, Core
<1>10. Backs(srv) => Backs(srv)'
  <2> SUFFICES ASSUME Backs(srv), NEW i \in Macs
               PROVE  BackedBy(ack'[i], i, srv')
    BY DEF Backs
  <2>1. BackedBy(ack'[i], i, srv)
    BY <1>9 DEF Backs, BackedBy
  <2>2. i = m /\ ack'[i] # None => ack'[i].ip # ip
    BY <1>9
  <2> QED
    BY <1>5, <1>7, <2>1, <2>2
<1>11. Core'
  BY <1>2, <1>3, <1>7, <1>8, <1>9 DEF Core
<1> QED
  BY <1>10, <1>11 DEF Preserved

LEMMA HeldDecline ==
    ASSUME NEW s, Held(s, pend), NEW m \in Macs, handleDeclineNotify(m)
    PROVE  Held(s, pend')
<1>1. PICK ip \in IPs : pend' = [pend EXCEPT ![m] = [Idle EXCEPT !.pc = "decline", !.ip = ip]]
  BY DEF handleDeclineNotify
<1> DEFINE q == [Idle EXCEPT !.pc = "decline", !.ip = ip]
<1>2. q \in PendType /\ q.id = None /\ q.pc # "commit"
  <2>1. q = [pc |-> "decline", id |-> None, host |-> NoHost, ip |-> ip]
    BY IdleDecline
  <2> HIDE DEF q
  <2> QED
    BY <2>1 DEF PendType
<1>3. pend' = [pend EXCEPT ![m] = q]
  BY <1>1
<1> HIDE DEF q
<1> QED
  BY <1>2, <1>3 DEF Held

LEMMA DeclineNotifyKeeps ==
    ASSUME Core, NEW m \in Macs, handleDeclineNotify(m)
    PROVE  Preserved
<1>1. PICK ip \in IPs : ack' = GiveUp(m, ip)
  BY DEF handleDeclineNotify
<1>4. Held(srv, pend')
  BY HeldDecline DEF Core
<1>5. UNCHANGED <<now, srv>> /\ db' = Stored(srv)
  BY DEF handleDeclineNotify
<1>6. ApartIn(db')
  BY <1>5, StoredFacts DEF Core
<1>7. /\ ack' \in [Macs -> AckType \cup {None}]
      /\ \A i \in Macs : ack'[i] # None => ack'[i].exp > now
      /\ \A i \in Macs : ack'[i] \in {ack[i], None}
  BY <1>1 DEF GiveUp, Core
<1>8. Core'
  BY <1>4, <1>5, <1>6, <1>7 DEF Core
<1>9. Backs(srv) => Backs(srv)'
  BY <1>5, <1>7 DEF Backs, BackedBy
<1> QED
  BY <1>8, <1>9 DEF Preserved

(* The rest of a DHCPDECLINE of an address the client does not have.       *)
LEMMA DeclineKeeps ==
    ASSUME Core, NEW m \in Macs, handleDecline(m), mishaps' \cap Doubled = {}
    PROVE  Preserved
<1> DEFINE old == findLeaseForIP(srv, pend[m].ip, m)
           p == [pend EXCEPT ![m] = Idle]
<1>1. old = None
  <2>1. When(old # None, "decline") \subseteq mishaps'
    BY DEF handleDecline, Note
  <2> HIDE DEF old
  <2> QED
    BY <2>1 DEF When, Doubled
<1>2. Become(srv, p)
  BY <1>1 DEF handleDecline
<1>3. Sound(srv) /\ Held(srv, p)
  BY HeldIdle DEF Core
<1>4. UNCHANGED <<now, db, ack>>
  BY DEF handleDecline
<1> HIDE DEF p, old
<1>5. /\ Sound(srv') /\ Held(srv', pend')
      /\ \A a, i : BackedBy(a, i, srv) => BackedBy(a, i, srv')
  BY <1>2, <1>3, BecomeBacked
<1>6. Core'
  BY <1>4, <1>5 DEF Core
<1> QED
  BY <1>4, <1>5, <1>6 DEF Preserved, Backs

(* What the requests of the HTTP API have in common.                       *)
LEMMA AdminKeeps ==
    ASSUME Core, NEW t, Sound(t), DOMAIN srv.obj \subseteq DOMAIN t.obj, Replaced(srv, t),
           Become(t, pend), UNCHANGED <<now, ack>>, db' = Stored(srv') \/ db' = db,
           mishaps' \cap Bereft = {} => EvictIf(t) = {}
    PROVE  Preserved
<1>1. Sound(srv) /\ Held(t, pend)
  BY HeldOn DEF Core
<1>2. /\ Sound(srv') /\ Held(srv', pend')
      /\ \A a, i : BackedBy(a, i, t) => BackedBy(a, i, srv')
  BY <1>1, BecomeBacked
<1>3. ApartIn(db')
  BY <1>2, StoredFacts DEF Core
<1>4. Core'
  BY <1>2, <1>3 DEF Core
<1>5. ASSUME mishaps' \cap Bereft = {}, Backs(srv), NEW i \in Macs
      PROVE  BackedBy(ack'[i], i, srv')
  <2>1. BackedBy(ack[i], i, srv)
    BY <1>5 DEF Backs
  <2>2. BackedBy(ack[i], i, t)
    BY <1>1, <1>5, <2>1, ReplacedBacked
  <2> QED
    BY <1>2, <2>2
<1>6. mishaps' \cap Bereft = {} /\ Backs(srv) => Backs(srv)'
  BY <1>5 DEF Backs
<1> QED
  BY <1>4, <1>6 DEF Preserved

LEMMA EvictNoted ==
    ASSUME NEW t, NEW M, EvictIf(t) \subseteq M, Note(M), mishaps' \cap Bereft = {}
    PROVE  EvictIf(t) = {}
BY DEF EvictIf, When, Note, Bereft

LEMMA AddStaticKeeps ==
    ASSUME Core, AddStaticLease, mishaps' \cap Doubled = {}
    PROVE  Preserved
<1>1. PICK m \in Macs, ip \in IPs, h \in AdminHosts :
        LET r == updateStaticLease(srv, StaticLease(m, ip, h))
        IN  /\ Become(r.srv, pend)
            /\ IF r.ok THEN dbStore ELSE UNCHANGED db
            /\ Note(r.skip \cup BlankIf(srv, r.srv) \cup EvictIf(r.srv)
                    \cup When(~r.ok /\ srv' # srv, "unstored"))
  BY DEF AddStaticLease
<1> DEFINE r == updateStaticLease(srv, StaticLease(m, ip, h))
           M == r.skip \cup BlankIf(srv, r.srv) \cup EvictIf(r.srv)
                \cup When(~r.ok /\ srv' # srv, "unstored")
<1>2. r.skip = {}
  <2>1. r.skip \subseteq {"skip"}
    BY DEF updateStaticLease, SkipIf, When
  <2>2. r.skip \subseteq mishaps'
    BY <1>1 DEF Note
  <2> HIDE DEF r
  <2> QED
    BY <2>1, <2>2 DEF Doubled
<1>3. Sound(r.srv) /\ DOMAIN srv.obj \subseteq DOMAIN r.srv.obj /\ Replaced(srv, r.srv)
  BY <1>2, UpdateStaticFacts DEF Core
<1>4. Note(M) /\ EvictIf(r.srv) \subseteq M
  BY <1>1
<1>5. UNCHANGED <<now, ack>>
  BY DEF AddStaticLease, AdminRequest
<1>6. Become(r.srv, pend) /\ (db' = Stored(srv') \/ db' = db)
  BY <1>1 DEF dbStore
<1> HIDE DEF r, M
<1>7. mishaps' \cap Bereft = {} => EvictIf(r.srv) = {}
  BY <1>4, EvictNoted
<1> QED
  BY <1>3, <1>5, <1>6, <1>7, AdminKeeps

LEMMA UpdateStaticKeeps ==
    ASSUME Core, UpdateStaticLease
    PROVE  Preserved
<1>1. PICK m \in Macs, ip \in IPs, h \in AdminHosts :
        /\ findLease(srv, m) # None
        /\ validateStaticLease(srv, StaticLease(m, ip, h))
        /\ LET r == ReplaceLease(srv, findLease(srv, m), StaticLease(m, ip, h))
           IN  /\ Become(r.srv, pend)
               /\ IF r.ok THEN dbStore ELSE UNCHANGED db
               /\ Note(EvictIf(r.srv) \cup When(~r.ok /\ srv' # srv, "unstored"))
  BY DEF UpdateStaticLease
<1> DEFINE r == ReplaceLease(srv, findLease(srv, m), StaticLease(m, ip, h))
           M == EvictIf(r.srv) \cup When(~r.ok /\ srv' # srv, "unstored")
<1>2. Sound(r.srv) /\ DOMAIN srv.obj \subseteq DOMAIN r.srv.obj /\ Replaced(srv, r.srv)
  BY <1>1, ReplaceFacts DEF Core
<1>3. Note(M) /\ EvictIf(r.srv) \subseteq M
  BY <1>1
<1>4. UNCHANGED <<now, ack>>
  BY DEF UpdateStaticLease, AdminRequest
<1>5. Become(r.srv, pend) /\ (db' = Stored(srv') \/ db' = db)
  BY <1>1 DEF dbStore
<1> HIDE DEF r, M
<1>6. mishaps' \cap Bereft = {} => EvictIf(r.srv) = {}
  BY <1>3, EvictNoted
<1> QED
  BY <1>2, <1>4, <1>5, <1>6, AdminKeeps

LEMMA RemoveStaticKeeps ==
    ASSUME Core, RemoveStaticLease
    PROVE  Preserved
<1>1. PICK id \in Range(srv.leases) :
        LET rm == rmLease(srv, srv.obj[id])
        IN  /\ ~rm.err
            /\ Become(rm.srv, pend)
            /\ dbStore
            /\ Note(EvictIf(rm.srv))
  BY DEF RemoveStaticLease
<1> DEFINE r == rmLease(srv, srv.obj[id])
<1>2. Sound(srv) /\ srv \in Server /\ Pointers(srv)
  BY DEF Core, Sound
<1>3. \/ r.srv = srv
      \/ \E i \in DOMAIN srv.leases : r.srv = Removed(srv, i)
  BY <1>2, RmLeaseFacts
<1>4. /\ Become(r.srv, pend) /\ Note(EvictIf(r.srv)) /\ db' = Stored(srv')
      /\ UNCHANGED <<now, ack>>
  BY <1>1 DEF dbStore, RemoveStaticLease, AdminRequest
<1> HIDE DEF r
<1>5. Sound(r.srv) /\ DOMAIN srv.obj \subseteq DOMAIN r.srv.obj /\ Replaced(srv, r.srv)
  <2>1. CASE r.srv = srv
    BY <1>2, <2>1 DEF Replaced, Same
  <2>2. CASE \E i \in DOMAIN srv.leases : r.srv = Removed(srv, i)
    <3>1. PICK i \in DOMAIN srv.leases : r.srv = Removed(srv, i)
      BY <2>2
    <3>2. Removed(srv, i).obj = srv.obj
      BY <1>2, RemovedFacts
    <3> QED
      BY <1>2, <3>1, <3>2, RemovedSound, RemovedReplaced
  <2> QED
    BY <1>3, <2>1, <2>2
<1>6. mishaps' \cap Bereft = {} => EvictIf(r.srv) = {}
  BY <1>4, EvictNoted
<1> QED
  BY <1>4, <1>5, <1>6, AdminKeeps

LEMMA ResetKeeps ==
    ASSUME Core, resetLeases
    PROVE  Preserved
<1> DEFINE t == [NoLeases EXCEPT !.obj = srv.obj]
<1>1. Sound(srv) /\ srv \in Server /\ Pointers(srv)
  BY DEF Core, Sound
<1>2. /\ t.obj = srv.obj /\ t.leases = <<>> /\ NoLeases.leases = <<>>
      /\ t.hostsIndex = [h \in Names |-> None] /\ t.ipIndex = [ip \in IPs |-> None]
      /\ t.leasedOffsets = {}
  BY DEF NoLeases
<1>3. t \in Server
  <2>1. NoLeases \in Server
    BY DEF NoLeases, Server
  <2>2. srv.obj \in Seq(Lease)
    BY <1>1 DEF Server
  <2> HIDE DEF NoLeases
  <2> QED
    BY <2>1, <2>2 DEF Server
<1>4. Become(t, pend) /\ db' = Stored(srv') /\ Note(EvictIf(NoLeases)) /\ UNCHANGED <<now, ack>>
  BY DEF resetLeases, dbStore, AdminRequest
<1> HIDE DEF t
<1>5. DOMAIN t.leases = {} /\ Range(t.leases) = {} /\ Range(NoLeases.leases) = {}
  BY <1>2 DEF Range
<1>6. Pointers(t)
  BY <1>2, <1>5 DEF Pointers
<1>7. Sound(t) /\ Replaced(srv, t)
  BY <1>3, <1>5, <1>6 DEF Sound, Apart, Covered, Replaced
<1>8. EvictIf(t) \subseteq EvictIf(NoLeases)
  BY <1>5 DEF EvictIf
<1>9. mishaps' \cap Bereft = {} => EvictIf(t) = {}
  BY <1>4, <1>8, EvictNoted
<1>10. DOMAIN srv.obj \subseteq DOMAIN t.obj
  BY <1>2
<1> QED
  BY <1>4, <1>7, <1>9, <1>10, AdminKeeps

(* A client whose time is over stops, which no lease has to back.          *)
LEMMA TickKeeps ==
    ASSUME Core, Tick
    PROVE  Preserved
<1>1. /\ now' = now + 1 /\ UNCHANGED <<srv, db, pend>>
      /\ ack' = [m \in Macs |-> IF ack[m] # None /\ ack[m].exp <= now' THEN None ELSE ack[m]]
  BY DEF Tick
<1>2. now' \in Nat
  BY <1>1 DEF Core
<1>3. \A m \in Macs : /\ ack'[m] \in AckType \cup {None}
                      /\ ack'[m] # None => ack'[m] = ack[m] /\ ~(ack[m].exp <= now')
  BY <1>1 DEF Core
<1>4. \A m \in Macs : ack'[m] # None => ack'[m].exp > now'
  <2> SUFFICES ASSUME NEW m \in Macs, ack'[m] # None
               PROVE  ack'[m].exp > now'
    OBVIOUS
  <2>1. ack'[m] \in AckType /\ ~(ack'[m].exp <= now')
    BY <1>3
  <2> QED
    BY <1>2, <2>1 DEF AckType
<1>5. ack' \in [Macs -> AckType \cup {None}]
  BY <1>1, <1>3
<1>6. Core'
  BY <1>1, <1>2, <1>4, <1>5 DEF Core
<1>7. Backs(srv) => Backs(srv)'
  BY <1>1, <1>3 DEF Backs, BackedBy
<1> QED
  BY <1>6, <1>7 DEF Preserved

(* The order in which the leases of the file are loaded.                   *)
LEMMA OrderOnto ==
    ASSUME NEW ls, ls \subseteq Lease, IsFiniteSet(ls), NEW order \in SetToSeqs(ls)
    PROVE  /\ order \in Seq(Lease) /\ Len(order) = Cardinality(ls)
           /\ \A l \in ls : \E k \in DOMAIN order : order[k] = l
           /\ \A k \in DOMAIN order : order[k] \in ls
           /\ \A i, j \in DOMAIN order : i # j => order[i] # order[j]
<1> DEFINE n == Cardinality(ls)
<1>1. ls \subseteq Lease /\ IsFiniteSet(ls)
  OBVIOUS
<1>2. n \in Nat
  BY <1>1, FS_CardinalityType
<1>3. order \in [1..n -> ls] /\ \A i, j \in 1..n : i # j => order[i] # order[j]
  BY DEF SetToSeqs
<1>4. IsFiniteSet(1..n) /\ Cardinality(1..n) = n
  BY <1>2, FS_Interval
<1>5. order \in Injection(1..n, ls)
  BY <1>3 DEF Injection, IsInjective
<1>6. order \in Surjection(1..n, ls)
  BY <1>1, <1>4, <1>5, FS_Injection
<1> HIDE DEF n
<1>7. order \in Seq(Lease) /\ Len(order) = n /\ DOMAIN order = 1..n
  BY <1>1, <1>2, <1>3
<1>8. \A l \in ls : \E k \in DOMAIN order : order[k] = l
  BY <1>3, <1>6 DEF Surjection
<1> QED
  BY <1>3, <1>7, <1>8 DEF n

LEMMA OrderFacts ==
    ASSUME NEW ls, ApartIn(ls), NEW order \in SetToSeqs(ls)
    PROVE  /\ order \in Seq(Lease) /\ Len(order) = Cardinality(ls)
           /\ \A l \in ls : \E k \in DOMAIN order : order[k] = l
           /\ \A i, j \in DOMAIN order : i # j =>
                /\ order[i].ip # order[j].ip
                /\ order[i].mac # ZeroMac => order[i].mac # order[j].mac
<1>1. /\ order \in Seq(Lease) /\ Len(order) = Cardinality(ls)
      /\ \A l \in ls : \E k \in DOMAIN order : order[k] = l
      /\ \A k \in DOMAIN order : order[k] \in ls
      /\ \A i, j \in DOMAIN order : i # j => order[i] # order[j]
  BY OrderOnto DEF ApartIn
<1> QED
  BY <1>1 DEF ApartIn

LEMMA RestartKeeps ==
    ASSUME Core, Restart
    PROVE  Preserved
<1>1. PICK order \in SetToSeqs(db) : Become(ResetLeases(order), [m \in Macs |-> Idle])
  BY DEF Restart
<1> DEFINE t == ResetLeases(order)
           p == [m \in Macs |-> Idle]
<1>2. UNCHANGED <<now, db, ack>>
  BY DEF Restart
<1>3. /\ order \in Seq(Lease) /\ Len(order) = Cardinality(db)
      /\ \A l \in db : \E k \in DOMAIN order : order[k] = l
      /\ \A i, j \in DOMAIN order : i # j =>
           /\ order[i].ip # order[j].ip
           /\ order[i].mac # ZeroMac => order[i].mac # order[j].mac
  BY OrderFacts DEF Core
<1>4. /\ Sound(t)
      /\ Len(t.leases) = Len(order) =>
           \A k \in DOMAIN order : k \in DOMAIN t.leases /\ At(t, k) = Named(order[k])
      /\ Len(t.leases) <= Len(order)
  BY <1>3, ResetFacts
<1>5. Held(t, p)
  <2>1. Idle \in PendType /\ Idle.id = None /\ Idle.pc # "commit"
    BY PoolFacts DEF Idle, PendType
  <2> HIDE DEF Idle, t
  <2> QED
    BY <2>1 DEF Held
<1> HIDE DEF t, p
<1>6. /\ Sound(srv') /\ Held(srv', pend') /\ DOMAIN srv'.leases = DOMAIN t.leases
      /\ \A a, i : BackedBy(a, i, t) => BackedBy(a, i, srv')
  BY <1>1, <1>4, <1>5, BecomeBacked DEF t, p
<1>7. Core'
  BY <1>2, <1>6 DEF Core
<1>8. ASSUME mishaps' \cap Bereft = {}, NEW m \in Macs
      PROVE  BackedBy(ack[m], m, t)
  <2>1. /\ When(\E i \in Macs : ~Backed(i, db), "lost") \subseteq mishaps'
        /\ When(Len(srv'.leases) < Cardinality(db), "dropped") \subseteq mishaps'
    BY DEF Restart, Note
  <2>2. Backed(m, db) /\ ~(Len(srv'.leases) < Cardinality(db))
    BY <1>8, <2>1 DEF When, Bereft
  <2>3. Len(srv'.leases) = Len(t.leases) /\ Len(t.leases) \in Nat /\ Len(order) \in Nat
    <3>1. /\ DOMAIN srv'.leases = 1..Len(srv'.leases) /\ Len(srv'.leases) \in Nat
          /\ DOMAIN t.leases = 1..Len(t.leases) /\ Len(t.leases) \in Nat
      BY <1>4, <1>6, AtLease DEF Sound
    <3>2. \A a, b \in Nat : 1..a = 1..b => a = b
      OBVIOUS
    <3>3. 1..Len(srv'.leases) = 1..Len(t.leases)
      BY <1>6, <3>1
    <3> QED
      BY <1>3, <3>1, <3>2, <3>3
  <2>4. \A k \in DOMAIN order : k \in DOMAIN t.leases /\ At(t, k) = Named(order[k])
    BY <1>3, <1>4, <2>2, <2>3
  <2> SUFFICES ASSUME ack[m] # None
               PROVE  \E k \in DOMAIN t.leases :
                        /\ At(t, k).mac = m /\ At(t, k).ip = ack[m].ip
                        /\ At(t, k).static \/ At(t, k).exp >= ack[m].exp
    BY DEF BackedBy
  <2>5. PICK l \in db : /\ l.mac = m /\ l.ip = ack[m].ip
                        /\ l.static \/ l.exp >= ack[m].exp
    BY <2>2 DEF Backed
  <2>6. PICK k \in DOMAIN order : order[k] = l
    BY <1>3
  <2>7. l \in Lease
    BY DEF Core, ApartIn
  <2>8. Same(Named(l), l)
    BY <2>7 DEF Named, Same, Lease
  <2> QED
    BY <2>4, <2>5, <2>6, <2>8 DEF Same
<1>9. mishaps' \cap Bereft = {} /\ Backs(srv) => Backs(srv)'
  BY <1>2, <1>6, <1>8 DEF Backs
<1> QED
  BY <1>7, <1>9 DEF Preserved

-----------------------------------------------------------------------------
(* The invariant.                                                          *)
LEMMA InitLease ==
    ASSUME Init
    PROVE  LeaseInv
<1>1. NoLeases \in Server /\ DOMAIN NoLeases.leases = {} /\ Pointers(NoLeases)
  <2>1. NoLeases \in Server /\ DOMAIN NoLeases.leases = {}
    BY DEF NoLeases, Server
  <2> QED
    BY <2>1 DEF NoLeases, Pointers
<1>2. Sound(srv)
  BY <1>1 DEF Init, Sound, Apart, Covered
<1>3. ApartIn(db)
  BY FS_EmptySet DEF Init, ApartIn
<1>4. Held(srv, pend)
  <2>1. Idle \in PendType /\ Idle.id = None /\ Idle.pc # "commit"
    BY PoolFacts DEF Idle, PendType
  <2> HIDE DEF Idle
  <2> QED
    BY <2>1 DEF Init, Held
<1>5. now \in Nat /\ \A m \in Macs : ack[m] = None
  BY DEF Init
<1>6. ack \in [Macs -> AckType \cup {None}]
  BY DEF Init
<1> QED
  BY <1>2, <1>3, <1>4, <1>5, <1>6 DEF LeaseInv, Unless, Core, BackedBy

(* What has happened stays noted.                                          *)
LEMMA MishapsStay ==
    ASSUME [Next]_vars
    PROVE  mishaps \subseteq mishaps'
<1>1. ASSUME NEW m \in Macs,
             \/ handleDiscover(m) \/ handleByRequestType(m) \/ handleRequest(m)
             \/ handleRelease(m) \/ handleDeclineNotify(m) \/ handleDecline(m)
      PROVE  mishaps \subseteq mishaps'
  <2>1. CASE handleDiscover(m)
    BY <2>1 DEF handleDiscover, Note
  <2>2. CASE handleByRequestType(m)
    BY SMTT(30), <2>2 DEF handleByRequestType
  <2>3. CASE handleRequest(m)
    BY <2>3 DEF handleRequest, Note
  <2>4. CASE handleRelease(m)
    BY <2>4 DEF handleRelease, Note
  <2>5. CASE handleDeclineNotify(m)
    BY <2>5 DEF handleDeclineNotify
  <2>6. CASE handleDecline(m)
    BY <2>6 DEF handleDecline, Note
  <2> QED
    BY <1>1, <2>1, <2>2, <2>3, <2>4, <2>5, <2>6
<1>2. CASE AddStaticLease
  BY <1>2 DEF AddStaticLease, Note
<1>3. CASE UpdateStaticLease
  BY <1>3 DEF UpdateStaticLease, Note
<1>4. CASE RemoveStaticLease
  BY <1>4 DEF RemoveStaticLease, Note
<1>5. CASE resetLeases
  BY <1>5 DEF resetLeases, Note
<1>6. CASE Tick
  BY <1>6 DEF Tick
<1>7. CASE Restart
  BY <1>7 DEF Restart, Note
<1>8. CASE UNCHANGED vars
  BY <1>8 DEF vars
<1> QED
  BY <1>1, <1>2, <1>3, <1>4, <1>5, <1>6, <1>7, <1>8 DEF Next

LEMMA StepKeeps ==
    ASSUME Core, Next, mishaps' \cap Doubled = {}
    PROVE  Preserved
<1>1. ASSUME NEW m \in Macs,
             \/ handleDiscover(m) \/ handleByRequestType(m) \/ handleRequest(m)
             \/ handleRelease(m) \/ handleDeclineNotify(m) \/ handleDecline(m)
      PROVE  Preserved
  BY <1>1, DiscoverKeeps, ByRequestTypeKeeps, RequestKeeps, ReleaseKeeps,
     DeclineNotifyKeeps, DeclineKeeps
<1>2. CASE AddStaticLease \/ UpdateStaticLease \/ RemoveStaticLease \/ resetLeases
  BY <1>2, AddStaticKeeps, UpdateStaticKeeps, RemoveStaticKeeps, ResetKeeps
<1>3. CASE Tick \/ Restart
  BY <1>3, TickKeeps, RestartKeeps
<1> QED
  BY <1>1, <1>2, <1>3 DEF Next

LEMMA NextLease ==
    ASSUME LeaseInv, [Next]_vars
    PROVE  LeaseInv'
<1>1. mishaps \subseteq mishaps' /\ Doubled \subseteq Bereft
  BY MishapsStay DEF Bereft
<1>2. CASE UNCHANGED vars
  BY <1>2 DEF vars, LeaseInv, Unless, Core, BackedBy, Held, Sound, Pointers, Apart,
              Covered, At, ApartIn
<1>3. CASE Next
  <2>1. ASSUME mishaps' \cap Doubled = {}
        PROVE  Preserved
    <3>1. mishaps \cap Doubled = {}
      BY <1>1, <2>1
    <3>2. Core
      BY <3>1 DEF LeaseInv, Unless
    <3> QED
      BY <1>3, <2>1, <3>2, StepKeeps
  <2>2. mishaps' \cap Doubled = {} => Core'
    BY <2>1 DEF Preserved
  <2>3. ASSUME mishaps' \cap Bereft = {}
        PROVE  Backs(srv)'
    <3>1. mishaps \cap Bereft = {} /\ mishaps' \cap Doubled = {}
      BY <1>1, <2>3
    <3>2. Backs(srv)
      BY <3>1 DEF LeaseInv, Unless, Backs
    <3> QED
      BY <2>1, <2>3, <3>1, <3>2 DEF Preserved
  <2> QED
    BY <2>2, <2>3 DEF LeaseInv, Unless, Backs
<1> QED
  BY <1>2, <1>3

(* As long as no lease is left behind, added twice or committed after it   *)
(* was lost, the leases of v4Server are apart, by address and by client,   *)
(* the bit set and ipIndex have each of them, and those of the database    *)
(* file are apart; and as long as no administrator and no restart takes    *)
(* one away, every client has a lease for the address it uses.             *)
THEOREM LeaseInvariance == Spec => []LeaseInv
<1>1. Init => LeaseInv
  BY InitLease
<1>2. LeaseInv /\ [Next]_vars => LeaseInv'
  BY NextLease
<1> QED
  BY <1>1, <1>2, PTL DEF Spec

(* No address and no client has two leases, whatever clients,              *)
(* administrators and restarts do, for every pool (v4_unix.go:320).        *)
THEOREM LeasesUnique == Spec => []UniqueLeases
<1>1. LeaseInv => UniqueLeases
  <2> SUFFICES ASSUME LeaseInv, mishaps \cap Doubled = {}
               PROVE  /\ AddressesUnique
                      /\ \A i, j \in DOMAIN srv.leases :
                            LET mac == srv.obj[srv.leases[i]].mac
                            IN  i # j /\ mac # ZeroMac => srv.obj[srv.leases[j]].mac # mac
    BY DEF UniqueLeases, Unless, Doubled
  <2>1. Apart(srv)
    BY DEF LeaseInv, Unless, Core, Sound
  <2> QED
    BY <2>1 DEF Apart, At, AddressesUnique
<1> QED
  BY <1>1, LeaseInvariance, PTL

(* nextIP never offers an address of the range that is leased: its bit is  *)
(* set, whatever sequence of additions and removals led here               *)
(* (v4_unix.go:715).                                                       *)
THEOREM OffsetsCovered == Spec => []OffsetsCover
<1>1. LeaseInv => OffsetsCover
  <2> SUFFICES ASSUME LeaseInv, mishaps \cap Doubled = {}, NEW l \in Leases, l.ip \in Pool
               PROVE  l.ip \in srv.leasedOffsets
    BY DEF OffsetsCover, Unless, Doubled
  <2>1. Covered(srv)
    BY DEF LeaseInv, Unless, Core, Sound
  <2>2. PICK k \in DOMAIN srv.leases : l = At(srv, k)
    BY DEF Leases, Range, At
  <2> QED
    BY <2>1, <2>2 DEF Covered
<1> QED
  BY <1>1, LeaseInvariance, PTL

(* Two clients with an acknowledged address never use the same one at the  *)
(* same time, over expiry, reuse of expired leases, and restarts at any    *)
(* moment.                                                                 *)
THEOREM AddressesNotShared == Spec => []NoSharedAddress
<1>1. LeaseInv => NoSharedAddress
  <2> SUFFICES ASSUME LeaseInv, mishaps \cap Bereft = {}, NEW m \in Macs, NEW n \in Macs,
                      m # n, ack[m] # None, ack[n] # None, ack[m].ip = ack[n].ip
               PROVE  FALSE
    BY DEF NoSharedAddress, Unless, Bereft, Doubled
  <2>1. mishaps \cap Doubled = {}
    BY DEF Bereft
  <2>2. Apart(srv)
    BY <2>1 DEF LeaseInv, Unless, Core, Sound
  <2>3. PICK j \in DOMAIN srv.leases : At(srv, j).mac = m /\ At(srv, j).ip = ack[m].ip
    BY DEF LeaseInv, Unless, BackedBy
  <2>4. PICK k \in DOMAIN srv.leases : At(srv, k).mac = n /\ At(srv, k).ip = ack[n].ip
    BY DEF LeaseInv, Unless, BackedBy
  <2> QED
    BY <2>2, <2>3, <2>4 DEF Apart
<1> QED
  BY <1>1, LeaseInvariance, PTL

-----------------------------------------------------------------------------
(* The indexes, over the actions.                                          *)

(* What every action has to show.                                          *)
Ties == mishaps' \cap Untied = {} /\ Tied(srv) => Tied(srv')

LEMMA BlankNoted ==
    ASSUME NEW s, NEW t, NEW M, BlankIf(s, t) \subseteq M, Note(M), mishaps' \cap Untied = {}
    PROVE  BlankIf(s, t) = {}
BY DEF BlankIf, When, Note, Untied

LEMMA DiscoverTies ==
    ASSUME Core, NEW m \in Macs, handleDiscover(m)
    PROVE  Ties
<1>1. SUFFICES ASSUME mishaps' \cap Untied = {}, Tied(srv)
               PROVE  Tied(srv')
  BY DEF Ties
<1>2. PICK s : Grown(srv, s) /\ Become(s, pend) /\ Note(BlankIf(srv, s))
  BY DiscoverGrows
<1>3. Sound(s) /\ Held(s, pend)
  BY <1>2, HeldOn DEF Core, Grown
<1>4. Tied(s)
  <2>1. SUFFICES ASSUME NEW k \in DOMAIN srv.leases,
                        At(srv, k).host # NoHost, At(s, k).host = NoHost
                 PROVE  FALSE
    BY <1>1, <1>2 DEF Grown, Kept
  <2>2. BlankIf(srv, s) = {}
    BY <1>1, <1>2, BlankNoted
  <2>3. k \in DOMAIN s.leases /\ s.leases[k] = srv.leases[k]
    BY <1>2 DEF Grown, Kept
  <2>4. srv.leases[k] \in Range(srv.leases) \cap Range(s.leases)
    BY <2>3 DEF Range
  <2> QED
    BY <2>1, <2>2, <2>3, <2>4 DEF BlankIf, When, At
<1> QED
  BY <1>2, <1>3, <1>4, BecomeTied

(* A commit takes a name that nobody has, or keeps its own.                *)
LEMMA RequestTies ==
    ASSUME Core, NEW m \in Macs, handleRequest(m)
    PROVE  Ties
<1> DEFINE id == pend[m].id
           l == srv.obj[id]
           s == IF l.static THEN srv ELSE commitLease(srv, id, pend[m].host)
           p == [pend EXCEPT ![m] = Idle]
<1>1. SUFFICES ASSUME mishaps' \cap Untied = {}, Tied(srv)
               PROVE  Tied(srv')
  BY DEF Ties
<1>2. /\ Become(s, p) /\ pend[m].pc = "commit"
      /\ Note(When(l.mac # m \/ id \notin Range(srv.leases), "race")
              \cup When(/\ s.obj[id].host # l.host
                        /\ srv.hostsIndex[s.obj[id].host] # None, "dupname"))
  BY DEF handleRequest
<1>3. /\ id \in Range(srv.leases)
      /\ s.obj[id].host = l.host \/ srv.hostsIndex[s.obj[id].host] = None
  <2> HIDE DEF s, l
  <2> QED
    BY <1>1, <1>2 DEF Note, When, Untied, Doubled
<1>4. PICK k \in DOMAIN srv.leases : id = srv.leases[k] /\ l = At(srv, k)
  BY <1>3 DEF Range, At
<1>5. now \in Nat /\ Sound(srv) /\ Held(srv, pend)
  BY DEF Core
<1> HIDE DEF l, id
<1>6. Sound(s) /\ DOMAIN s.obj = DOMAIN srv.obj /\ Tied(s)
  <2>1. CASE l.static
    BY <1>1, <1>5, <2>1
  <2>2. CASE ~l.static
    <3>1. pend[m].host \in Hosts \cup {NoHost}
      BY <1>5 DEF Held, PendType
    <3> DEFINE t == commitLease(srv, id, pend[m].host)
    <3>2. /\ Sound(t) /\ DOMAIN t.obj = DOMAIN srv.obj /\ t.leases = srv.leases
          /\ (At(t, k).host = At(srv, k).host \/ srv.hostsIndex[At(t, k).host] = None) => Tied(t)
      BY <1>1, <1>4, <1>5, <3>1, CommitFacts
    <3>3. s = t
      BY <2>2
    <3> HIDE DEF s, t
    <3>4. At(t, k) = s.obj[id]
      BY <1>4, <3>2, <3>3 DEF At
    <3> QED
      BY <1>3, <1>4, <3>2, <3>3, <3>4
  <2> QED
    BY <2>1, <2>2
<1> HIDE DEF s
<1>7. Held(s, p)
  <2>1. Held(srv, p)
    BY <1>5, HeldIdle
  <2> HIDE DEF p
  <2> QED
    BY <1>6, <2>1, HeldOn
<1> QED
  BY <1>2, <1>6, <1>7, BecomeTied

LEMMA ReleaseTies ==
    ASSUME Core, NEW m \in Macs, handleRelease(m)
    PROVE  Ties
<1>1. SUFFICES ASSUME Tied(srv)
               PROVE  Tied(srv')
  BY DEF Ties
<1>2. PICK ip \in IPs : Become(ReleaseLeases(srv, m, ip).srv, pend)
  BY DEF handleRelease
<1> DEFINE s == ReleaseLeases(srv, m, ip).srv
<1>3. Sound(srv) /\ srv \in Server /\ Pointers(srv) /\ Held(srv, pend)
  BY DEF Core, Sound
<1>4. Thinned(srv, s, m, ip) /\ Tied(s)
  BY <1>1, <1>3, ReleaseFacts, ReleaseTied
<1> HIDE DEF s
<1>5. Sound(s) /\ DOMAIN s.obj = DOMAIN srv.obj
  BY <1>3, <1>4 DEF Thinned
<1>6. Held(s, pend)
  BY <1>3, <1>5, HeldOn
<1> QED
  BY <1>2, <1>4, <1>5, <1>6, BecomeTied DEF s

LEMMA DeclineTies ==
    ASSUME Core, NEW m \in Macs, handleDecline(m)
    PROVE  Ties
<1> DEFINE old == findLeaseForIP(srv, pend[m].ip, m)
           p == [pend EXCEPT ![m] = Idle]
<1>1. SUFFICES ASSUME mishaps' \cap Untied = {}, Tied(srv)
               PROVE  Tied(srv')
  BY DEF Ties
<1>2. old = None
  <2>1. When(old # None, "decline") \subseteq mishaps'
    BY DEF handleDecline, Note
  <2> HIDE DEF old
  <2> QED
    BY <1>1, <2>1 DEF When, Untied, Doubled
<1>3. Become(srv, p)
  BY <1>2 DEF handleDecline
<1>4. Sound(srv) /\ Held(srv, p)
  BY HeldIdle DEF Core
<1> HIDE DEF p
<1> QED
  BY <1>1, <1>3, <1>4, BecomeTied

LEMMA AddStaticTies ==
    ASSUME Core, AddStaticLease
    PROVE  Ties
<1>1. SUFFICES ASSUME mishaps' \cap Untied = {}, Tied(srv)
               PROVE  Tied(srv')
  BY DEF Ties
<1>2. PICK m \in Macs, ip \in IPs, h \in AdminHosts :
        LET r == updateStaticLease(srv, StaticLease(m, ip, h))
        IN  /\ Become(r.srv, pend)
            /\ Note(r.skip \cup BlankIf(srv, r.srv) \cup EvictIf(r.srv)
                    \cup When(~r.ok /\ srv' # srv, "unstored"))
  BY DEF AddStaticLease
<1> DEFINE r == updateStaticLease(srv, StaticLease(m, ip, h))
           M == r.skip \cup BlankIf(srv, r.srv) \cup EvictIf(r.srv)
                \cup When(~r.ok /\ srv' # srv, "unstored")
<1>3. Note(M) /\ r.skip \subseteq M /\ BlankIf(srv, r.srv) \subseteq M
  BY <1>2
<1>4. r.skip = {}
  <2>1. r.skip \subseteq {"skip"}
    BY DEF updateStaticLease, SkipIf, When
  <2> HIDE DEF r, M
  <2> QED
    BY <1>1, <1>3, <2>1 DEF Note, Untied, Doubled
<1>5. BlankIf(srv, r.srv) = {}
  <2> HIDE DEF r, M
  <2> QED
    BY <1>1, <1>3, BlankNoted
<1>6. Sound(r.srv) /\ DOMAIN srv.obj \subseteq DOMAIN r.srv.obj /\ Tied(r.srv)
  BY <1>1, <1>4, <1>5, UpdateStaticFacts DEF Core
<1>7. Become(r.srv, pend)
  BY <1>2
<1> HIDE DEF r
<1> QED
  BY <1>6, <1>7, HeldOn, BecomeTied DEF Core

LEMMA UpdateStaticTies ==
    ASSUME Core, UpdateStaticLease
    PROVE  Ties
<1>1. SUFFICES ASSUME Tied(srv)
               PROVE  Tied(srv')
  BY DEF Ties
<1>2. PICK m \in Macs, ip \in IPs, h \in AdminHosts :
        /\ findLease(srv, m) # None
        /\ validateStaticLease(srv, StaticLease(m, ip, h))
        /\ Become(ReplaceLease(srv, findLease(srv, m), StaticLease(m, ip, h)).srv, pend)
  BY DEF UpdateStaticLease
<1> DEFINE t == ReplaceLease(srv, findLease(srv, m), StaticLease(m, ip, h)).srv
<1>3. Sound(t) /\ DOMAIN srv.obj \subseteq DOMAIN t.obj /\ Tied(t)
  BY <1>1, <1>2, ReplaceFacts DEF Core
<1>4. Become(t, pend)
  BY <1>2
<1> HIDE DEF t
<1> QED
  BY <1>3, <1>4, HeldOn, BecomeTied DEF Core

LEMMA RemoveStaticTies ==
    ASSUME Core, RemoveStaticLease
    PROVE  Ties
<1>1. SUFFICES ASSUME Tied(srv)
               PROVE  Tied(srv')
  BY DEF Ties
<1>2. PICK id \in Range(srv.leases) : Become(rmLease(srv, srv.obj[id]).srv, pend)
  BY DEF RemoveStaticLease
<1> DEFINE t == rmLease(srv, srv.obj[id]).srv
<1>3. Sound(srv) /\ srv \in Server /\ Pointers(srv) /\ Held(srv, pend)
  BY DEF Core, Sound
<1>4. t = srv \/ \E i \in DOMAIN srv.leases : t = Removed(srv, i)
  BY <1>3, RmLeaseFacts
<1>5. Become(t, pend)
  BY <1>2
<1> HIDE DEF t
<1>6. CASE t = srv
  BY <1>1, <1>3, <1>5, <1>6, BecomeTied
<1>7. CASE \E i \in DOMAIN srv.leases : t = Removed(srv, i)
  <2>1. PICK i \in DOMAIN srv.leases : t = Removed(srv, i)
    BY <1>7
  <2>2. t.obj = srv.obj
    BY <1>3, <2>1, RemovedFacts
  <2>3. Sound(t) /\ Tied(t) /\ Held(t, pend)
    BY <1>1, <1>3, <2>1, <2>2, RemovedSound, RemovedTied, HeldOn
  <2> QED
    BY <1>5, <2>3, BecomeTied
<1> QED
  BY <1>4, <1>6, <1>7

LEMMA ResetTies ==
    ASSUME Core, resetLeases
    PROVE  Ties
<1> DEFINE t == [NoLeases EXCEPT !.obj = srv.obj]
<1>1. Sound(srv) /\ srv \in Server /\ Held(srv, pend)
  BY DEF Core, Sound
<1>2. /\ t.obj = srv.obj /\ t.leases = <<>>
      /\ t.hostsIndex = [h \in Names |-> None] /\ t.ipIndex = [ip \in IPs |-> None]
  BY DEF NoLeases
<1>3. t \in Server
  <2>1. NoLeases \in Server
    BY DEF NoLeases, Server
  <2>2. srv.obj \in Seq(Lease)
    BY <1>1 DEF Server
  <2> HIDE DEF NoLeases
  <2> QED
    BY <2>1, <2>2 DEF Server
<1>4. Become(t, pend)
  BY DEF resetLeases
<1> HIDE DEF t
<1>5. DOMAIN t.leases = {}
  BY <1>2
<1>6. Sound(t) /\ Tied(t)
  BY <1>2, <1>3, <1>5 DEF Sound, Pointers, Apart, Covered, Tied
<1>7. Held(t, pend)
  BY <1>1, <1>2, HeldOn
<1> QED
  BY <1>4, <1>6, <1>7, BecomeTied DEF Ties

LEMMA RestartTies ==
    ASSUME Core, Restart
    PROVE  Ties
<1>1. PICK order \in SetToSeqs(db) : Become(ResetLeases(order), [m \in Macs |-> Idle])
  BY DEF Restart
<1> DEFINE t == ResetLeases(order)
           p == [m \in Macs |-> Idle]
<1>2. Sound(t) /\ Tied(t)
  <2>1. /\ order \in Seq(Lease)
        /\ \A i, j \in DOMAIN order : i # j =>
             /\ order[i].ip # order[j].ip
             /\ order[i].mac # ZeroMac => order[i].mac # order[j].mac
    BY OrderFacts DEF Core
  <2> QED
    BY <2>1, ResetFacts
<1>3. Held(t, p)
  <2>1. Idle \in PendType /\ Idle.id = None /\ Idle.pc # "commit"
    BY PoolFacts DEF Idle, PendType
  <2> HIDE DEF Idle, t
  <2> QED
    BY <2>1 DEF Held
<1>4. Become(t, p)
  BY <1>1
<1> HIDE DEF t, p
<1> QED
  BY <1>2, <1>3, <1>4, BecomeTied DEF Ties

LEMMA StepTies ==
    ASSUME Core, Next
    PROVE  Ties
<1>1. ASSUME NEW m \in Macs,
             \/ handleDiscover(m) \/ handleByRequestType(m) \/ handleRequest(m)
             \/ handleRelease(m) \/ handleDeclineNotify(m) \/ handleDecline(m)
      PROVE  Ties
  <2>1. CASE handleByRequestType(m) \/ handleDeclineNotify(m)
    BY <2>1 DEF handleByRequestType, handleDeclineNotify, Ties
  <2> QED
    BY <1>1, <2>1, DiscoverTies, RequestTies, ReleaseTies, DeclineTies
<1>2. CASE AddStaticLease \/ UpdateStaticLease \/ RemoveStaticLease \/ resetLeases
  BY <1>2, AddStaticTies, UpdateStaticTies, RemoveStaticTies, ResetTies
<1>3. CASE Tick
  BY <1>3 DEF Tick, Ties
<1> QED
  BY <1>1, <1>2, <1>3, RestartTies DEF Next

IndexInv == Unless(Untied, Tied(srv))

(* As long as, besides, no lease loses its hostname and no commit takes    *)
(* that of another, the indexes of v4Server hold its leases under their    *)
(* own addresses and names, and nothing else, for every pool, whatever     *)
(* clients, administrators and restarts do: HostByIP, FindMACbyIP and      *)
(* IPByHost answer what the slice says (v4_unix.go:115).                   *)
THEOREM IndexesTied == Spec => []IndexesAgree
<1>1. Init => IndexInv
  <2>1. Init => DOMAIN srv.leases = {}
    BY DEF Init, NoLeases
  <2> QED
    BY <2>1 DEF Init, NoLeases, IndexInv, Unless, Tied
<1>2. LeaseInv /\ IndexInv /\ [Next]_vars => IndexInv'
  <2> SUFFICES ASSUME LeaseInv, IndexInv, [Next]_vars, mishaps' \cap Untied = {}
               PROVE  Tied(srv')
    BY DEF IndexInv, Unless
  <2>1. mishaps \cap Untied = {} /\ mishaps \cap Doubled = {}
    BY MishapsStay DEF Untied
  <2>2. Core /\ Tied(srv)
    BY <2>1 DEF LeaseInv, IndexInv, Unless
  <2>3. CASE UNCHANGED vars
    BY <2>2, <2>3 DEF vars
  <2>4. CASE Next
    BY <2>2, <2>4, StepTies DEF Ties
  <2> QED
    BY <2>3, <2>4
<1>3. LeaseInv /\ IndexInv => IndexesAgree
  <2> SUFFICES ASSUME LeaseInv, IndexInv, mishaps \cap Untied = {}
               PROVE  /\ \A id \in Range(srv.leases) :
                           LET l == srv.obj[id]
                           IN  /\ srv.ipIndex[l.ip] = id
                               /\ l.host # NoHost => srv.hostsIndex[l.host] = id
                      /\ \A ip \in IPs : srv.ipIndex[ip] # None =>
                           /\ srv.ipIndex[ip] \in Range(srv.leases)
                           /\ srv.obj[srv.ipIndex[ip]].ip = ip
                      /\ \A h \in Names : srv.hostsIndex[h] # None =>
                           /\ srv.hostsIndex[h] \in Range(srv.leases)
                           /\ srv.obj[srv.hostsIndex[h]].host = h
    BY DEF IndexesAgree, Unless, Untied, Doubled
  <2>1. Covered(srv) /\ Tied(srv)
    BY DEF LeaseInv, IndexInv, Unless, Untied, Core, Sound
  <2> QED
    BY <2>1 DEF Covered, Tied, At, Range
<1> QED
  BY <1>1, <1>2, <1>3, LeaseInvariance, PTL DEF Spec
-----------------------------------------------------------------------------
(* The leases and the file, without regard to who shares an address.       *)

(* A dynamic lease has an address of the range.                            *)
InPool(s) == \A k \in DOMAIN s.leases : At(s, k).static \/ At(s, k).ip \in Pool

Shape(s) == s \in Server /\ Pointers(s) /\ InPool(s)

(* What a handler may leave.                                               *)
Carried(s, t) == Shape(t) /\ DOMAIN s.obj \subseteq DOMAIN t.obj

(* What a file may hold.                                                   *)
Fileable(ls) ==
    /\ ls \subseteq Lease /\ IsFiniteSet(ls)
    /\ \A l \in ls : l.static \/ l.ip \in Pool

LEMMA ShapeStored ==
    ASSUME NEW s, Shape(s)
    PROVE  Fileable(Stored(s)) /\ Stored(s) = {At(s, k) : k \in DOMAIN s.leases}
<1>1. s \in Server /\ Pointers(s) /\ InPool(s)
  BY DEF Shape
<1>2. Stored(s) = {At(s, k) : k \in DOMAIN s.leases}
  BY DEF Stored, Range, At
<1>3. IsFiniteSet(DOMAIN s.leases)
  BY <1>1, AtLease, FS_Interval
<1>4. IsFiniteSet({At(s, k) : k \in DOMAIN s.leases})
  <2> DEFINE f == [k \in DOMAIN s.leases |-> At(s, k)]
             T == {At(s, k) : k \in DOMAIN s.leases}
  <2>1. f \in Surjection(DOMAIN s.leases, T)
    BY DEF Surjection
  <2> HIDE DEF f, T
  <2>2. IsFiniteSet(T)
    BY <1>3, <2>1, FS_Surjection
  <2> QED
    BY <2>2 DEF T
<1>5. \A k \in DOMAIN s.leases : At(s, k) \in Lease
  BY <1>1, AtLease
<1> QED
  BY <1>1, <1>2, <1>4, <1>5 DEF Fileable, InPool

LEMMA BecomeMoves ==
    ASSUME NEW s, Shape(s), NEW p, Held(s, p), Become(s, p)
    PROVE  /\ Shape(srv') /\ Held(srv', pend')
           /\ Stored(srv') = Stored(s) /\ Fileable(Stored(srv'))
           /\ Len(srv'.leases) = Len(s.leases)
<1>1. s \in Server /\ Pointers(s) /\ InPool(s) /\ Held(s, p)
  BY DEF Shape
<1>2. srv' = Collect(s, p).srv /\ pend' = Collect(s, p).pend
  BY DEF Become
<1>3. PICK num : Moved(num, s, p, Collect(s, p).srv, Collect(s, p).pend)
  BY <1>1, CollectMoves
<1>4. Moved(num, s, p, srv', pend')
  BY <1>2, <1>3
<1> HIDE DEF Become
<1>5. /\ srv' \in Server /\ Pointers(srv') /\ Held(srv', pend')
      /\ DOMAIN srv'.leases = DOMAIN s.leases
      /\ \A k \in DOMAIN s.leases : At(srv', k) = At(s, k)
      /\ Stored(srv') = Stored(s)
  BY <1>1, <1>4, MovedKeeps
<1>6. Shape(srv')
  BY <1>1, <1>5 DEF Shape, InPool
<1>7. Len(srv'.leases) = Len(s.leases)
  <2>1. /\ DOMAIN srv'.leases = 1..Len(srv'.leases) /\ Len(srv'.leases) \in Nat
        /\ DOMAIN s.leases = 1..Len(s.leases) /\ Len(s.leases) \in Nat
    BY <1>1, <1>5, AtLease
  <2>2. \A a, b \in Nat : 1..a = 1..b => a = b
    OBVIOUS
  <2>3. 1..Len(srv'.leases) = 1..Len(s.leases)
    BY <1>5, <2>1
  <2> QED
    BY <2>1, <2>2, <2>3
<1> QED
  BY <1>5, <1>6, <1>7, ShapeStored

LEMMA BecomeShape ==
    ASSUME NEW s, Carried(srv, s), NEW p, Held(srv, p), Become(s, p)
    PROVE  /\ Shape(srv') /\ Held(srv', pend')
           /\ Stored(srv') = Stored(s) /\ Fileable(Stored(srv'))
<1>1. Shape(s) /\ Held(s, p)
  BY HeldOn DEF Carried
<1> QED
  BY <1>1, BecomeMoves

LEMMA CarriedTwice ==
    ASSUME NEW s, NEW t, NEW u, Carried(s, t), Carried(t, u)
    PROVE  Carried(s, u)
BY DEF Carried

LEMMA NewShape ==
    ASSUME NEW s, Shape(s), NEW l \in Lease
    PROVE  /\ Carried(s, New(s, l))
           /\ Fresh(s) \in DOMAIN New(s, l).obj /\ New(s, l).obj[Fresh(s)] = l
<1>1. s \in Server /\ Pointers(s) /\ InPool(s)
  BY DEF Shape
<1>2. /\ New(s, l) \in Server /\ Pointers(New(s, l)) /\ New(s, l).leases = s.leases
      /\ DOMAIN New(s, l).obj = DOMAIN s.obj \cup {Fresh(s)}
      /\ New(s, l).obj[Fresh(s)] = l
      /\ \A k \in DOMAIN s.leases : At(New(s, l), k) = At(s, k)
  BY <1>1, NewFacts
<1> QED
  BY <1>1, <1>2 DEF Carried, Shape, InPool

LEMMA AddShape ==
    ASSUME NEW s, Shape(s), NEW id \in DOMAIN s.obj
    PROVE  Carried(s, addLease(s, id).srv) /\ addLease(s, id).srv.obj = s.obj
<1> DEFINE t == addLease(s, id).srv
<1>1. CASE addLease(s, id).err
  BY <1>1 DEF addLease, Carried
<1>2. CASE ~addLease(s, id).err
  <2>1. s \in Server /\ Pointers(s) /\ InPool(s)
    BY DEF Shape
  <2>2. /\ t \in Server /\ Pointers(t) /\ t.obj = s.obj /\ t.leases = Append(s.leases, id)
        /\ s.obj[id].static \/ s.obj[id].ip \in Pool
    BY <1>2, <2>1, AddFacts
  <2>3. s.leases \in Seq(Nat) /\ id \in Nat
    BY <2>1, AtLease DEF Server
  <2> HIDE DEF t
  <2>4. \A k \in DOMAIN t.leases :
          (k \in DOMAIN s.leases /\ t.leases[k] = s.leases[k]) \/ t.leases[k] = id
    BY <2>2, <2>3
  <2>5. \A k \in DOMAIN t.leases :
          (k \in DOMAIN s.leases /\ At(t, k) = At(s, k)) \/ At(t, k) = s.obj[id]
    BY <2>2, <2>4 DEF At
  <2>6. InPool(t)
    BY <2>1, <2>2, <2>5 DEF InPool
  <2> QED
    BY <2>2, <2>6 DEF Carried, Shape, t
<1> QED
  BY <1>1, <1>2

LEMMA ThinnedShape ==
    ASSUME NEW s, Shape(s), NEW t, NEW mac, NEW ip, Thinned(s, t, mac, ip)
    PROVE  Carried(s, t)
<1>1. s \in Server /\ Pointers(s) /\ InPool(s)
  BY DEF Shape
<1>2. /\ t \in Server /\ Pointers(t) /\ DOMAIN t.obj = DOMAIN s.obj
      /\ \A j \in DOMAIN s.obj : Same(t.obj[j], s.obj[j])
      /\ Range(t.leases) \subseteq Range(s.leases)
  BY DEF Thinned
<1>3. ASSUME NEW k \in DOMAIN t.leases
      PROVE  At(t, k).static \/ At(t, k).ip \in Pool
  <2>1. PICK j \in DOMAIN s.leases : t.leases[k] = s.leases[j]
    BY <1>2 DEF Range
  <2>2. Same(At(t, k), At(s, j))
    BY <1>1, <1>2, <2>1 DEF At, Pointers
  <2> QED
    BY <1>1, <2>2 DEF InPool, Same
<1> QED
  BY <1>2, <1>3 DEF Carried, Shape, InPool

LEMMA RemovedShape ==
    ASSUME NEW s, Shape(s), NEW i \in DOMAIN s.leases
    PROVE  Carried(s, Removed(s, i))
<1> DEFINE t == Removed(s, i)
<1>1. s \in Server /\ Pointers(s) /\ InPool(s)
  BY DEF Shape
<1>2. /\ t \in Server /\ Pointers(t) /\ t.obj = s.obj
      /\ \A k \in DOMAIN t.leases : /\ Gap(i, k) \in DOMAIN s.leases \ {i}
                                    /\ t.leases[k] = s.leases[Gap(i, k)]
                                    /\ At(t, k) = At(s, Gap(i, k))
  BY <1>1, RemovedFacts
<1> HIDE DEF t
<1> QED
  BY <1>1, <1>2 DEF Carried, Shape, InPool, t

LEMMA RmLeaseShape ==
    ASSUME NEW s, Shape(s), NEW l
    PROVE  Carried(s, rmLease(s, l).srv)
<1> DEFINE r == rmLease(s, l)
<1>1. \/ r.srv = s /\ (r.err \/ s.leases = <<>>)
      \/ /\ ~r.err
         /\ \E i \in DOMAIN s.leases : At(s, i).ip = l.ip /\ r.srv = Removed(s, i)
  BY RmLeaseFacts DEF Shape
<1> HIDE DEF r
<1>2. Carried(s, r.srv)
  BY <1>1, RemovedShape DEF Carried
<1> QED
  BY <1>2 DEF r

LEMMA PutShape ==
    ASSUME NEW s, Shape(s), NEW id \in DOMAIN s.obj, NEW l \in Lease,
           l.ip = s.obj[id].ip, l.static = s.obj[id].static
    PROVE  Carried(s, Put(s, id, l)) /\ DOMAIN Put(s, id, l).obj = DOMAIN s.obj
<1> DEFINE t == Put(s, id, l)
<1>1. s \in Server /\ Pointers(s) /\ InPool(s)
  BY DEF Shape
<1>2. /\ t \in Server /\ Pointers(t) /\ DOMAIN t.obj = DOMAIN s.obj /\ t.leases = s.leases
      /\ \A k \in DOMAIN s.leases : At(t, k) = IF s.leases[k] = id THEN l ELSE At(s, k)
  BY <1>1, PutFacts
<1> HIDE DEF t
<1>3. InPool(t)
  <2>1. \A k \in DOMAIN s.leases : s.leases[k] = id => At(s, k) = s.obj[id]
    BY DEF At
  <2> QED
    BY <1>1, <1>2, <2>1 DEF InPool
<1> QED
  BY <1>2, <1>3 DEF Carried, Shape, t

LEMMA ReserveShape ==
    ASSUME NEW s, Shape(s), NEW mac \in Macs
    PROVE  LET r == reserveLease(s, mac)
           IN  Carried(s, r.srv) /\ (r.id # None => r.id \in DOMAIN r.srv.obj)
<1> DEFINE free == Pool \ s.leasedOffsets
           l == [mac |-> mac, ip |-> Min(free), host |-> NoHost, exp |-> 0, static |-> FALSE]
           u == New(s, l)
           id == Fresh(s)
           t == addLease(u, id).srv
           old == FirstLease(s, Expired)
           v == [s EXCEPT !.obj[old].mac = mac]
           r == reserveLease(s, mac)
<1>1. s \in Server /\ Pointers(s)
  BY DEF Shape
<1>2. r = IF free # {} THEN [srv |-> t, id |-> id]
          ELSE IF old = None THEN [srv |-> s, id |-> None]
          ELSE [srv |-> v, id |-> old]
  <2>1. [Blank EXCEPT !.mac = mac, !.ip = Min(free)] = l
    BY BlankFor
  <2>2. r = IF free # {}
            THEN [srv |-> addLease(New(s, [Blank EXCEPT !.mac = mac, !.ip = Min(free)]), id).srv,
                  id |-> id]
            ELSE IF old = None THEN [srv |-> s, id |-> None]
            ELSE [srv |-> v, id |-> old]
    BY DEF reserveLease
  <2> HIDE DEF r, l, id, free, old, v
  <2> QED
    BY <2>1, <2>2
<1>3. ASSUME free # {}
      PROVE  Carried(s, t) /\ id \in DOMAIN t.obj
  <2>1. Min(free) \in free
    <3>1. free \in SUBSET Nat
      BY PoolFacts
    <3> HIDE DEF free
    <3> QED
      BY <1>3, <3>1, MinFacts
  <2>2. l \in Lease
    BY <2>1, PoolFacts DEF Lease, Names
  <2> HIDE DEF l
  <2>3. Carried(s, u) /\ id \in DOMAIN u.obj
    BY <2>2, NewShape
  <2> HIDE DEF u, id
  <2>4. Carried(u, t) /\ t.obj = u.obj
    BY <2>3, AddShape DEF Carried
  <2> HIDE DEF t
  <2> QED
    BY <2>3, <2>4, CarriedTwice
<1>4. ASSUME old # None
      PROVE  Carried(s, v) /\ old \in DOMAIN v.obj
  <2>1. PICK k \in DOMAIN s.leases : old = s.leases[k] /\ Expired(At(s, k))
    BY <1>1, <1>4, ExpiredFacts
  <2>2. old \in DOMAIN s.obj /\ s.obj[old] \in Lease
    BY <1>1, <2>1, AtLease DEF Pointers
  <2> HIDE DEF old
  <2> DEFINE m == [s.obj[old] EXCEPT !.mac = mac]
  <2>3. m \in Lease /\ m.ip = s.obj[old].ip /\ m.static = s.obj[old].static
    BY <2>2 DEF Lease
  <2>4. v = Put(s, old, m)
    <3>1. \A o, x : [s EXCEPT !.obj[o].mac = x] = Put(s, o, [s.obj[o] EXCEPT !.mac = x])
      BY <1>1, PutMac
    <3> QED
      BY <3>1
  <2> HIDE DEF m, v
  <2> QED
    BY <2>2, <2>3, <2>4, PutShape
<1>5. Carried(s, s)
  BY DEF Carried
<1> HIDE DEF r, t, id, old, free, v
<1>6. Carried(s, r.srv) /\ (r.id # None => r.id \in DOMAIN r.srv.obj)
  <2>1. CASE free # {}
    BY <1>2, <1>3, <2>1
  <2>2. CASE free = {} /\ old = None
    BY <1>2, <1>5, <2>2
  <2>3. CASE free = {} /\ old # None
    BY <1>2, <1>4, <2>3
  <2> QED
    BY <2>1, <2>2, <2>3
<1> QED
  BY <1>6 DEF r

LEMMA BlockShape ==
    ASSUME NEW s, Shape(s), NEW id \in DOMAIN s.obj, now \in Nat
    PROVE  Carried(s, blocklistLease(s, id))
<1> DEFINE l == [mac |-> ZeroMac, ip |-> s.obj[id].ip, host |-> NoHost,
                 exp |-> now + LeaseTime, static |-> s.obj[id].static]
<1>1. s \in Server /\ Pointers(s) /\ s.obj[id] \in Lease
  BY AtLease DEF Shape
<1>2. l \in Lease /\ l.ip = s.obj[id].ip /\ l.static = s.obj[id].static
  BY <1>1, ConstantsAssumption DEF Lease, Names
<1>3. blocklistLease(s, id) = Put(s, id, l)
  BY <1>1, PutBlocked
<1> HIDE DEF l
<1> QED
  BY <1>2, <1>3, PutShape

LEMMA AllocateShape ==
    ASSUME NEW s, Shape(s), NEW mac \in Macs, NEW busy, now \in Nat
    PROVE  Carried(s, allocateLease(s, mac, busy).srv)
<1> DEFINE n == Turns(s)
           f == allocateLoop(s, mac, busy)
           S == {i \in 0..n : Carried(s, f[i].srv)}
<1>1. Len(s.leases) \in Nat
  BY AtLease DEF Shape
<1>2. /\ n \in Nat
      /\ f[0] = [srv |-> s, id |-> None, stop |-> FALSE]
      /\ \A i \in 1..n : f[i] = allocateStep(f[i - 1], mac, busy)
  BY <1>1, AllocLoopDef
<1>3. ASSUME NEW z, Carried(s, z.srv)
      PROVE  Carried(s, allocateStep(z, mac, busy).srv)
  <2> DEFINE r == reserveLease(z.srv, mac)
             b == blocklistLease(r.srv, r.id)
  <2>1. allocateStep(z, mac, busy)
        = IF z.stop THEN z
          ELSE IF r.id = None \/ r.srv.obj[r.id].ip \notin busy
          THEN [srv |-> r.srv, id |-> r.id, stop |-> TRUE]
          ELSE [srv |-> b, id |-> None, stop |-> FALSE]
    BY DEF allocateStep
  <2>2. Carried(z.srv, r.srv) /\ (r.id # None => r.id \in DOMAIN r.srv.obj)
    BY <1>3, ReserveShape DEF Carried
  <2> HIDE DEF r
  <2>3. Carried(s, r.srv)
    BY <1>3, <2>2, CarriedTwice
  <2>4. r.id # None => Carried(r.srv, b)
    BY <2>2, <2>3, BlockShape DEF Carried
  <2> HIDE DEF b
  <2>5. r.id # None => Carried(s, b)
    BY <2>3, <2>4, CarriedTwice
  <2> QED
    BY <1>3, <2>1, <2>3, <2>5
<1> HIDE DEF f, n
<1>4. 0 \in S
  BY <1>2 DEF Carried
<1>5. ASSUME NEW i \in 1..n, i - 1 \in S
      PROVE  i \in S
  <2>1. Carried(s, f[i - 1].srv) /\ f[i] = allocateStep(f[i - 1], mac, busy)
    BY <1>2, <1>5
  <2> QED
    BY <1>2, <1>3, <2>1
<1>6. n \in S
  <2>1. n \in Nat /\ n \in 0..n
    BY <1>2
  <2> HIDE DEF S
  <2> QED
    BY <1>4, <1>5, <2>1, Reaches
<1>7. allocateLease(s, mac, busy) = f[n]
  BY DEF allocateLease, f, n
<1> QED
  BY <1>6, <1>7

LEMMA CommitShape ==
    ASSUME NEW s, Shape(s), NEW id \in DOMAIN s.obj, NEW h \in Hosts \cup {NoHost}, now \in Nat
    PROVE  Carried(s, commitLease(s, id, h))
<1> DEFINE l == s.obj[id]
           host == CommitHost(s, id, h)
           m == [mac |-> l.mac, ip |-> l.ip, host |-> host, exp |-> now + LeaseTime,
                 static |-> l.static]
           hi == [n \in Names |-> IF n = host THEN id
                                  ELSE IF n = l.host THEN None ELSE s.hostsIndex[n]]
           ii == [s.ipIndex EXCEPT ![l.ip] = id]
           p == Put(s, id, m)
           t == [obj |-> p.obj, leases |-> s.leases, hostsIndex |-> hi, ipIndex |-> ii,
                 leasedOffsets |-> s.leasedOffsets]
<1>1. s \in Server /\ Pointers(s) /\ InPool(s) /\ l \in Lease /\ id \in Nat
  BY AtLease DEF Shape
<1>2. commitLease(s, id, h) = t
  BY <1>1, CommitIs DEF Committed
<1>3. host \in Names /\ l.ip \in IPs
  <2>1. h \in Names /\ l.host \in Names /\ l.ip \in IPs /\ Gen(l.ip) \in Names
    BY <1>1 DEF Names, Lease
  <2> QED
    BY <2>1 DEF CommitHost, validHostnameForClient
<1> HIDE DEF host
<1>4. m \in Lease /\ m.ip = l.ip /\ m.static = l.static
  BY <1>1, <1>3, ConstantsAssumption DEF Lease
<1> HIDE DEF m
<1>5. Carried(s, p) /\ DOMAIN p.obj = DOMAIN s.obj /\ p.leases = s.leases
  <2>1. p.leases = s.leases
    BY DEF Put
  <2> QED
    BY <1>4, <2>1, PutShape
<1> HIDE DEF p
<1>6. s.ipIndex \in [IPs -> Nat \cup {None}] /\ s.hostsIndex \in [Names -> Nat \cup {None}]
  BY <1>1 DEF Server
<1>7. /\ hi \in [Names -> Nat \cup {None}] /\ ii \in [IPs -> Nat \cup {None}]
      /\ \A n \in Names : hi[n] \in DOMAIN s.obj \cup {None}
      /\ \A ip \in IPs : ii[ip] \in DOMAIN s.obj \cup {None}
  <2> HIDE DEF l
  <2> QED
    BY <1>1, <1>6 DEF Pointers
<1> HIDE DEF hi, ii
<1>8. /\ t \in Server /\ t.obj = p.obj /\ t.leases = s.leases
      /\ t.hostsIndex = hi /\ t.ipIndex = ii
  BY <1>1, <1>5, <1>7 DEF Server, Carried, Shape
<1> HIDE DEF t
<1>9. Pointers(t)
  BY <1>1, <1>5, <1>7, <1>8 DEF Pointers
<1>10. InPool(t)
  BY <1>5, <1>8 DEF InPool, At, Carried, Shape
<1> QED
  BY <1>2, <1>5, <1>8, <1>9, <1>10 DEF Carried, Shape

LEMMA StaticShape ==
    ASSUME NEW m \in Macs, NEW ip \in IPs, NEW h \in AdminHosts
    PROVE  StaticLease(m, ip, h) \in Lease
BY ConstantsAssumption DEF StaticLease, Lease

LEMMA UpdateStaticShape ==
    ASSUME NEW s, Shape(s), NEW l \in Lease
    PROVE  Carried(s, updateStaticLease(s, l).srv)
<1> DEFINE u == New(s, l)
           id == Fresh(s)
           rm == rmDynamicLease(u, id)
           v == rm.srv
           t == updateStaticLease(s, l).srv
<1>1. t = IF rm.err THEN v ELSE addLease(v, id).srv
  BY DEF updateStaticLease
<1>2. Carried(s, u) /\ id \in DOMAIN u.obj
  BY NewShape
<1> HIDE DEF u, id
<1>3. Thinned(u, v, u.obj[id].mac, u.obj[id].ip)
  BY <1>2, RmDynamicFacts DEF Carried, Shape
<1> HIDE DEF rm
<1>4. Carried(u, v) /\ id \in DOMAIN v.obj
  <2>1. Carried(u, v)
    BY <1>2, <1>3, ThinnedShape DEF Carried
  <2> QED
    BY <1>2, <2>1 DEF Carried
<1>5. Carried(v, addLease(v, id).srv)
  BY <1>4, AddShape DEF Carried
<1>6. Carried(s, v) /\ Carried(s, addLease(v, id).srv)
  <2> HIDE DEF v
  <2> QED
    BY <1>2, <1>4, <1>5, CarriedTwice
<1> QED
  BY <1>1, <1>6

LEMMA ReplaceShape ==
    ASSUME NEW s, Shape(s), NEW found, NEW l \in Lease
    PROVE  Carried(s, ReplaceLease(s, found, l).srv)
<1> DEFINE rm == rmLease(s, s.obj[found])
           v == rm.srv
           u == New(v, l)
           id == Fresh(v)
           t == ReplaceLease(s, found, l).srv
<1>1. t = IF rm.err THEN v ELSE addLease(u, id).srv
  BY DEF ReplaceLease
<1>2. Carried(s, v)
  BY RmLeaseShape
<1> HIDE DEF rm
<1>3. Carried(v, u) /\ id \in DOMAIN u.obj
  <2> HIDE DEF v
  <2> QED
    BY <1>2, NewShape DEF Carried
<1>4. Carried(u, addLease(u, id).srv)
  <2> HIDE DEF u, id
  <2> QED
    BY <1>3, AddShape DEF Carried
<1>5. Carried(s, addLease(u, id).srv)
  <2> HIDE DEF u, id, v
  <2> QED
    BY <1>2, <1>3, <1>4, CarriedTwice
<1> QED
  BY <1>1, <1>2, <1>5

(* Loading a file: a lease is loaded, or another one has been that has the *)
(* hostname.                                                               *)
Taken(stored, j, t) ==
    \E i \in DOMAIN stored, k \in DOMAIN t.leases :
        /\ i # j /\ At(t, k) = Named(stored[i])
        /\ Named(stored[j]).host # NoHost
        /\ Named(stored[i]).host = Named(stored[j]).host

LEMMA ResetShape ==
    ASSUME NEW stored \in Seq(Lease),
           \A i \in DOMAIN stored : stored[i].static \/ stored[i].ip \in Pool
    PROVE  LET t == ResetLeases(stored)
           IN  /\ Shape(t) /\ Len(t.leases) <= Len(stored)
               /\ Len(t.leases) = Len(stored) =>
                    \A k \in DOMAIN stored :
                      k \in DOMAIN t.leases /\ At(t, k) = Named(stored[k])
               /\ \A k \in DOMAIN t.leases : \E j \in DOMAIN stored : At(t, k) = Named(stored[j])
               /\ \A j \in DOMAIN stored :
                    \/ \E k \in DOMAIN t.leases : At(t, k) = Named(stored[j])
                    \/ Taken(stored, j, t)
<1> DEFINE n == Len(stored)
           f == ResetLoop(stored)
           Loaded(s, j) == \E q \in DOMAIN s.leases : s.leases[q] = j
           Left(s, j) == /\ Named(stored[j]).host # NoHost
                         /\ \E q \in DOMAIN s.leases :
                              s.leases[q] # j /\ At(s, q).host = Named(stored[j]).host
           Indexed(s, h) == s.hostsIndex[h] # None =>
                              \E q \in DOMAIN s.leases :
                                s.leases[q] = s.hostsIndex[h] /\ At(s, q).host = h
           Fine(s, k) ==
             /\ Shape(s) /\ DOMAIN s.obj = 1..k
             /\ \A j \in 1..k : s.obj[j] = Named(stored[j])
             /\ Len(s.leases) <= k
             /\ Len(s.leases) = k => \A j \in 1..k : s.leases[j] = j
             /\ \A h \in Names : Indexed(s, h)
             /\ \A j \in 1..k : Loaded(s, j) \/ Left(s, j)
           S == {k \in 0..n : Fine(f[k], k)}
<1>1. n \in Nat /\ DOMAIN stored = 1..n
  OBVIOUS
<1>2. f[0] = NoLeases /\ \A i \in 1..n : f[i] = addLease(New(f[i - 1], Named(stored[i])), i).srv
  BY <1>1, ResetLoopDef
<1>3. Fine(NoLeases, 0)
  <2>1. NoLeases \in Server
    BY DEF NoLeases, Server
  <2>2. DOMAIN NoLeases.obj = {} /\ DOMAIN NoLeases.leases = {} /\ Len(NoLeases.leases) = 0
    BY DEF NoLeases
  <2>3. Pointers(NoLeases)
    BY <2>2 DEF NoLeases, Pointers
  <2>4. Shape(NoLeases)
    BY <2>1, <2>2, <2>3 DEF Shape, InPool
  <2>5. 1..0 = {}
    OBVIOUS
  <2>6. \A h \in Names : Indexed(NoLeases, h)
    BY DEF NoLeases
  <2> QED
    BY <2>2, <2>4, <2>5, <2>6
<1>4. \A k \in 1..n : /\ Named(stored[k]) \in Lease /\ Named(stored[k]).host \in Names
                      /\ Named(stored[k]).static \/ Named(stored[k]).ip \in Pool
  <2> SUFFICES ASSUME NEW k \in 1..n
               PROVE  /\ Named(stored[k]) \in Lease /\ Named(stored[k]).host \in Names
                      /\ Named(stored[k]).static \/ Named(stored[k]).ip \in Pool
    OBVIOUS
  <2>1. stored[k] \in Lease /\ (stored[k].static \/ stored[k].ip \in Pool)
    BY <1>1
  <2>2. Named(stored[k]) \in Lease /\ Same(Named(stored[k]), stored[k])
    BY <2>1, NamedFacts
  <2>3. Named(stored[k]).host \in Names
    BY <2>2 DEF Lease
  <2> QED
    BY <2>1, <2>2, <2>3 DEF Same
<1>5. ASSUME NEW s, NEW k \in 1..n, Fine(s, k - 1)
      PROVE  Fine(addLease(New(s, Named(stored[k])), k).srv, k)
  <2> DEFINE l == Named(stored[k])
             u == New(s, l)
             t == addLease(u, k).srv
  <2>1. s \in Server /\ Pointers(s) /\ Shape(s)
    BY <1>5 DEF Shape
  <2>2. Fresh(s) = k
    <3>1. DOMAIN s.obj = 1..Len(s.obj) /\ Len(s.obj) \in Nat
      BY <2>1, AtLease
    <3>2. 1..Len(s.obj) = 1..(k - 1)
      BY <1>5, <3>1
    <3>3. Len(s.obj) = k - 1
      BY <1>1, <3>1, <3>2
    <3> QED
      BY <1>1, <3>3 DEF Fresh
  <2>3. l \in Lease /\ l.host \in Names /\ (l.static \/ l.ip \in Pool)
    BY <1>4
  <2> HIDE DEF l
  <2>4. /\ u \in Server /\ Pointers(u) /\ Shape(u) /\ u.leases = s.leases
        /\ u.hostsIndex = s.hostsIndex
        /\ DOMAIN u.obj = DOMAIN s.obj \cup {k} /\ u.obj[k] = l
        /\ \A j \in DOMAIN s.obj : u.obj[j] = s.obj[j]
        /\ \A j \in DOMAIN s.leases : At(u, j) = At(s, j)
    BY <2>1, <2>2, <2>3, NewFacts, NewShape DEF Carried
  <2> HIDE DEF u
  <2>5. DOMAIN u.obj = 1..k /\ \A j \in 1..k : u.obj[j] = Named(stored[j])
    <3>1. 1..k = (1..(k - 1)) \cup {k}
      OBVIOUS
    <3> QED
      BY <1>5, <2>4, <3>1 DEF l
  <2>6. /\ \A h \in Names : Indexed(u, h)
        /\ \A j \in 1..(k - 1) : Loaded(u, j) \/ Left(u, j)
        /\ \A q \in DOMAIN s.leases : s.leases[q] \in 1..(k - 1)
    BY <1>5, <2>1, <2>4 DEF Pointers
  <2>7. Shape(t)
    BY <2>4, AddShape DEF Carried
  <2>8. Len(s.leases) \in Nat /\ s.leases \in Seq(Nat)
    BY <2>1 DEF Server
  <2>9. \A j \in 1..k : j = k \/ j \in 1..(k - 1)
    OBVIOUS
  <2>10. ASSUME addLease(u, k).err
         PROVE  Fine(t, k)
    <3>1. t = u
      BY <2>10 DEF addLease
    <3>2. l.host # NoHost /\ u.hostsIndex[l.host] # None
      BY <2>3, <2>4, <2>10 DEF addLease
    <3> HIDE DEF t
    <3>3. PICK q \in DOMAIN u.leases : At(u, q).host = l.host
      BY <2>3, <2>6, <3>2
    <3>4. u.leases[q] # k
      BY <2>4, <2>6
    <3>5. Left(u, k)
      BY <3>2, <3>3, <3>4 DEF l
    <3>6. \A j \in 1..k : Loaded(u, j) \/ Left(u, j)
      <4> HIDE DEF Loaded, Left
      <4> QED
        BY <2>6, <2>9, <3>5
    <3>7. Len(u.leases) <= k /\ Len(u.leases) # k
      BY <1>5, <2>4, <2>8
    <3> HIDE DEF Loaded, Left, Indexed
    <3> QED
      BY <2>4, <2>5, <2>6, <3>1, <3>6, <3>7
  <2>11. ASSUME ~addLease(u, k).err
         PROVE  Fine(t, k)
    <3>1. /\ t.obj = u.obj /\ t.leases = Append(u.leases, k)
          /\ t.hostsIndex = IF l.host = NoHost THEN u.hostsIndex
                            ELSE [u.hostsIndex EXCEPT ![l.host] = k]
      BY <2>4, <2>11, AddFacts
    <3> HIDE DEF t
    <3>2. t.leases = Append(s.leases, k)
      BY <2>4, <3>1
    <3>3. /\ Len(t.leases) = Len(s.leases) + 1 /\ t.leases[Len(s.leases) + 1] = k
          /\ DOMAIN t.leases = 1..(Len(s.leases) + 1) /\ DOMAIN s.leases = 1..Len(s.leases)
          /\ \A j \in 1..Len(s.leases) : t.leases[j] = s.leases[j]
      BY <2>8, <3>2
    <3>4. Len(t.leases) <= k
      BY <1>5, <2>8, <3>3
    <3>5. ASSUME Len(t.leases) = k
          PROVE  \A j \in 1..k : t.leases[j] = j
      <4>1. Len(s.leases) = k - 1
        BY <2>8, <3>3, <3>5
      <4>2. \A j \in 1..(k - 1) : s.leases[j] = j
        BY <1>5, <4>1
      <4> QED
        BY SMTT(30), <2>9, <3>3, <4>1, <4>2
    <3> DEFINE e == Len(s.leases) + 1
    <3>6. e \in DOMAIN t.leases /\ t.leases[e] = k /\ At(t, e) = l
      BY <2>4, <2>8, <3>1, <3>3 DEF At
    <3>7. \A q \in DOMAIN u.leases :
            q \in DOMAIN t.leases /\ t.leases[q] = u.leases[q] /\ At(t, q) = At(u, q)
      BY <2>4, <2>8, <3>1, <3>3 DEF At
    <3> HIDE DEF e
    <3>8. ASSUME NEW h \in Names
          PROVE  Indexed(t, h)
      <4>1. CASE h = l.host /\ l.host # NoHost
        <5>1. t.hostsIndex[h] = k
          <6>1. u.hostsIndex \in [Names -> Nat \cup {None}]
            BY <2>4 DEF Server
          <6> QED
            BY <3>1, <4>1, <6>1
        <5> QED
          BY <3>6, <4>1, <5>1
      <4>2. CASE ~(h = l.host /\ l.host # NoHost)
        <5>1. t.hostsIndex[h] = u.hostsIndex[h]
          <6>1. u.hostsIndex \in [Names -> Nat \cup {None}]
            BY <2>4 DEF Server
          <6> QED
            BY <3>1, <4>2, <6>1
        <5>2. Indexed(u, h)
          BY <2>6
        <5> QED
          BY <3>7, <5>1, <5>2
      <4> QED
        BY <4>1, <4>2
    <3>9. Loaded(t, k)
      BY <3>6
    <3>10. ASSUME NEW j \in 1..(k - 1)
           PROVE  Loaded(t, j) \/ Left(t, j)
      <4>1. CASE Loaded(u, j)
        BY <3>7, <4>1
      <4>2. CASE Left(u, j)
        BY <3>7, <4>2
      <4> QED
        BY <2>6, <4>1, <4>2
    <3> HIDE DEF Loaded, Left, Indexed
    <3>11. \A j \in 1..k : Loaded(t, j) \/ Left(t, j)
      BY <2>9, <3>9, <3>10
    <3> QED
      BY <2>5, <2>7, <3>1, <3>4, <3>5, <3>8, <3>11
  <2>12. Fine(t, k)
    BY <2>10, <2>11
  <2> HIDE DEF Fine
  <2> QED
    BY <2>12 DEF t, u, l
<1> HIDE DEF f
<1>6. 0 \in S
  <2>1. Fine(f[0], 0)
    <3> HIDE DEF Fine
    <3> QED
      BY <1>2, <1>3
  <2> HIDE DEF Fine
  <2> QED
    BY <1>1, <2>1
<1>7. ASSUME NEW i \in 1..n, i - 1 \in S
      PROVE  i \in S
  <2>1. Fine(f[i - 1], i - 1) /\ f[i] = addLease(New(f[i - 1], Named(stored[i])), i).srv
    BY <1>2, <1>7
  <2> HIDE DEF Fine
  <2> QED
    BY <1>1, <1>5, <2>1
<1>8. n \in S
  <2>1. n \in Nat /\ n \in 0..n
    BY <1>1
  <2> HIDE DEF S, n
  <2> QED
    BY <1>6, <1>7, <2>1, Reaches
<1> DEFINE t == ResetLeases(stored)
<1>9. t = f[n]
  BY DEF ResetLeases, f
<1> HIDE DEF t
<1>10. Fine(t, n)
  BY <1>8, <1>9
<1>11. DOMAIN t.leases = 1..Len(t.leases) /\ Pointers(t)
  BY <1>10, AtLease DEF Shape
<1>12. \A k \in DOMAIN t.leases : t.leases[k] \in 1..n /\ At(t, k) = Named(stored[t.leases[k]])
  BY <1>10, <1>11 DEF Pointers, At
<1>13. ASSUME NEW j \in DOMAIN stored
       PROVE  \/ \E k \in DOMAIN t.leases : At(t, k) = Named(stored[j])
              \/ Taken(stored, j, t)
  <2>1. CASE Loaded(t, j)
    BY <1>12, <2>1
  <2>2. CASE Left(t, j)
    <3>1. PICK q \in DOMAIN t.leases : t.leases[q] # j /\ At(t, q).host = Named(stored[j]).host
      BY <2>2
    <3> DEFINE i == t.leases[q]
    <3>2. i \in DOMAIN stored /\ i # j /\ At(t, q) = Named(stored[i])
      BY <1>1, <1>12, <3>1
    <3> HIDE DEF i
    <3> QED
      BY <2>2, <3>1, <3>2 DEF Taken
  <2> QED
    BY <1>1, <1>10, <2>1, <2>2
<1>14. \A k \in DOMAIN t.leases : \E j \in DOMAIN stored : At(t, k) = Named(stored[j])
  BY <1>1, <1>12
<1>15. /\ Shape(t) /\ Len(t.leases) <= Len(stored)
       /\ Len(t.leases) = n => \A j \in 1..n : t.leases[j] = j
  BY <1>10
<1>16. Len(t.leases) = Len(stored) =>
         \A k \in DOMAIN stored : k \in DOMAIN t.leases /\ At(t, k) = Named(stored[k])
  BY <1>1, <1>11, <1>12, <1>15
<1> QED
  BY <1>13, <1>14, <1>15, <1>16 DEF t

-----------------------------------------------------------------------------
(* The file, over the actions.                                             *)

(* The mishaps after which the file is no longer what v4Server has.        *)
Unfiled == {"decline", "unstored", "dropped"}

(* The file holds the leases, or a restart has given names to those it has *)
(* read.                                                                   *)
Filed ==
    /\ now \in Nat
    /\ used \in [admin : Nat, decline : Nat, restart : Nat]
    /\ Shape(srv) /\ Held(srv, pend) /\ Fileable(db)
    /\ Stored(srv) \in {db, {Named(l) : l \in db}}

FileInv == Unless(Unfiled, Filed)

(* Where the handlers end.                                                 *)
LEMMA DoneFiled ==
    ASSUME Filed, NEW s, Carried(srv, s), NEW p, Held(srv, p), Become(s, p),
           now' = now, used' \in [admin : Nat, decline : Nat, restart : Nat],
           db' = Stored(srv') \/ (db' = db /\ Stored(srv') = Stored(srv))
    PROVE  Filed'
<1>1. /\ Shape(srv') /\ Held(srv', pend')
      /\ Stored(srv') = Stored(s) /\ Fileable(Stored(srv'))
  BY BecomeShape
<1> QED
  BY <1>1 DEF Filed

LEMMA DiscoverFiled ==
    ASSUME Filed, NEW m \in Macs, handleDiscover(m)
    PROVE  Filed'
<1>1. PICK busy \in BusySets :
        Become(IF findLease(srv, m) # None THEN srv ELSE allocateLease(srv, m, busy).srv, pend)
  BY DEF handleDiscover
<1> DEFINE s == IF findLease(srv, m) # None THEN srv ELSE allocateLease(srv, m, busy).srv
<1>2. Carried(srv, s)
  BY AllocateShape DEF Filed, Carried
<1>3. now' = now /\ used' = used /\ db' = Stored(srv')
  BY DEF handleDiscover, dbStore
<1>4. Become(s, pend)
  BY <1>1
<1> HIDE DEF s
<1> QED
  BY <1>2, <1>3, <1>4, DoneFiled DEF Filed

LEMMA ByRequestTypeFiled ==
    ASSUME Filed, NEW m \in Macs, handleByRequestType(m)
    PROVE  Filed'
<1>1. Held(srv, pend')
  BY HeldCommit DEF Filed, Shape
<1>2. UNCHANGED <<now, srv, db, used>>
  BY DEF handleByRequestType
<1> QED
  BY <1>1, <1>2 DEF Filed

LEMMA RequestFiled ==
    ASSUME Filed, NEW m \in Macs, handleRequest(m)
    PROVE  Filed'
<1> DEFINE id == pend[m].id
           s == IF srv.obj[id].static THEN srv ELSE commitLease(srv, id, pend[m].host)
           p == [pend EXCEPT ![m] = Idle]
<1>1. /\ Become(s, p) /\ db' = Stored(srv') /\ now' = now /\ used' = used
      /\ pend[m].pc = "commit"
  BY DEF handleRequest, dbStore
<1>2. id \in DOMAIN srv.obj /\ pend[m].host \in Hosts \cup {NoHost}
  BY <1>1 DEF Filed, Held, PendType
<1>3. Carried(srv, s)
  <2> HIDE DEF id
  <2> QED
    BY <1>2, CommitShape DEF Filed, Carried
<1>4. Held(srv, p)
  BY HeldIdle DEF Filed
<1> HIDE DEF s, p
<1> QED
  BY <1>1, <1>3, <1>4, DoneFiled DEF Filed

LEMMA ReleaseFiled ==
    ASSUME Filed, NEW m \in Macs, handleRelease(m)
    PROVE  Filed'
<1>1. PICK ip \in IPs : Become(ReleaseLeases(srv, m, ip).srv, pend)
  BY DEF handleRelease
<1> DEFINE s == ReleaseLeases(srv, m, ip).srv
<1>2. Thinned(srv, s, m, ip)
  BY ReleaseFacts DEF Filed, Shape
<1>3. now' = now /\ used' = used /\ db' = Stored(srv')
  BY DEF handleRelease, dbStore
<1>4. Become(s, pend)
  BY <1>1
<1> HIDE DEF s
<1>5. Carried(srv, s)
  BY <1>2, ThinnedShape DEF Filed
<1> QED
  BY <1>3, <1>4, <1>5, DoneFiled DEF Filed

LEMMA DeclineNotifyFiled ==
    ASSUME Filed, NEW m \in Macs, handleDeclineNotify(m)
    PROVE  Filed'
<1>1. Held(srv, pend')
  BY HeldDecline DEF Filed
<1>2. UNCHANGED <<now, srv>> /\ db' = Stored(srv)
  BY DEF handleDeclineNotify
<1>3. used' \in [admin : Nat, decline : Nat, restart : Nat]
  BY DEF handleDeclineNotify, Filed
<1>4. Fileable(db')
  BY <1>2, ShapeStored DEF Filed
<1> QED
  BY <1>1, <1>2, <1>3, <1>4 DEF Filed

LEMMA DeclineFiled ==
    ASSUME Filed, NEW m \in Macs, handleDecline(m), mishaps' \cap Unfiled = {}
    PROVE  Filed'
<1> DEFINE old == findLeaseForIP(srv, pend[m].ip, m)
           p == [pend EXCEPT ![m] = Idle]
<1>1. old = None
  <2>1. When(old # None, "decline") \subseteq mishaps'
    BY DEF handleDecline, Note
  <2> HIDE DEF old
  <2> QED
    BY <2>1 DEF When, Unfiled
<1>2. Become(srv, p)
  BY <1>1 DEF handleDecline
<1>3. Held(srv, p) /\ Carried(srv, srv)
  BY HeldIdle DEF Filed, Carried
<1>4. UNCHANGED <<now, db, used>>
  BY DEF handleDecline
<1> HIDE DEF p, old
<1>5. Stored(srv') = Stored(srv)
  BY <1>2, <1>3, BecomeShape
<1> QED
  BY <1>2, <1>3, <1>4, <1>5, DoneFiled DEF Filed

(* A request of the HTTP API that fails leaves v4Server as the file has    *)
(* it, or else is noted.                                                   *)
LEMMA AdminFiled ==
    ASSUME Filed, AdminRequest, NEW r, Carried(srv, r.srv), Become(r.srv, pend),
           IF r.ok THEN dbStore ELSE UNCHANGED db,
           NEW M, Note(M), When(~r.ok /\ srv' # srv, "unstored") \subseteq M,
           mishaps' \cap Unfiled = {}
    PROVE  Filed'
<1>1. now' = now /\ used' \in [admin : Nat, decline : Nat, restart : Nat]
  BY DEF AdminRequest, Filed
<1>2. ~r.ok => srv' = srv
  BY DEF Note, When, Unfiled
<1>3. db' = Stored(srv') \/ (db' = db /\ Stored(srv') = Stored(srv))
  <2>1. CASE r.ok
    BY <2>1 DEF dbStore
  <2>2. CASE ~r.ok
    <3>1. srv' = srv /\ db' = db
      BY <1>2, <2>2
    <3>2. Stored(srv)' = Stored(srv)
      BY <3>1 DEF Stored
    <3> QED
      BY <3>1, <3>2
  <2> QED
    BY <2>1, <2>2
<1> QED
  BY <1>1, <1>3, DoneFiled DEF Filed

LEMMA AddStaticFiled ==
    ASSUME Filed, AddStaticLease, mishaps' \cap Unfiled = {}
    PROVE  Filed'
<1>1. AdminRequest
  BY DEF AddStaticLease
<1>2. PICK m \in Macs, ip \in IPs, h \in AdminHosts :
        LET r == updateStaticLease(srv, StaticLease(m, ip, h))
        IN  /\ Become(r.srv, pend)
            /\ IF r.ok THEN dbStore ELSE UNCHANGED db
            /\ Note(r.skip \cup BlankIf(srv, r.srv) \cup EvictIf(r.srv)
                    \cup When(~r.ok /\ srv' # srv, "unstored"))
  BY DEF AddStaticLease
<1> DEFINE r == updateStaticLease(srv, StaticLease(m, ip, h))
           M == r.skip \cup BlankIf(srv, r.srv) \cup EvictIf(r.srv)
                \cup When(~r.ok /\ srv' # srv, "unstored")
<1>3. Carried(srv, r.srv)
  BY StaticShape, UpdateStaticShape DEF Filed
<1>4. Note(M) /\ When(~r.ok /\ srv' # srv, "unstored") \subseteq M
  BY <1>2
<1>5. Become(r.srv, pend) /\ (IF r.ok THEN dbStore ELSE UNCHANGED db)
  BY <1>2
<1> HIDE DEF r, M
<1> QED
  BY <1>1, <1>3, <1>4, <1>5, AdminFiled

LEMMA UpdateStaticFiled ==
    ASSUME Filed, UpdateStaticLease, mishaps' \cap Unfiled = {}
    PROVE  Filed'
<1>1. AdminRequest
  BY DEF UpdateStaticLease
<1>2. PICK m \in Macs, ip \in IPs, h \in AdminHosts :
        LET r == ReplaceLease(srv, findLease(srv, m), StaticLease(m, ip, h))
        IN  /\ Become(r.srv, pend)
            /\ IF r.ok THEN dbStore ELSE UNCHANGED db
            /\ Note(EvictIf(r.srv) \cup When(~r.ok /\ srv' # srv, "unstored"))
  BY DEF UpdateStaticLease
<1> DEFINE r == ReplaceLease(srv, findLease(srv, m), StaticLease(m, ip, h))
           M == EvictIf(r.srv) \cup When(~r.ok /\ srv' # srv, "unstored")
<1>3. Carried(srv, r.srv)
  BY StaticShape, ReplaceShape DEF Filed
<1>4. Note(M) /\ When(~r.ok /\ srv' # srv, "unstored") \subseteq M
  BY <1>2
<1>5. Become(r.srv, pend) /\ (IF r.ok THEN dbStore ELSE UNCHANGED db)
  BY <1>2
<1> HIDE DEF r, M
<1> QED
  BY <1>1, <1>3, <1>4, <1>5, AdminFiled

LEMMA RemoveStaticFiled ==
    ASSUME Filed, RemoveStaticLease
    PROVE  Filed'
<1>1. PICK id \in Range(srv.leases) :
        Become(rmLease(srv, srv.obj[id]).srv, pend)
  BY DEF RemoveStaticLease
<1> DEFINE s == rmLease(srv, srv.obj[id]).srv
<1>2. Carried(srv, s)
  BY RmLeaseShape DEF Filed
<1>3. /\ now' = now /\ db' = Stored(srv')
      /\ used' \in [admin : Nat, decline : Nat, restart : Nat]
  BY DEF RemoveStaticLease, AdminRequest, dbStore, Filed
<1>4. Become(s, pend)
  BY <1>1
<1> HIDE DEF s
<1> QED
  BY <1>2, <1>3, <1>4, DoneFiled DEF Filed

LEMMA ResetFiled ==
    ASSUME Filed, resetLeases
    PROVE  Filed'
<1> DEFINE t == [NoLeases EXCEPT !.obj = srv.obj]
<1>1. /\ t.obj = srv.obj /\ t.leases = <<>>
      /\ t.hostsIndex = [h \in Names |-> None] /\ t.ipIndex = [ip \in IPs |-> None]
  BY DEF NoLeases
<1>2. t \in Server
  <2>1. NoLeases \in Server
    BY DEF NoLeases, Server
  <2>2. srv.obj \in Seq(Lease)
    BY DEF Filed, Shape, Server
  <2> HIDE DEF NoLeases
  <2> QED
    BY <2>1, <2>2 DEF Server
<1>3. /\ Become(t, pend) /\ now' = now /\ db' = Stored(srv')
      /\ used' \in [admin : Nat, decline : Nat, restart : Nat]
  BY DEF resetLeases, dbStore, AdminRequest, Filed
<1> HIDE DEF t
<1>4. DOMAIN t.leases = {}
  BY <1>1
<1>5. Carried(srv, t)
  BY <1>1, <1>2, <1>4 DEF Carried, Shape, Pointers, InPool
<1> QED
  BY <1>3, <1>5, DoneFiled DEF Filed

(* What a restart loads.                                                   *)
LEMMA RestartLoads ==
    ASSUME Filed, Restart
    PROVE  \E order \in SetToSeqs(db) :
             /\ order \in Seq(Lease) /\ Len(order) = Cardinality(db)
             /\ \A l \in db : \E k \in DOMAIN order : order[k] = l
             /\ \A k \in DOMAIN order : order[k] \in db
             /\ \A i, j \in DOMAIN order : i # j => order[i] # order[j]
             /\ LET t == ResetLeases(order)
                IN  /\ Shape(t) /\ Stored(srv') = Stored(t)
                    /\ Shape(srv') /\ Held(srv', pend')
                    /\ Len(srv'.leases) = Len(t.leases) /\ Len(t.leases) <= Len(order)
                    /\ Len(t.leases) = Len(order) =>
                         \A k \in DOMAIN order :
                           k \in DOMAIN t.leases /\ At(t, k) = Named(order[k])
                    /\ \A k \in DOMAIN t.leases :
                         \E j \in DOMAIN order : At(t, k) = Named(order[j])
                    /\ \A j \in DOMAIN order :
                         \/ \E k \in DOMAIN t.leases : At(t, k) = Named(order[j])
                         \/ Taken(order, j, t)
<1>1. PICK order \in SetToSeqs(db) : Become(ResetLeases(order), [m \in Macs |-> Idle])
  BY DEF Restart
<1> DEFINE t == ResetLeases(order)
           p == [m \in Macs |-> Idle]
<1>2. /\ order \in Seq(Lease) /\ Len(order) = Cardinality(db)
      /\ \A l \in db : \E k \in DOMAIN order : order[k] = l
      /\ \A k \in DOMAIN order : order[k] \in db
      /\ \A i, j \in DOMAIN order : i # j => order[i] # order[j]
  BY OrderOnto DEF Filed, Fileable
<1>3. \A k \in DOMAIN order : order[k].static \/ order[k].ip \in Pool
  BY <1>2 DEF Filed, Fileable
<1>4. /\ Shape(t) /\ Len(t.leases) <= Len(order)
      /\ Len(t.leases) = Len(order) =>
           \A k \in DOMAIN order : k \in DOMAIN t.leases /\ At(t, k) = Named(order[k])
      /\ \A k \in DOMAIN t.leases : \E j \in DOMAIN order : At(t, k) = Named(order[j])
      /\ \A j \in DOMAIN order :
           \/ \E k \in DOMAIN t.leases : At(t, k) = Named(order[j])
           \/ Taken(order, j, t)
  BY <1>2, <1>3, ResetShape
<1>5. Held(t, p)
  <2>1. Idle \in PendType /\ Idle.id = None /\ Idle.pc # "commit"
    BY PoolFacts DEF Idle, PendType
  <2> HIDE DEF Idle, t
  <2> QED
    BY <2>1 DEF Held
<1> HIDE DEF t, p
<1>6. /\ Shape(srv') /\ Held(srv', pend') /\ Stored(srv') = Stored(t)
      /\ Len(srv'.leases) = Len(t.leases)
  <2>1. Become(t, p)
    BY <1>1 DEF t, p
  <2> QED
    BY <1>4, <1>5, <2>1, BecomeMoves
<1> QED
  BY <1>2, <1>4, <1>6 DEF t

LEMMA RestartFiled ==
    ASSUME Filed, Restart, mishaps' \cap Unfiled = {}
    PROVE  Filed'
<1>1. PICK order \in SetToSeqs(db) :
        /\ Len(order) = Cardinality(db) /\ order \in Seq(Lease)
        /\ \A l \in db : \E k \in DOMAIN order : order[k] = l
        /\ \A k \in DOMAIN order : order[k] \in db
        /\ LET t == ResetLeases(order)
           IN  /\ Shape(t) /\ Stored(srv') = Stored(t)
               /\ Shape(srv') /\ Held(srv', pend')
               /\ Len(srv'.leases) = Len(t.leases) /\ Len(t.leases) <= Len(order)
               /\ Len(t.leases) = Len(order) =>
                    \A k \in DOMAIN order : k \in DOMAIN t.leases /\ At(t, k) = Named(order[k])
               /\ \A k \in DOMAIN t.leases : \E j \in DOMAIN order : At(t, k) = Named(order[j])
  BY RestartLoads
<1> DEFINE t == ResetLeases(order)
<1>2. /\ Shape(t) /\ Stored(srv') = Stored(t) /\ Shape(srv') /\ Held(srv', pend')
      /\ Len(srv'.leases) = Len(t.leases) /\ Len(t.leases) <= Len(order)
      /\ Len(t.leases) = Len(order) =>
           \A k \in DOMAIN order : k \in DOMAIN t.leases /\ At(t, k) = Named(order[k])
      /\ \A k \in DOMAIN t.leases : \E j \in DOMAIN order : At(t, k) = Named(order[j])
  BY <1>1
<1> HIDE DEF t
<1>3. ~(Len(srv'.leases) < Cardinality(db))
  <2>1. When(Len(srv'.leases) < Cardinality(db), "dropped") \subseteq mishaps'
    BY DEF Restart, Note
  <2> QED
    BY <2>1 DEF When, Unfiled
<1>4. Len(t.leases) = Len(order)
  <2>1. Len(t.leases) \in Nat /\ Len(order) \in Nat
    BY <1>1, <1>2, AtLease DEF Shape
  <2> QED
    BY <1>1, <1>2, <1>3, <2>1
<1>5. Stored(t) = {At(t, k) : k \in DOMAIN t.leases}
  BY <1>2, ShapeStored
<1>6. Stored(srv') = {Named(l) : l \in db'}
  <2>1. db' = db
    BY DEF Restart
  <2>2. ASSUME NEW l \in db
        PROVE  Named(l) \in Stored(t)
    <3>1. PICK k \in DOMAIN order : order[k] = l
      BY <1>1
    <3> QED
      BY <1>2, <1>4, <1>5, <3>1
  <2>3. ASSUME NEW x \in Stored(t)
        PROVE  \E l \in db : x = Named(l)
    <3>1. PICK k \in DOMAIN t.leases : x = At(t, k)
      BY <1>5
    <3>2. PICK j \in DOMAIN order : At(t, k) = Named(order[j])
      BY <1>2
    <3> QED
      BY <1>1, <3>1, <3>2
  <2> QED
    BY <1>2, <2>1, <2>2, <2>3
<1>7. now' = now /\ db' = db /\ used' \in [admin : Nat, decline : Nat, restart : Nat]
  BY DEF Restart, Filed
<1> QED
  BY <1>2, <1>6, <1>7 DEF Filed

LEMMA StepFiled ==
    ASSUME Filed, Next, mishaps' \cap Unfiled = {}
    PROVE  Filed'
<1>1. ASSUME NEW m \in Macs,
             \/ handleDiscover(m) \/ handleByRequestType(m) \/ handleRequest(m)
             \/ handleRelease(m) \/ handleDeclineNotify(m) \/ handleDecline(m)
      PROVE  Filed'
  BY <1>1, DiscoverFiled, ByRequestTypeFiled, RequestFiled, ReleaseFiled,
     DeclineNotifyFiled, DeclineFiled
<1>2. CASE AddStaticLease \/ UpdateStaticLease \/ RemoveStaticLease \/ resetLeases
  BY <1>2, AddStaticFiled, UpdateStaticFiled, RemoveStaticFiled, ResetFiled
<1>3. CASE Tick
  BY <1>3 DEF Tick, Filed
<1>4. CASE Restart
  BY <1>4, RestartFiled
<1> QED
  BY <1>1, <1>2, <1>3, <1>4 DEF Next

LEMMA InitFiled ==
    ASSUME Init
    PROVE  FileInv
<1>1. NoLeases \in Server /\ DOMAIN NoLeases.leases = {} /\ Pointers(NoLeases)
  <2>1. NoLeases \in Server /\ DOMAIN NoLeases.leases = {}
    BY DEF NoLeases, Server
  <2> QED
    BY <2>1 DEF NoLeases, Pointers
<1>2. Shape(srv)
  BY <1>1 DEF Init, Shape, InPool
<1>3. Held(srv, pend)
  <2>1. Idle \in PendType /\ Idle.id = None /\ Idle.pc # "commit"
    BY PoolFacts DEF Idle, PendType
  <2> HIDE DEF Idle
  <2> QED
    BY <2>1 DEF Init, Held
<1>4. Stored(srv) = db
  BY <1>1, <1>2, ShapeStored DEF Init
<1>5. Fileable(db)
  BY FS_EmptySet DEF Init, Fileable
<1> QED
  BY <1>2, <1>3, <1>4, <1>5 DEF Init, FileInv, Unless, Filed

LEMMA NextFiled ==
    ASSUME FileInv, [Next]_vars
    PROVE  FileInv'
<1>1. mishaps \subseteq mishaps'
  BY MishapsStay
<1>2. CASE UNCHANGED vars
  BY <1>2 DEF vars, FileInv, Unless, Filed, Shape, Held, Pointers, InPool, At, Fileable, Stored
<1>3. CASE Next
  BY <1>1, <1>3, StepFiled DEF FileInv, Unless
<1> QED
  BY <1>2, <1>3

(* Only a restart counts as one.                                           *)
LEMMA RestartCounted ==
    ASSUME Filed, [Next]_vars, used'.restart # used.restart
    PROVE  Restart
<1>1. used \in [admin : Nat, decline : Nat, restart : Nat]
  BY DEF Filed
<1>2. ASSUME NEW m \in Macs,
             \/ handleDiscover(m) \/ handleByRequestType(m) \/ handleRequest(m)
             \/ handleRelease(m) \/ handleDecline(m)
      PROVE  FALSE
  <2>1. CASE handleDiscover(m)
    BY <2>1 DEF handleDiscover
  <2>2. CASE handleByRequestType(m)
    BY <2>2 DEF handleByRequestType
  <2>3. CASE handleRequest(m)
    BY <2>3 DEF handleRequest
  <2>4. CASE handleRelease(m)
    BY <2>4 DEF handleRelease
  <2>5. CASE handleDecline(m)
    BY <2>5 DEF handleDecline
  <2> QED
    BY <1>2, <2>1, <2>2, <2>3, <2>4, <2>5
<1>3. ASSUME NEW m \in Macs, handleDeclineNotify(m)
      PROVE  FALSE
  BY <1>1, <1>3 DEF handleDeclineNotify
<1>4. CASE AddStaticLease \/ UpdateStaticLease \/ RemoveStaticLease \/ resetLeases
  <2>1. AdminRequest
    BY <1>4 DEF AddStaticLease, UpdateStaticLease, RemoveStaticLease, resetLeases
  <2> QED
    BY <1>1, <2>1 DEF AdminRequest
<1>5. CASE Tick \/ UNCHANGED vars
  BY <1>5 DEF Tick, vars
<1> QED
  BY <1>2, <1>3, <1>4, <1>5 DEF Next

(* A restart that has met none of these mishaps before.                    *)
LEMMA RestartLoses ==
    ASSUME Filed, Restart, NEW l \in Leases
    PROVE  \/ \E k \in Leases' : Same(l, k)
           \/ \E k \in Leases \ {l} : Named(l).host # NoHost /\ Named(k).host = Named(l).host
<1>1. Leases = Stored(srv) /\ Leases' = Stored(srv')
  BY DEF Leases, Stored
<1>2. PICK order \in SetToSeqs(db) :
        /\ \A x \in db : \E k \in DOMAIN order : order[k] = x
        /\ \A k \in DOMAIN order : order[k] \in db
        /\ \A i, j \in DOMAIN order : i # j => order[i] # order[j]
        /\ LET t == ResetLeases(order)
           IN  /\ Shape(t) /\ Stored(srv') = Stored(t)
               /\ \A j \in DOMAIN order :
                    \/ \E k \in DOMAIN t.leases : At(t, k) = Named(order[j])
                    \/ Taken(order, j, t)
  BY RestartLoads
<1> DEFINE t == ResetLeases(order)
<1>3. /\ Shape(t) /\ Stored(srv') = Stored(t)
      /\ \A j \in DOMAIN order :
           \/ \E k \in DOMAIN t.leases : At(t, k) = Named(order[j])
           \/ Taken(order, j, t)
  BY <1>2
<1> HIDE DEF t
<1>4. \A k \in DOMAIN t.leases : At(t, k) \in Leases'
  BY <1>1, <1>3, ShapeStored
<1>5. \A x \in db : /\ x \in Lease /\ Same(Named(x), x) /\ Named(Named(x)) = Named(x)
                    /\ Same(x, Named(x))
  BY NamedFacts DEF Filed, Fileable, Same
<1>6. CASE l \in db /\ Stored(srv) = db
  <2>1. PICK j \in DOMAIN order : order[j] = l
    BY <1>2, <1>6
  <2>2. CASE \E k \in DOMAIN t.leases : At(t, k) = Named(l)
    BY <1>4, <1>5, <1>6, <2>2
  <2>3. CASE Taken(order, j, t)
    <3>1. PICK i \in DOMAIN order : /\ i # j /\ Named(l).host # NoHost
                                    /\ Named(order[i]).host = Named(l).host
      BY <2>1, <2>3 DEF Taken
    <3>2. order[i] \in Leases \ {l}
      BY <1>1, <1>2, <1>6, <2>1, <3>1
    <3> QED
      BY <3>1, <3>2
  <2> QED
    BY <1>3, <2>1, <2>2, <2>3
<1>7. ASSUME NEW d \in db, l = Named(d), Stored(srv) = {Named(x) : x \in db}
      PROVE  \/ \E k \in Leases' : Same(l, k)
             \/ \E k \in Leases \ {l} : Named(l).host # NoHost /\ Named(k).host = Named(l).host
  <2>1. PICK j \in DOMAIN order : order[j] = d
    BY <1>2
  <2>2. CASE \E k \in DOMAIN t.leases : At(t, k) = Named(d)
    <3>1. Same(l, l)
      BY DEF Same
    <3> QED
      BY <1>4, <1>7, <2>2, <3>1
  <2>3. CASE Taken(order, j, t)
    <3>1. PICK i \in DOMAIN order, k \in DOMAIN t.leases :
            /\ At(t, k) = Named(order[i]) /\ Named(d).host # NoHost
            /\ Named(order[i]).host = Named(d).host
      BY <2>1, <2>3 DEF Taken
    <3> DEFINE x == Named(order[i])
    <3>2. x \in Leases /\ Named(x) = x /\ Named(l) = l /\ x \in Leases'
      BY <1>1, <1>2, <1>4, <1>5, <1>7, <3>1
    <3>3. Same(l, l) /\ l.host # NoHost /\ x.host = l.host
      BY <1>7, <3>1 DEF Same
    <3> HIDE DEF x
    <3>4. CASE x = l
      BY <3>2, <3>3, <3>4
    <3>5. CASE x # l
      BY <3>2, <3>3, <3>5
    <3> QED
      BY <3>4, <3>5
  <2> QED
    BY <1>3, <2>1, <2>2, <2>3
<1> QED
  BY <1>1, <1>6, <1>7 DEF Filed

(* A restart keeps every lease of v4Server with its client, address and    *)
(* expiry, except one whose hostname, or the one generated for it, another *)
(* lease has: whatever went before, short of a DECLINE of a lease, an      *)
(* unstored change and an earlier restart that dropped a lease, the file   *)
(* holds the leases, and they are loaded in any order of it (db.go:93).    *)
THEOREM RestartsKeep == Spec => RestartKeepsLeases
<1>1. Init => FileInv
  BY InitFiled
<1>2. FileInv /\ [Next]_vars => FileInv'
  BY NextFiled
<1>3. FileInv /\ [Next]_vars
      => [Unless({"decline", "unstored", "dropped"},
            used'.restart # used.restart =>
              \A l \in Leases :
                \/ \E k \in Leases' : Same(l, k)
                \/ \E k \in Leases \ {l} :
                      Named(l).host # NoHost /\ Named(k).host = Named(l).host)]_vars
  <2> SUFFICES ASSUME FileInv, [Next]_vars, mishaps \cap Unfiled = {},
                      used'.restart # used.restart, NEW l \in Leases
               PROVE  \/ \E k \in Leases' : Same(l, k)
                      \/ \E k \in Leases \ {l} :
                            Named(l).host # NoHost /\ Named(k).host = Named(l).host
    BY DEF Unless, Unfiled
  <2>1. Filed
    BY DEF FileInv, Unless
  <2>2. Restart
    BY <2>1, RestartCounted
  <2> QED
    BY <2>1, <2>2, RestartLoses
<1> QED
  BY <1>1, <1>2, <1>3, PTL DEF Spec, RestartKeepsLeases
=============================================================================
