-------------------------- MODULE FastestMirrorProofs --------------------------
(***************************************************************************)
(* Theorems about FastestMirror for any mirrors, hosts, ages and cache.    *)
(*                                                                         *)
(* That the mirrors are kept is a statement about sequences: the ranks of  *)
(* the mirrors of a list are different numbers, so that their places are a *)
(* permutation of the indices, and a permuted list has each mirror as      *)
(* often.  That the best hosts are tried first follows from the order of   *)
(* the hosts: the first mirror of a host comes to the place of its host.   *)
(***************************************************************************)
EXTENDS FastestMirror, FiniteSetTheorems, FunctionTheorems, SequenceTheorems,
        WellFoundedInduction, TLAPS

\* What the age of a record is computed from are numbers, whoever wrote the file.
Times == [ts : Int, time : Int]
Numbers == /\ now \in Int
           /\ network \in [Hosts -> Int]
           /\ times \in [Hosts -> Int]
           /\ cache \in [Hosts -> Times]
           /\ disk.records \in [Hosts -> Times]

\* A record was filled from a measurement of its host, at the time it says.
Origin(h, record) == [host |-> h, time |-> record.time, at |-> record.ts]
Backed(records, made) ==
    \A h \in Hosts : records[h] # NoRecord => Origin(h, records[h]) \in made
RecordsBacked == Backed(cache, measured) /\ Backed(disk.records, measured)

-------------------------------------------------------------------------------
\* Unreachable is a number too.
LEMMA LatenciesAreNumbers == Latencies \subseteq Int
BY FastestMirrorAssumption DEF FastestMirrorAssumption, Unreachable

LEMMA NoRecordsTyped == NoRecords \in [Hosts -> Times]
BY DEF NoRecords, NoRecord, Times

\* Dropping records that are too old leaves records.
LEMMA LoadedTyped ==
    ASSUME NEW records \in [Hosts -> Times]
    PROVE  Loaded(records) \in [Hosts -> Times]
BY DEF Loaded, NoRecord, Times

\* The records and the times are numbers at the start, and stay numbers.
LEMMA NumbersInit == Init => Numbers
<1> SUFFICES ASSUME Init PROVE Numbers
  OBVIOUS
<1>1. network \in [Hosts -> Int]
  BY LatenciesAreNumbers DEF Init
<1>2. times \in [Hosts -> Int]
  BY DEF Init
<1>3. now \in Int /\ cache \in [Hosts -> Times] /\ disk.records \in [Hosts -> Times]
  BY NoRecordsTyped DEF Init
<1> QED
  BY <1>1, <1>2, <1>3 DEF Numbers

LEMMA NumbersKept == Numbers /\ [Next]_vars => Numbers'
<1> SUFFICES ASSUME Numbers, [Next]_vars PROVE Numbers'
  OBVIOUS
<1> USE DEF Numbers
<1>1. CASE Tick
  BY <1>1 DEF Tick, callVars
<1>2. CASE NetworkChanges
  <2>1. PICK h \in Hosts, t \in Latencies : network' = [network EXCEPT ![h] = t]
    BY <1>2 DEF NetworkChanges
  <2>2. network' \in [Hosts -> Int]
    BY <2>1, LatenciesAreNumbers
  <2> QED
    BY <1>2, <2>2 DEF NetworkChanges, callVars
<1>3. CASE OtherProcess
  <2>1. CASE disk' = [state |-> "bad", records |-> NoRecords]
    BY <1>3, <2>1, NoRecordsTyped DEF OtherProcess, callVars
  <2>2. ASSUME NEW h \in Hosts,
               disk' = [state |-> "good",
                        records |-> [disk.records EXCEPT ![h] = [ts |-> now, time |-> network[h]]]]
        PROVE  Numbers'
    <3>1. [ts |-> now, time |-> network[h]] \in Times
      BY DEF Times
    <3>2. disk'.records \in [Hosts -> Times]
      BY <2>2, <3>1
    <3> QED
      BY <1>3, <3>2 DEF OtherProcess, callVars
  <2> QED
    BY <1>3, <2>1, <2>2 DEF OtherProcess
<1>4. CASE Call
  BY <1>4, NoRecordsTyped DEF Call
<1>5. CASE Load
  BY <1>5, NoRecordsTyped, LoadedTyped DEF Load
<1>6. CASE Prepare
  <2>1. times' \in [Hosts -> Int]
    <3>1. \A h \in Hosts : cache[h].time \in Int
      BY DEF Times
    <3> QED
      BY <1>6, <3>1 DEF Prepare
  <2> QED
    BY <1>6, <2>1 DEF Prepare
<1>7. CASE Perform
  <2>1. CASE times' = [h \in Hosts |-> IF h \in used THEN times[h] ELSE network[h]]
             /\ cache' = [h \in Hosts |-> IF h \in used THEN cache[h]
                                          ELSE [ts |-> now, time |-> times'[h]]]
    <3>1. times' \in [Hosts -> Int]
      BY <2>1
    <3>2. cache' \in [Hosts -> Times]
      BY <2>1, <3>1 DEF Times
    <3> QED
      BY <1>7, <3>1, <3>2 DEF Perform
  <2>2. CASE UNCHANGED <<times, cache>>
    BY <1>7, <2>2 DEF Perform
  <2> QED
    BY <1>7, <2>1, <2>2 DEF Perform, Stored
<1>8. CASE Write
  BY <1>8 DEF Write, callVars
<1>9. CASE Apply
  BY <1>9 DEF Apply, callVars
<1>10. CASE UNCHANGED vars
  BY <1>10 DEF vars
<1> QED
  BY <1>1, <1>2, <1>3, <1>4, <1>5, <1>6, <1>7, <1>8, <1>9, <1>10 DEF Next

\* No record needs no measurement, and more measurements do no harm.
LEMMA NoRecordsBacked == \A made : Backed(NoRecords, made)
BY DEF Backed, NoRecords

LEMMA BackedKept ==
    ASSUME NEW records, NEW made, NEW more, Backed(records, made), made \subseteq more
    PROVE  Backed(records, more)
BY DEF Backed

\* A step that changes neither the records nor what was measured.
LEMMA StillBacked ==
    ASSUME RecordsBacked, UNCHANGED <<cache, disk, measured>>
    PROVE  RecordsBacked'
BY DEF RecordsBacked, Backed, Origin

\* Every record of the file and of the memory was filled from a measurement: the calls
\* and the other processes write a time only with the moment it was measured.
LEMMA BackedNext == Numbers /\ RecordsBacked /\ [Next]_vars => RecordsBacked'
<1> SUFFICES ASSUME Numbers, RecordsBacked, [Next]_vars PROVE RecordsBacked'
  OBVIOUS
<1>1. Backed(cache, measured) /\ Backed(disk.records, measured)
  BY DEF RecordsBacked
<1>2. CASE Tick \/ NetworkChanges \/ Prepare \/ Apply \/ UNCHANGED vars
  BY <1>2, StillBacked DEF Tick, NetworkChanges, Prepare, Apply, vars, callVars
<1>3. CASE OtherProcess
  <2>1. cache' = cache
    BY <1>3 DEF OtherProcess, callVars
  <2>2. CASE disk' = [state |-> "bad", records |-> NoRecords] /\ UNCHANGED measured
    BY <1>1, <2>1, <2>2, NoRecordsBacked DEF RecordsBacked
  <2>3. ASSUME NEW g \in Hosts,
               disk' = [state |-> "good",
                        records |-> [disk.records EXCEPT ![g] = [ts |-> now, time |-> network[g]]]],
               measured' = measured \cup Made({g})
        PROVE  RecordsBacked'
    <3>1. measured \subseteq measured'
      BY <2>3
    <3>2. Backed(cache', measured')
      BY <1>1, <2>1, <3>1, BackedKept
    <3>3. ASSUME NEW h \in Hosts, disk'.records[h] # NoRecord
          PROVE  Origin(h, disk'.records[h]) \in measured'
      <4>1. CASE h = g
        <5>1. disk'.records[h] = [ts |-> now, time |-> network[h]]
          BY <2>3, <4>1 DEF Numbers
        <5>2. Origin(h, disk'.records[h]) \in Made({g})
          BY <4>1, <5>1 DEF Origin, Made
        <5> QED
          BY <2>3, <5>2
      <4>2. CASE h # g
        <5>1. disk'.records[h] = disk.records[h]
          BY <2>3, <4>2 DEF Numbers
        <5> QED
          BY <1>1, <3>1, <3>3, <5>1 DEF Backed
      <4> QED
        BY <4>1, <4>2
    <3> QED
      BY <3>2, <3>3 DEF RecordsBacked, Backed
  <2> QED
    BY <1>3, <2>2, <2>3 DEF OtherProcess
<1>4. CASE Call
  BY <1>1, <1>4, NoRecordsBacked DEF Call, RecordsBacked
<1>5. CASE Load
  <2>1. UNCHANGED <<disk, measured>>
    BY <1>5 DEF Load
  <2>2. Backed(Loaded(disk.records), measured)
    BY <1>1 DEF Backed, Loaded
  <2>3. Backed(cache', measured)
    BY <1>5, <2>2, NoRecordsBacked DEF Load
  <2> QED
    BY <1>1, <2>1, <2>3 DEF RecordsBacked
<1>6. CASE Perform
  <2>1. disk' = disk
    BY <1>6 DEF Perform
  <2>2. CASE UNCHANGED <<cache, measured>>
    BY <2>1, <2>2, StillBacked
  <2>3. CASE /\ times' = [h \in Hosts |-> IF h \in used THEN times[h] ELSE network[h]]
             /\ cache' = Stored /\ measured' = measured \cup Made(Hosts \ used)
    <3>1. measured \subseteq measured'
      BY <2>3
    <3>2. Backed(disk.records, measured')
      BY <1>1, <3>1, BackedKept
    <3>3. ASSUME NEW h \in Hosts, cache'[h] # NoRecord
          PROVE  Origin(h, cache'[h]) \in measured'
      <4>1. CASE h \in used
        <5>1. cache'[h] = cache[h]
          BY <2>3, <4>1 DEF Stored
        <5> QED
          BY <1>1, <3>1, <3>3, <5>1 DEF Backed
      <4>2. CASE h \notin used
        <5>1. cache'[h] = [ts |-> now, time |-> network[h]]
          BY <2>3, <4>2 DEF Stored
        <5>2. Origin(h, cache'[h]) \in Made(Hosts \ used)
          BY <4>2, <5>1 DEF Origin, Made
        <5> QED
          BY <2>3, <5>2
      <4> QED
        BY <4>1, <4>2
    <3> QED
      BY <2>1, <3>2, <3>3 DEF RecordsBacked, Backed
  <2> QED
    BY <1>6, <2>2, <2>3 DEF Perform
<1>7. CASE Write
  <2>1. UNCHANGED <<cache, measured>>
    BY <1>7 DEF Write, callVars
  <2>2. disk' = disk \/ disk'.records = cache
    BY <1>7 DEF Write
  <2> QED
    BY <1>1, <2>1, <2>2 DEF RecordsBacked
<1> QED
  BY <1>2, <1>3, <1>4, <1>5, <1>6, <1>7 DEF Next

LEMMA BackedInvariant == Spec => [](Numbers /\ RecordsBacked)
<1>1. Init => RecordsBacked
  BY NoRecordsBacked DEF Init, RecordsBacked
<1> QED
  BY <1>1, NumbersInit, NumbersKept, BackedNext, PTL DEF Spec

\* Only Prepare takes times from the cache; it looks at the age of each, which is that
\* of the measurement the record was filled from.
LEMMA TakenIsRecent ==
    Numbers /\ RecordsBacked /\ [Next]_vars =>
        [\A h \in used' \ used : \E m \in measured :
            m.host = h /\ m.time = times'[h] /\ m.at >= now - MaxAge]_vars
<1> SUFFICES ASSUME Numbers, RecordsBacked, [Next]_vars, NEW h \in used' \ used
             PROVE  \E m \in measured : m.host = h /\ m.time = times'[h] /\ m.at >= now - MaxAge
  OBVIOUS
<1>1. CASE Prepare
  <2>1. h \in Hosts /\ Fresh(h)
    BY <1>1 DEF Prepare
  <2>2. Origin(h, cache[h]) \in measured /\ cache[h].ts >= now - MaxAge
    BY <2>1 DEF Fresh, RecordsBacked, Backed
  <2>3. times'[h] = cache[h].time
    BY <1>1, <2>1 DEF Prepare
  <2> QED
    BY <2>2, <2>3 DEF Origin
<1>2. CASE Call
  BY <1>2 DEF Call
<1>3. CASE UNCHANGED used
  BY <1>3
<1> QED
  BY <1>1, <1>2, <1>3 DEF Next, vars, callVars, Tick, NetworkChanges, OtherProcess, Load,
                          Perform, Write, Apply
-------------------------------------------------------------------------------
\* A time taken from the cache was measured for its host at most MaxAge before, whatever
\* other processes write, however often the records are written again and however long
\* the cache keeps them.
THEOREM CachedIsRecentHolds == Spec => CachedIsRecent
BY BackedInvariant, TakenIsRecent, PTL DEF Spec, CachedIsRecent
-------------------------------------------------------------------------------
(* Putting numbers in order.                                               *)

Places(rank, n) == [i \in 1 .. n |-> Cardinality({j \in 1 .. n : rank[j] <= rank[i]})]
Inverted(place, n) == [k \in 1 .. n |-> CHOOSE i \in 1 .. n : place[i] = k]

\* Counting the smaller ones gives each of n different numbers a place of its own in the
\* order of the numbers.
LEMMA PlacesProperties ==
    ASSUME NEW n \in Nat, NEW rank \in [1 .. n -> Nat],
           \A i, j \in 1 .. n : rank[i] = rank[j] => i = j
    PROVE  /\ Places(rank, n) \in Bijection(1 .. n, 1 .. n)
           /\ \A i, j \in 1 .. n : rank[i] < rank[j] => Places(rank, n)[i] < Places(rank, n)[j]
<1>. DEFINE Up(i) == {j \in 1 .. n : rank[j] <= rank[i]}
            place == Places(rank, n)
<1>1. /\ IsFiniteSet(1 .. n) /\ Cardinality(1 .. n) = n
      /\ \A i \in 1 .. n : /\ IsFiniteSet(Up(i)) /\ Cardinality(Up(i)) \in Nat
                           /\ Cardinality(Up(i)) <= n
  <2>1. IsFiniteSet(1 .. n) /\ Cardinality(1 .. n) = n
    BY FS_Interval
  <2>2. ASSUME NEW i \in 1 .. n
        PROVE  /\ IsFiniteSet(Up(i)) /\ Cardinality(Up(i)) \in Nat
               /\ Cardinality(Up(i)) <= n
    <3>1. Up(i) \in SUBSET (1 .. n)
      OBVIOUS
    <3>. QED
      BY <2>1, <3>1, FS_Subset, FS_CardinalityType
  <2>. QED
    BY <2>1, <2>2
<1>2. ASSUME NEW i \in 1 .. n, NEW j \in 1 .. n, rank[i] < rank[j]
      PROVE  Cardinality(Up(i)) < Cardinality(Up(j))
  <2>1. rank[i] \in Nat /\ rank[j] \in Nat /\ \A k \in 1 .. n : rank[k] \in Nat
    OBVIOUS
  <2>2. Up(i) \subseteq Up(j) /\ j \in Up(j) /\ j \notin Up(i)
    BY <1>2, <2>1
  <2>3. Cardinality(Up(i)) <= Cardinality(Up(j)) /\ Cardinality(Up(i)) # Cardinality(Up(j))
    BY <1>1, <2>2, FS_Subset
  <2>4. Cardinality(Up(i)) \in Nat /\ Cardinality(Up(j)) \in Nat
    BY <1>1
  <2>. HIDE DEF Up
  <2>. QED
    BY <2>3, <2>4
<1>3. ASSUME NEW i \in 1 .. n PROVE Cardinality(Up(i)) \in 1 .. n
  <2>1. Up(i) # {}
    <3>1. rank[i] \in Nat
      OBVIOUS
    <3>. QED
      BY <3>1
  <2>2. Cardinality(Up(i)) # 0
    BY <1>1, <2>1, FS_EmptySet
  <2>3. Cardinality(Up(i)) \in Nat /\ Cardinality(Up(i)) <= n
    BY <1>1
  <2>. HIDE DEF Up
  <2>. QED
    BY <2>2, <2>3
<1>4. place \in [1 .. n -> 1 .. n] /\ \A i \in 1 .. n : place[i] = Cardinality(Up(i))
  BY <1>3 DEF Places
<1>5. \A i, j \in 1 .. n : rank[i] < rank[j] => place[i] < place[j]
  BY <1>2, <1>4
<1>6. place \in Injection(1 .. n, 1 .. n)
  <2>1. ASSUME NEW i \in 1 .. n, NEW j \in 1 .. n, place[i] = place[j] PROVE i = j
    <3>1. ~(rank[i] < rank[j]) /\ ~(rank[j] < rank[i])
      <4>1. place[i] \in Int /\ place[j] \in Int
        BY <1>4
      <4>. QED
        BY <1>5, <2>1, <4>1
    <3>2. rank[i] \in Nat /\ rank[j] \in Nat
      OBVIOUS
    <3>. QED
      BY <3>1, <3>2
  <2>. QED
    BY <1>4, <2>1, Fun_IsInj
<1>7. place \in Surjection(1 .. n, 1 .. n)
  BY <1>1, <1>6, FS_Injection
<1>. QED
  BY <1>5, <1>6, <1>7 DEF Bijection

\* The inverse of the places.
LEMMA InvertedProperties ==
    ASSUME NEW n \in Nat, NEW place \in Bijection(1 .. n, 1 .. n)
    PROVE  /\ Inverted(place, n) \in [1 .. n -> 1 .. n]
           /\ \A k \in 1 .. n : place[Inverted(place, n)[k]] = k
           /\ \A i \in 1 .. n : place[i] \in 1 .. n /\ Inverted(place, n)[place[i]] = i
<1>. DEFINE inv == Inverted(place, n)
<1>1. /\ place \in [1 .. n -> 1 .. n]
      /\ \A k \in 1 .. n : \E i \in 1 .. n : place[i] = k
      /\ \A i, j \in 1 .. n : place[i] = place[j] => i = j
  BY Fun_BijectionProperties, Fun_SurjectionProperties, Fun_InjectionProperties
     DEF Bijection, Injection, Surjection, IsInjective
<1>2. ASSUME NEW k \in 1 .. n PROVE inv[k] \in 1 .. n /\ place[inv[k]] = k
  <2>1. inv[k] = CHOOSE i \in 1 .. n : place[i] = k
    BY DEF Inverted
  <2>. QED
    BY <1>1, <2>1
<1>3. inv \in [1 .. n -> 1 .. n]
  BY <1>2 DEF Inverted
<1>4. ASSUME NEW i \in 1 .. n PROVE place[i] \in 1 .. n /\ inv[place[i]] = i
  <2>1. place[i] \in 1 .. n
    BY <1>1
  <2>2. inv[place[i]] \in 1 .. n /\ place[inv[place[i]]] = place[i]
    BY <1>2, <2>1
  <2>. QED
    BY <1>1, <2>1, <2>2
<1>. QED
  BY <1>2, <1>3, <1>4

\* A sequence that is put in another order has each element as often.
Count(list, m) == Cardinality({i \in DOMAIN list : list[i] = m})

LEMMA ReorderedCount ==
    ASSUME NEW n \in Nat, NEW place \in Bijection(1 .. n, 1 .. n),
           NEW list, DOMAIN list = 1 .. n, NEW made, DOMAIN made = 1 .. n,
           \A k \in 1 .. n : made[k] = list[Inverted(place, n)[k]], NEW m
    PROVE  Count(made, m) = Count(list, m)
<1>. DEFINE inv == Inverted(place, n)
            A == {k \in 1 .. n : made[k] = m}
            B == {i \in 1 .. n : list[i] = m}
            f == [k \in A |-> inv[k]]
<1>1. /\ inv \in [1 .. n -> 1 .. n]
      /\ \A k \in 1 .. n : place[inv[k]] = k
      /\ \A i \in 1 .. n : place[i] \in 1 .. n /\ inv[place[i]] = i
      /\ \A k \in 1 .. n : made[k] = list[inv[k]]
  BY InvertedProperties
<1>. HIDE DEF inv
<1>2. f \in [A -> B]
  BY <1>1
<1>3. f \in Bijection(A, B)
  <2>1. \A k, l \in A : f[k] = f[l] => k = l
    BY <1>1
  <2>2. \A i \in B : \E k \in A : f[k] = i
    <3>. SUFFICES ASSUME NEW i \in B PROVE place[i] \in A /\ f[place[i]] = i
      OBVIOUS
    <3>. QED
      BY <1>1
  <2>. QED
    BY <1>2, <2>1, <2>2, Fun_IsBij
<1>4. IsFiniteSet(A)
  <2>1. IsFiniteSet(1 .. n) /\ A \in SUBSET (1 .. n)
    BY FS_Interval
  <2>. QED
    BY <2>1, FS_Subset
<1>5. Cardinality(B) = Cardinality(A)
  <2>1. ExistsBijection(A, B)
    BY <1>3 DEF ExistsBijection
  <2>. QED
    BY <1>4, <2>1, FS_Bijection
<1>. QED
  BY <1>5 DEF Count
-------------------------------------------------------------------------------
(* The first mirror of a host.                                             *)

\* A set of natural numbers has a least one.
LEMMA LeastOf ==
    ASSUME NEW S, S \subseteq Nat, S # {}
    PROVE  \E m \in S : \A n \in S : m <= n
<1>. DEFINE R == OpToRel(<, Nat)
<1>1. \A x, y \in Nat : x < y => <<x, y>> \in R
  BY DEF OpToRel
<1>2. IsWellFoundedOn(R, Nat)
  BY NatLessThanWellFounded
<1>. HIDE DEF R
<1>3. PICK m \in S : \A n \in S : <<n, m>> \notin R
  BY <1>2, WFMin, Zenon
<1>4. ASSUME NEW n \in S PROVE m <= n
  <2>1. m \in Nat /\ n \in Nat /\ ~(n < m)
    BY <1>1, <1>3
  <2>. QED
    BY <2>1
<1>. QED
  BY <1>4

\* The indices and the elements of a sequence.
LEMMA SequenceDomain ==
    ASSUME NEW S, NEW s \in Seq(S)
    PROVE  Len(s) \in Nat /\ DOMAIN s = 1 .. Len(s) /\ \A i \in DOMAIN s : s[i] \in S
BY LenProperties, ElementOfSeq

\* FirstOf is the least index of a mirror of the host, or 0.
LEMMA FirstOfProperties ==
    ASSUME NEW list \in Seq(Mirrors), NEW h
    PROVE  /\ FirstOf(list, h) # 0 => FirstOf(list, h) \in DOMAIN list
           /\ FirstOf(list, h) \in DOMAIN list => HostOf[list[FirstOf(list, h)]] = h
           /\ \A i \in DOMAIN list : HostOf[list[i]] = h =>
                 FirstOf(list, h) \in DOMAIN list /\ FirstOf(list, h) <= i
<1>. DEFINE I == {i \in 1 .. Len(list) : HostOf[list[i]] = h}
<1>1. Len(list) \in Nat /\ DOMAIN list = 1 .. Len(list)
  BY SequenceDomain
<1>2. FirstOf(list, h) = IF I # {} THEN CHOOSE x \in I : \A y \in I : x =< y ELSE 0
  BY DEF FirstOf, SelectInSeq, Min
<1>3. CASE I = {}
  <2>1. FirstOf(list, h) = 0 /\ 0 \notin DOMAIN list
    BY <1>1, <1>2, <1>3
  <2>. QED
    BY <1>1, <1>3, <2>1
<1>4. CASE I # {}
  <2>1. I \subseteq Nat
    BY <1>1
  <2>2. FirstOf(list, h) \in I /\ \A y \in I : FirstOf(list, h) <= y
    <3>1. \E x \in I : \A y \in I : x <= y
      BY <1>4, <2>1, LeastOf
    <3>. HIDE DEF I
    <3>. QED
      BY <1>2, <1>4, <3>1
  <2>. QED
    BY <1>1, <2>2
<1>. QED
  BY <1>3, <1>4

-------------------------------------------------------------------------------
(* The order of the hosts applied to a list.                               *)

\* The hosts in the order are different.
Distinct == /\ order \in Seq(Hosts)
            /\ \A k, l \in DOMAIN order : order[k] = order[l] => k = l

Ranks(list) == [i \in 1 .. Len(list) |-> Rank(list, i)]
PlacesOf(list) == Places(Ranks(list), Len(list))
Chosen(list, i) == HostOf[list[i]] \in Range(order) /\ FirstOf(list, HostOf[list[i]]) = i

\* The first mirror of a host in the order has the rank of the host, the others come after
\* all of these, in the order they are in.
LEMMA RankProperties ==
    ASSUME Distinct, NEW list \in Seq(Mirrors), NEW i \in DOMAIN list
    PROVE  /\ Chosen(list, i) => Rank(list, i) \in DOMAIN order
                                 /\ order[Rank(list, i)] = HostOf[list[i]]
           /\ ~Chosen(list, i) => Rank(list, i) = Len(order) + i
           /\ Rank(list, i) \in Nat
<1>1. /\ Len(order) \in Nat /\ DOMAIN order = 1 .. Len(order)
      /\ Len(list) \in Nat /\ DOMAIN list = 1 .. Len(list)
  BY SequenceDomain DEF Distinct
<1>2. Rank(list, i) = IF Chosen(list, i) THEN CHOOSE k \in DOMAIN order : order[k] = HostOf[list[i]]
                      ELSE Len(order) + i
  <2>. DEFINE h == HostOf[list[i]]
  <2>1. FirstOf(list, h) = i <=> \A j \in 1 .. i - 1 : HostOf[list[j]] # h
    BY <1>1, FirstOfProperties
  <2>2. Chosen(list, i) <=> h \in Range(order) /\ \A j \in 1 .. i - 1 : HostOf[list[j]] # h
    BY <2>1, Zenon DEF Chosen
  <2>3. Rank(list, i) = IF h \in Range(order) /\ \A j \in 1 .. i - 1 : HostOf[list[j]] # h
                        THEN CHOOSE k \in DOMAIN order : order[k] = h ELSE Len(order) + i
    BY Zenon DEF Rank
  <2>4. CASE Chosen(list, i)
    BY <2>2, <2>3, <2>4, Zenon
  <2>5. CASE ~Chosen(list, i)
    BY <2>2, <2>3, <2>5, Zenon
  <2>. QED
    BY <2>4, <2>5, Zenon
<1>3. Chosen(list, i) => \E k \in DOMAIN order : order[k] = HostOf[list[i]]
  BY DEF Chosen, Range
<1>4. CASE Chosen(list, i)
  <2>1. Rank(list, i) \in DOMAIN order /\ order[Rank(list, i)] = HostOf[list[i]]
    BY <1>2, <1>3, <1>4
  <2>. QED
    BY <1>1, <1>4, <2>1
<1>5. CASE ~Chosen(list, i)
  BY <1>1, <1>2, <1>5
<1>. QED
  BY <1>4, <1>5

\* Two mirrors of a list do not have the same rank.
LEMMA RanksDiffer ==
    ASSUME Distinct, NEW list \in Seq(Mirrors)
    PROVE  /\ Ranks(list) \in [1 .. Len(list) -> Nat]
           /\ \A i, j \in 1 .. Len(list) : Ranks(list)[i] = Ranks(list)[j] => i = j
<1>1. /\ Len(order) \in Nat /\ DOMAIN order = 1 .. Len(order)
      /\ Len(list) \in Nat /\ DOMAIN list = 1 .. Len(list)
  BY SequenceDomain DEF Distinct
<1>2. Ranks(list) \in [1 .. Len(list) -> Nat]
  BY <1>1, RankProperties DEF Ranks
<1>3. ASSUME NEW i \in 1 .. Len(list), NEW j \in 1 .. Len(list), Rank(list, i) = Rank(list, j)
      PROVE  i = j
  <2>1. CASE Chosen(list, i) /\ Chosen(list, j)
    <3>1. HostOf[list[i]] = HostOf[list[j]]
      BY <1>1, <1>3, <2>1, RankProperties
    <3>. QED
      BY <2>1, <3>1 DEF Chosen
  <2>2. CASE ~Chosen(list, i) /\ ~Chosen(list, j)
    <3>1. Rank(list, i) = Len(order) + i /\ Rank(list, j) = Len(order) + j
      BY <1>1, <2>2, RankProperties
    <3>2. Len(order) + i = Len(order) + j
      BY <1>3, <3>1
    <3>3. Len(order) \in Int /\ i \in Int /\ j \in Int
      BY <1>1
    <3>. QED
      BY <3>2, <3>3
  <2>3. ASSUME NEW k \in 1 .. Len(list), NEW l \in 1 .. Len(list),
               Chosen(list, k), ~Chosen(list, l)
        PROVE  Rank(list, k) # Rank(list, l)
    <3>1. Rank(list, k) \in 1 .. Len(order) /\ Rank(list, l) = Len(order) + l
      BY <1>1, <2>3, RankProperties
    <3>. QED
      BY <1>1, <3>1
  <2>4. CASE Chosen(list, i) /\ ~Chosen(list, j)
    BY <1>3, <2>3, <2>4, Zenon
  <2>5. CASE ~Chosen(list, i) /\ Chosen(list, j)
    <3>1. Rank(list, j) # Rank(list, i)
      BY <2>3, <2>5, Zenon
    <3>. QED
      BY <1>3, <3>1, Zenon
  <2>. QED
    BY <2>1, <2>2, <2>4, <2>5, Zenon
<1>. QED
  BY <1>2, <1>3 DEF Ranks

\* The list that is made has the mirrors at the places of their ranks.
LEMMA AppliedProperties ==
    ASSUME Distinct, NEW list \in Seq(Mirrors)
    PROVE  /\ Applied(list) \in Seq(Mirrors) /\ Len(Applied(list)) = Len(list)
           /\ PlacesOf(list) \in Bijection(1 .. Len(list), 1 .. Len(list))
           /\ \A k \in 1 .. Len(list) :
                 Applied(list)[k] = list[Inverted(PlacesOf(list), Len(list))[k]]
           /\ \A i, j \in 1 .. Len(list) :
                 Rank(list, i) < Rank(list, j) => PlacesOf(list)[i] < PlacesOf(list)[j]
<1>1. /\ Len(list) \in Nat /\ DOMAIN list = 1 .. Len(list)
      /\ \A i \in DOMAIN list : list[i] \in Mirrors
  BY SequenceDomain
<1>2. /\ PlacesOf(list) \in Bijection(1 .. Len(list), 1 .. Len(list))
      /\ \A i, j \in 1 .. Len(list) :
            Ranks(list)[i] < Ranks(list)[j] => PlacesOf(list)[i] < PlacesOf(list)[j]
  BY <1>1, RanksDiffer, PlacesProperties DEF PlacesOf
<1>3. Inverted(PlacesOf(list), Len(list)) \in [1 .. Len(list) -> 1 .. Len(list)]
  BY <1>1, <1>2, InvertedProperties
<1>4. Applied(list) = [k \in 1 .. Len(list) |-> list[Inverted(PlacesOf(list), Len(list))[k]]]
  <2>. DEFINE rank == [i \in DOMAIN list |-> Rank(list, i)]
              place == [i \in DOMAIN list |->
                          Cardinality({j \in DOMAIN list : rank[j] <= rank[i]})]
  <2>1. rank = Ranks(list)
    BY <1>1 DEF Ranks
  <2>2. Applied(list) = [k \in DOMAIN list |-> list[CHOOSE i \in DOMAIN list : place[i] = k]]
    BY Zenon DEF Applied
  <2>. HIDE DEF rank
  <2>3. place = PlacesOf(list)
    BY <1>1, <2>1 DEF PlacesOf, Places
  <2>. HIDE DEF place
  <2>4. \A k \in 1 .. Len(list) :
           Inverted(PlacesOf(list), Len(list))[k] = CHOOSE i \in 1 .. Len(list) : place[i] = k
    BY <2>3 DEF Inverted
  <2>. QED
    BY <1>1, <2>2, <2>4
<1>5. Applied(list) \in [1 .. Len(list) -> Mirrors]
  BY <1>1, <1>3, <1>4
<1>6. Applied(list) \in Seq(Mirrors)
  BY <1>1, <1>5, SeqDef
<1>7. Len(Applied(list)) = Len(list)
  <2>1. DOMAIN Applied(list) = 1 .. Len(list)
    BY <1>5
  <2>2. DOMAIN Applied(list) = 1 .. Len(Applied(list)) /\ Len(Applied(list)) \in Nat
    BY <1>6, LenProperties
  <2>. QED
    BY <1>1, <2>1, <2>2
<1>8. \A i, j \in 1 .. Len(list) :
         Rank(list, i) < Rank(list, j) => PlacesOf(list)[i] < PlacesOf(list)[j]
  BY <1>2 DEF Ranks
<1>. QED
  BY <1>2, <1>4, <1>6, <1>7, <1>8

\* Where the first mirror of a host comes to.
LEMMA AppliedFirst ==
    ASSUME Distinct, NEW list \in Seq(Mirrors), NEW h \in Range(order),
           FirstOf(Applied(list), h) # 0
    PROVE  /\ FirstOf(list, h) \in DOMAIN list
           /\ FirstOf(Applied(list), h) = PlacesOf(list)[FirstOf(list, h)]
           /\ Rank(list, FirstOf(list, h)) \in DOMAIN order
           /\ order[Rank(list, FirstOf(list, h))] = h
<1>. DEFINE n == Len(list)
            A == Applied(list)
            place == PlacesOf(list)
            inv == Inverted(place, n)
            p == FirstOf(A, h)
            f == FirstOf(list, h)
<1>1. /\ n \in Nat /\ DOMAIN list = 1 .. n /\ Len(order) \in Nat
      /\ DOMAIN order = 1 .. Len(order)
  BY SequenceDomain DEF Distinct
<1>2. /\ A \in Seq(Mirrors) /\ DOMAIN A = 1 .. n /\ place \in Bijection(1 .. n, 1 .. n)
      /\ \A k \in 1 .. n : A[k] = list[inv[k]]
      /\ \A i, j \in 1 .. n : Rank(list, i) < Rank(list, j) => place[i] < place[j]
  <2>1. A \in Seq(Mirrors) /\ Len(A) = n
    BY AppliedProperties
  <2>2. DOMAIN A = 1 .. n
    BY <2>1, SequenceDomain
  <2>. QED
    BY <2>1, <2>2, AppliedProperties
<1>3. /\ inv \in [1 .. n -> 1 .. n] /\ \A k \in 1 .. n : place[inv[k]] = k
      /\ \A i \in 1 .. n : place[i] \in 1 .. n /\ inv[place[i]] = i
  BY <1>1, <1>2, InvertedProperties
<1>4. p \in 1 .. n /\ HostOf[A[p]] = h
  BY <1>2, FirstOfProperties
<1>. HIDE DEF inv, place, A, n
<1>5. inv[p] \in 1 .. n /\ HostOf[list[inv[p]]] = h /\ place[inv[p]] = p
  BY <1>2, <1>3, <1>4
<1>6. f \in 1 .. n /\ HostOf[list[f]] = h
  BY <1>1, <1>5, FirstOfProperties
<1>7. Chosen(list, f)
  BY <1>6 DEF Chosen
<1>8. Rank(list, f) \in DOMAIN order /\ order[Rank(list, f)] = h
  BY <1>1, <1>6, <1>7, RankProperties
<1>9. place[f] \in 1 .. n /\ HostOf[A[place[f]]] = h
  BY <1>2, <1>3, <1>6
<1>10. p <= place[f]
  BY <1>2, <1>9, FirstOfProperties
<1>11. inv[p] = f
  <2>1. SUFFICES ASSUME inv[p] # f PROVE FALSE
    OBVIOUS
  <2>2. ~Chosen(list, inv[p])
    BY <1>5, <2>1 DEF Chosen
  <2>3. Rank(list, inv[p]) = Len(order) + inv[p]
    BY <1>1, <1>5, <2>2, RankProperties
  <2>4. Rank(list, f) < Rank(list, inv[p])
    <3>1. inv[p] \in Nat /\ inv[p] > 0 /\ Rank(list, f) \in Nat /\ Rank(list, f) <= Len(order)
      BY <1>1, <1>5, <1>8
    <3>. QED
      BY <1>1, <2>3, <3>1
  <2>5. place[f] < place[inv[p]]
    BY <1>2, <1>5, <1>6, <2>4
  <2>6. place[f] < p /\ p \in Nat /\ place[f] \in Nat
    BY <1>1, <1>4, <1>5, <1>9, <2>5
  <2>. HIDE DEF p
  <2>. QED
    BY <1>10, <2>6
<1>. QED
  BY <1>1, <1>5, <1>6, <1>8, <1>11 DEF place, A

-------------------------------------------------------------------------------
(* Mirrors are kept.                                                       *)

\* Every mirror is as often in the list that is made as in the list it is made of.
LEMMA AppliedCount ==
    ASSUME Distinct, NEW list \in Seq(Mirrors), NEW m
    PROVE  Count(Applied(list), m) = Count(list, m)
<1>1. Len(list) \in Nat /\ DOMAIN list = 1 .. Len(list)
  BY SequenceDomain
<1>2. DOMAIN Applied(list) = 1 .. Len(list)
  BY AppliedProperties, SequenceDomain
<1>3. /\ PlacesOf(list) \in Bijection(1 .. Len(list), 1 .. Len(list))
      /\ \A k \in 1 .. Len(list) :
            Applied(list)[k] = list[Inverted(PlacesOf(list), Len(list))[k]]
  BY AppliedProperties
<1>. QED
  BY <1>1, <1>2, <1>3, ReorderedCount

-------------------------------------------------------------------------------
(* The hosts are in the order of their times.                              *)

Better(a, b) == times[a] >= 0 /\ (times[b] < 0 \/ times[a] < times[b])
IsNear(a, first) == times[a] >= 0 /\ times[a] < 2 * times[first]

\* A host that is in front of a better one is near the best, which is first.
InOrder ==
    \E first \in Hosts :
        /\ \A h \in Hosts : ~Better(h, first)
        /\ \A i, j \in DOMAIN order :
              i < j /\ Better(order[j], order[i]) => IsNear(order[i], first)
Sortable == Distinct /\ Range(order) = Hosts /\ InOrder

\* The invariant: what the properties say, and of the steps before a sorting that no order
\* is left from the call before.
SortInv ==
    /\ Numbers
    /\ lists \in [Handles -> Seq(Mirrors)]
    /\ Distinct
    /\ MirrorsKept
    /\ pc \in {"load", "prepare", "perform"} => order = <<>>
    /\ pc \in {"write", "apply"} => order = <<>> \/ Sortable
    /\ BestFirst

\* The best time of BestFirst.
BestTime == CHOOSE t \in {times[h] : h \in Hosts} :
                \A h \in Hosts : times[h] >= 0 => t >= 0 /\ t <= times[h]

\* The best time is the one of a host that no other is better than.
LEMMA BestTimeProperties ==
    ASSUME times \in [Hosts -> Int], NEW first \in Hosts,
           \A h \in Hosts : ~Better(h, first), NEW a \in Hosts, times[a] >= 0
    PROVE  BestTime = times[first]
<1>. DEFINE P(t) == \A h \in Hosts : times[h] >= 0 => t >= 0 /\ t <= times[h]
<1>1. times[first] \in {times[h] : h \in Hosts} /\ P(times[first])
  BY DEF Better
<1>2. BestTime \in {times[h] : h \in Hosts} /\ P(BestTime)
  <2>1. BestTime = CHOOSE t \in {times[h] : h \in Hosts} : P(t)
    BY Zenon DEF BestTime
  <2>2. \E t \in {times[h] : h \in Hosts} : P(t)
    BY <1>1
  <2>. HIDE DEF P
  <2>. QED
    BY <2>1, <2>2, Zenon
<1>3. PICK g \in Hosts : BestTime = times[g]
  BY <1>2
<1>4. times[g] >= 0
  BY <1>2, <1>3
<1>5. times[first] >= 0 /\ times[first] <= times[g]
  BY <1>1, <1>4
<1>6. times[g] <= times[first]
  BY <1>2, <1>3, <1>5
<1>7. times[g] \in Int /\ times[first] \in Int
  OBVIOUS
<1>. QED
  BY <1>3, <1>5, <1>6, <1>7

\* The lists that are made of an order of the hosts by their times.
LEMMA AppliedBestFirst ==
    ASSUME SortInv, order # <<>> => Sortable, lists' = [i \in Handles |-> Applied(lists[i])],
           UNCHANGED <<times, order>>
    PROVE  BestFirst'
<1>. SUFFICES ASSUME order # <<>>, NEW i \in Handles, NEW a \in Hosts, NEW b \in Hosts,
                     FirstOf(lists'[i], a) > 0, FirstOf(lists'[i], b) > 0,
                     FirstOf(lists'[i], a) < FirstOf(lists'[i], b), Better(b, a)
              PROVE  times[a] >= 0 /\ times[a] < 2 * BestTime
  BY Zenon DEF BestFirst, BestTime, Better
<1>1. /\ Distinct /\ Range(order) = Hosts /\ lists[i] \in Seq(Mirrors)
      /\ times \in [Hosts -> Int] /\ lists'[i] = Applied(lists[i])
  BY DEF SortInv, Sortable, Numbers
<1>2. PICK first \in Hosts :
          /\ \A h \in Hosts : ~Better(h, first)
          /\ \A k, l \in DOMAIN order :
                k < l /\ Better(order[l], order[k]) => IsNear(order[k], first)
  BY DEF Sortable, InOrder
<1>. DEFINE L == lists[i]
            r(h) == Rank(L, FirstOf(L, h))
<1>3. ASSUME NEW h \in Hosts, FirstOf(lists'[i], h) > 0
      PROVE  /\ FirstOf(L, h) \in DOMAIN L
             /\ FirstOf(lists'[i], h) = PlacesOf(L)[FirstOf(L, h)]
             /\ r(h) \in DOMAIN order /\ order[r(h)] = h
  <2>1. FirstOf(Applied(L), h) # 0 /\ h \in Range(order)
    BY <1>1, <1>3
  <2>. QED
    BY <1>1, <2>1, AppliedFirst
<1>4. r(a) < r(b)
  <2>1. \A k, l \in 1 .. Len(L) : Rank(L, k) < Rank(L, l) => PlacesOf(L)[k] < PlacesOf(L)[l]
    BY <1>1, AppliedProperties
  <2>2. DOMAIN L = 1 .. Len(L) /\ DOMAIN order = 1 .. Len(order) /\ Len(order) \in Nat
    BY <1>1, SequenceDomain DEF Distinct
  <2>3. FirstOf(L, a) \in 1 .. Len(L) /\ FirstOf(L, b) \in 1 .. Len(L)
    BY <1>3, <2>2
  <2>4. PlacesOf(L)[FirstOf(L, a)] < PlacesOf(L)[FirstOf(L, b)]
    BY <1>3
  <2>5. FirstOf(lists'[i], a) \in Int /\ FirstOf(lists'[i], b) \in Int
    <3>1. Applied(L) \in Seq(Mirrors)
      BY <1>1, AppliedProperties
    <3>2. DOMAIN Applied(L) \subseteq Int
      BY <3>1, SequenceDomain
    <3>. QED
      BY <1>1, <3>1, <3>2, FirstOfProperties
  <2>6. ~(r(b) < r(a))
    <3>. SUFFICES ASSUME r(b) < r(a) PROVE FALSE
      OBVIOUS
    <3>1. FirstOf(lists'[i], b) < FirstOf(lists'[i], a)
      BY <1>3, <2>1, <2>3
    <3>. QED
      BY <2>5, <3>1
  <2>7. r(a) # r(b)
    <3>. SUFFICES ASSUME r(a) = r(b) PROVE FALSE
      OBVIOUS
    <3>1. a = b
      BY <1>3
    <3>. QED
      BY <2>5, <3>1
  <2>8. r(a) \in Int /\ r(b) \in Int
    BY <1>3, <2>2
  <2>. HIDE DEF r
  <2>. QED
    BY <2>6, <2>7, <2>8
<1>. HIDE DEF r, L
<1>5. IsNear(a, first)
  BY <1>2, <1>3, <1>4
<1>6. BestTime = times[first]
  BY <1>1, <1>2, <1>5, BestTimeProperties DEF IsNear
<1>. QED
  BY <1>5, <1>6 DEF IsNear

\* There are finitely many hosts.
LEMMA HostsFinite == IsFiniteSet(Hosts)
<1>. DEFINE f == [m \in Mirrors |-> HostOf[m]]
<1>1. f \in Surjection(Mirrors, Hosts)
  <2>1. f \in [Mirrors -> Hosts] /\ \A h \in Hosts : \E m \in Mirrors : f[m] = h
    BY DEF Hosts
  <2>. QED
    BY <2>1, Fun_IsSurj
<1>. QED
  BY <1>1, FS_Surjection, FastestMirrorAssumption

\* What Perform makes of the hosts.
LEMMA OrderSortable ==
    ASSUME times' \in [Hosts -> Int], NEW best \in Best, order' \in Shuffled(best)
    PROVE  Sortable'
<1>. DEFINE n == Cardinality(Hosts)
<1>1. n \in Nat
  BY HostsFinite, FS_CardinalityType
<1>2. /\ order' \in [1 .. n -> Hosts]
      /\ \A i, j \in 1 .. n : i # j => order'[i] # order'[j]
      /\ \A i, j \in DOMAIN order' : i < j => \/ Near(order'[i], best)
                                              \/ ~Near(order'[j], best) /\ ~Before(order'[j], order'[i])
  BY Zenon DEF Shuffled, SetToSeqs
<1>. HIDE DEF n
<1>3. order' \in Seq(Hosts) /\ DOMAIN order' = 1 .. n
  BY <1>1, <1>2, SeqDef
<1>4. Distinct'
  BY <1>2, <1>3 DEF Distinct
<1>5. Range(order)' = Hosts
  <2>1. order' \in Injection(1 .. n, Hosts)
    BY <1>2, Fun_IsInj, Zenon
  <2>2. Cardinality(1 .. n) = n
    BY <1>1, FS_Interval
  <2>3. order' \in Surjection(1 .. n, Hosts)
    BY <2>1, <2>2, HostsFinite, FS_Injection DEF n
  <2>4. \A h \in Hosts : \E i \in 1 .. n : order'[i] = h
    BY <2>3, Zenon DEF Surjection
  <2>. QED
    BY <1>2, <1>3, <2>4 DEF Range
<1>6. PICK first \in Hosts : best = times'[first] /\ \A g \in Hosts : ~Before(g, first)
  BY DEF Best
<1>7. \A g, h \in Hosts : Better(g, h)' => Before(g, h)
  BY DEF Before, Better
<1>8. ASSUME NEW i \in DOMAIN order', NEW j \in DOMAIN order', i < j,
             Better(order[j], order[i])'
      PROVE  IsNear(order[i], first)'
  <2>1. order'[i] \in Hosts /\ order'[j] \in Hosts
    BY <1>2, <1>3
  <2>2. times'[order'[i]] \in Int /\ times'[order'[j]] \in Int
    BY <2>1
  <2>3. Before(order'[j], order'[i])
    BY <1>8, <2>2 DEF Before, Better
  <2>4. Near(order'[i], best)
    BY <1>2, <1>8, <2>3, Zenon
  <2>. QED
    BY <1>6, <2>4 DEF Near, IsNear
<1>9. \A h \in Hosts : ~Better(h, first)'
  BY <1>6, <1>7, Zenon
<1>10. InOrder'
  BY <1>8, <1>9, Zenon DEF InOrder
<1>. QED
  BY <1>4, <1>5, <1>10 DEF Sortable
-------------------------------------------------------------------------------
(* The invariant is kept.                                                  *)

\* No list is sorted at the start.
LEMMA SortInit == Init => SortInv
<1>. SUFFICES ASSUME Init PROVE SortInv
  OBVIOUS
<1>1. Numbers
  BY NumbersInit
<1>2. lists = InitialLists /\ order = <<>> /\ pc = "idle"
  BY DEF Init
<1>3. lists \in [Handles -> Seq(Mirrors)]
  BY <1>2, SequenceDomain, FastestMirrorAssumption DEF FastestMirrorAssumption, Handles
<1>4. Distinct
  BY <1>2 DEF Distinct
<1>5. MirrorsKept
  BY <1>2, Zenon DEF MirrorsKept
<1>6. BestFirst
  BY <1>2, Zenon DEF BestFirst
<1>. QED
  BY <1>1, <1>2, <1>3, <1>4, <1>5, <1>6 DEF SortInv

\* What a step that does not touch the lists leaves as it was.
LEMMA ListsUnchanged ==
    ASSUME SortInv, UNCHANGED lists
    PROVE  lists' \in [Handles -> Seq(Mirrors)] /\ MirrorsKept'
<1>1. MirrorsKept /\ lists \in [Handles -> Seq(Mirrors)]
  BY DEF SortInv
<1>2. MirrorsKept'
  BY <1>1, ZenonT(30) DEF MirrorsKept
<1>. QED
  BY <1>1, <1>2

\* What a step that does not touch the hosts' order and times leaves as it was.
LEMMA OrderUnchanged ==
    ASSUME SortInv, UNCHANGED <<times, order>>
    PROVE  Distinct' /\ (Sortable => Sortable')
<1>1. Distinct'
  BY DEF SortInv, Distinct
<1>2. Sortable => Sortable'
  BY Zenon DEF Sortable, Distinct, InOrder, Better, IsNear
<1>. QED
  BY <1>1, <1>2

\* Steps of the clock, the network and the other processes, and those that only move on.
LEMMA QuietStep ==
    ASSUME SortInv, Numbers', UNCHANGED <<lists, times, order, pc, ret>>
    PROVE  SortInv'
<1>1. BestFirst'
  BY Zenon DEF SortInv, BestFirst
<1>2. /\ pc' \in {"load", "prepare", "perform"} => order' = <<>>
      /\ pc' \in {"write", "apply"} => order' = <<>> \/ Sortable'
  BY OrderUnchanged DEF SortInv
<1>. QED
  BY <1>1, <1>2, ListsUnchanged, OrderUnchanged DEF SortInv

\* A step of a call before the lists are sorted.
LEMMA EmptyStep ==
    ASSUME SortInv, Numbers', UNCHANGED lists, order' = <<>>
    PROVE  SortInv'
<1>1. Distinct'
  BY DEF Distinct
<1>2. BestFirst'
  BY Zenon DEF BestFirst
<1>. QED
  BY <1>1, <1>2, ListsUnchanged DEF SortInv

\* Perform puts the hosts in the order of their times, or fails and leaves no order.
LEMMA SortedStep ==
    ASSUME SortInv, Numbers', Perform PROVE SortInv'
<1>1. CASE order' = order
  BY <1>1, EmptyStep DEF Perform, SortInv
<1>2. ASSUME NEW best \in Best, order' \in Shuffled(best), pc' = "write"
      PROVE  SortInv'
  <2>1. Sortable'
    BY <1>2, OrderSortable DEF Numbers
  <2>2. BestFirst'
    BY <1>2 DEF BestFirst
  <2>. QED
    BY <1>2, <2>1, <2>2, ListsUnchanged DEF SortInv, Sortable, Perform
<1>. QED
  BY <1>1, <1>2 DEF Perform

\* Apply makes each list of the same mirrors, in the order of the hosts.
LEMMA AppliedStep ==
    ASSUME SortInv, Numbers', Apply PROVE SortInv'
<1>1. /\ lists' = [i \in Handles |-> Applied(lists[i])] /\ pc' = "idle"
      /\ UNCHANGED <<times, order>>
  BY DEF Apply, callVars
<1>2. Distinct /\ lists \in [Handles -> Seq(Mirrors)] /\ MirrorsKept
  BY DEF SortInv
<1>3. order # <<>> => Sortable
  BY DEF SortInv, Apply
<1>4. lists' \in [Handles -> Seq(Mirrors)]
  BY <1>1, <1>2, AppliedProperties
<1>5. MirrorsKept'
  <2>1. ASSUME NEW i \in Handles, NEW m \in Mirrors
        PROVE  Count(lists'[i], m) = Count(InitialLists[i], m)
    <3>1. Count(Applied(lists[i]), m) = Count(lists[i], m)
      BY <1>2, AppliedCount
    <3>2. Count(lists[i], m) = Count(InitialLists[i], m)
      BY <1>2, Zenon DEF MirrorsKept, Count
    <3>. QED
      BY <1>1, <3>1, <3>2
  <2>. QED
    BY <2>1, Zenon DEF MirrorsKept, Count
<1>6. BestFirst'
  BY <1>1, <1>3, AppliedBestFirst
<1>. QED
  BY <1>1, <1>4, <1>5, <1>6, OrderUnchanged DEF SortInv

\* Every step keeps the invariant.
LEMMA SortKept == SortInv /\ [Next]_vars => SortInv'
<1>. SUFFICES ASSUME SortInv, [Next]_vars PROVE SortInv'
  OBVIOUS
<1>1. Numbers'
  BY NumbersKept DEF SortInv
<1>2. CASE Tick \/ NetworkChanges \/ OtherProcess \/ UNCHANGED vars
  BY <1>1, <1>2, QuietStep DEF Tick, NetworkChanges, OtherProcess, vars, callVars
<1>3. CASE Call
  BY <1>1, <1>3, EmptyStep DEF Call
<1>4. CASE Load
  BY <1>1, <1>4, EmptyStep DEF Load, SortInv
<1>5. CASE Prepare
  BY <1>1, <1>5, EmptyStep DEF Prepare, SortInv
<1>6. CASE Perform
  BY <1>1, <1>6, SortedStep
<1>7. CASE Write
  <2>1. UNCHANGED <<lists, times, order>> /\ pc' = "apply" /\ pc = "write"
    BY <1>7 DEF Write, callVars
  <2>2. BestFirst'
    BY <2>1 DEF BestFirst
  <2>3. order' = <<>> \/ Sortable'
    BY <2>1, OrderUnchanged DEF SortInv
  <2>. QED
    BY <1>1, <2>1, <2>2, <2>3, ListsUnchanged, OrderUnchanged DEF SortInv
<1>8. CASE Apply
  BY <1>1, <1>8, AppliedStep
<1>. QED
  BY <1>2, <1>3, <1>4, <1>5, <1>6, <1>7, <1>8 DEF Next

\* The invariant holds of every state.
THEOREM Sorting == Spec => []SortInv
BY SortInit, SortKept, PTL DEF Spec

\* Sorting neither loses nor repeats a mirror: what a host's first mirror takes the place
\* of, and what is left over, is a permutation of each list.
THEOREM MirrorsKeptHolds == Spec => []MirrorsKept
<1>1. SortInv => MirrorsKept
  BY DEF SortInv
<1>. QED
  BY <1>1, Sorting, PTL

\* After a sorting each handle tries the hosts that were reached before the others and the
\* fast ones before those that are more than twice as slow as the best.
THEOREM BestFirstHolds == Spec => []BestFirst
<1>1. SortInv => BestFirst
  BY DEF SortInv
<1>. QED
  BY <1>1, Sorting, PTL
===============================================================================
