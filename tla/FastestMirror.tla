----------------------------- MODULE FastestMirror -----------------------------
(***************************************************************************)
(* lr_fastestmirror_sort_internalmirrorlists() of fastestmirror.c: the     *)
(* hosts of the mirrors of several handles are measured, or their times    *)
(* taken from a cache file that other processes use too, and the mirrors   *)
(* of each handle are put in the order of the times of their hosts.        *)
(*                                                                         *)
(* Times are small numbers; what is measured is the time the network needs *)
(* at that moment.  The steps of a call are separate where the clock, the  *)
(* network or another process can change what it read.                     *)
(***************************************************************************)
EXTENDS Integers, Sequences, SequencesExt, FiniteSets

CONSTANTS
    Mirrors,
    HostOf,        \* [Mirrors -> hosts], as lr_url_without_path() tells them
    LocalHosts,    \* the host of the mirrors in the file system
    InitialLists,  \* the internal mirrorlists of the handles, the first handle in front
    Offline,       \* whether the first handle is offline
    HasCache,      \* whether it has a cache file
    Latencies,     \* the times a host may need; Unreachable among them
    MaxAge,        \* LRO_FASTESTMIRRORMAXAGE
    RecordMaxAge,  \* CACHE_RECORD_MAX_AGE
    MaxTime,       \* bound of the clock
    MaxCalls,      \* bound: calls
    MaxEvents      \* bound: changes by the network and by other processes

Unreachable == -1
Hosts == {HostOf[m] : m \in Mirrors}
Handles == DOMAIN InitialLists
NoRecord == [ts |-> -1, time |-> 0]
NoRecords == [h \in Hosts |-> NoRecord]

ASSUME FastestMirrorAssumption ==
    /\ IsFiniteSet(Mirrors)
    /\ LocalHosts \subseteq Hosts
    /\ InitialLists \in Seq(Seq(Mirrors)) /\ InitialLists # <<>>
    /\ Latencies \subseteq Nat \cup {Unreachable}
    /\ Offline \in BOOLEAN /\ HasCache \in BOOLEAN
    /\ MaxAge \in Nat /\ RecordMaxAge \in Nat

VARIABLES
    lists,     \* internal_mirrorlist of each handle
    network,   \* the time each host needs now
    disk,      \* the cache file: "none", "bad" (no cache of this version), "good"; its records
    now,       \* the clock
    cache,     \* the records in memory
    times,     \* plain_connect_time of each host of the call
    used,      \* the hosts whose time came from the cache
    order,     \* the sorted hosts
    pc, ret, calls, events,
    measured   \* history: every measurement of a host, by this process or another

vars == <<lists, network, disk, now, cache, times, used, order, pc, ret, calls, events, measured>>
callVars == <<cache, times, used, order>>

Record == [ts : -1 .. MaxTime, time : Latencies \cup {0}]

TypeOK ==
    /\ lists \in [Handles -> Seq(Mirrors)]
    /\ network \in [Hosts -> Latencies]
    /\ disk.state \in {"none", "bad", "good"} /\ disk.records \in [Hosts -> Record]
    /\ cache \in [Hosts -> Record]
    /\ times \in [Hosts -> Latencies \cup {0}] /\ used \subseteq Hosts
    /\ order \in Seq(Hosts)
    /\ pc \in {"idle", "load", "prepare", "perform", "write", "apply"}
    /\ ret \in {"ok", "error"}
    /\ measured \subseteq [host : Hosts, time : Latencies, at : 0 .. MaxTime]

Init ==
    /\ lists = InitialLists
    /\ network \in [Hosts -> Latencies] /\ \A h \in LocalHosts : network[h] = 0
    /\ \A h \in Hosts \ LocalHosts : network[h] # 0
    /\ disk = [state |-> "none", records |-> NoRecords] /\ now = 0
    /\ cache = NoRecords /\ times = [h \in Hosts |-> 0] /\ used = {} /\ order = <<>>
    /\ pc = "idle" /\ ret = "ok" /\ calls = 0 /\ events = 0
    /\ measured = {}
-------------------------------------------------------------------------------
(* Time, the network and other processes.                                  *)

Tick == now < MaxTime /\ now' = now + 1
        /\ UNCHANGED <<lists, network, disk, callVars, pc, ret, calls, events, measured>>

NetworkChanges ==
    /\ events < MaxEvents /\ events' = events + 1
    /\ \E h \in Hosts \ LocalHosts, t \in Latencies \ {0} : network' = [network EXCEPT ![h] = t]
    /\ UNCHANGED <<lists, disk, now, callVars, pc, ret, calls, measured>>

\* The measurements of some hosts, made now.
Made(hosts) == {[host |-> h, time |-> network[h], at |-> now] : h \in hosts}

\* Another process wrote the file with what it measured, or is about to write it: the
\* file is emptied before it is filled.
OtherProcess ==
    /\ HasCache /\ events < MaxEvents /\ events' = events + 1
    /\ \/ disk' = [state |-> "bad", records |-> NoRecords] /\ UNCHANGED measured
       \/ \E h \in Hosts :
             /\ disk' = [state |-> "good",
                         records |-> [disk.records EXCEPT ![h] = [ts |-> now, time |-> network[h]]]]
             /\ measured' = measured \cup Made({h})
    /\ UNCHANGED <<lists, network, now, callVars, pc, ret, calls>>
-------------------------------------------------------------------------------
(* A call.                                                                 *)

\* With one host there is nothing to sort; offline the list of hosts comes back empty,
\* and every mirror is one of those left over.
Call ==
    /\ pc = "idle" /\ calls < MaxCalls /\ calls' = calls + 1
    /\ LET hosts == {HostOf[m] : m \in UNION {Range(lists[i]) : i \in Handles}}
       IN  IF Cardinality(hosts) <= 1 THEN pc' = "idle" ELSE pc' = IF Offline THEN "apply" ELSE "load"
    /\ ret' = "ok" /\ order' = <<>> /\ used' = {} /\ cache' = NoRecords
    /\ times' = [h \in Hosts |-> 0]
    /\ UNCHANGED <<lists, network, disk, now, events, measured>>

\* The records of the file but those that are far too old.
Loaded(records) ==
    [h \in Hosts |-> IF records[h].ts < now - RecordMaxAge THEN NoRecord ELSE records[h]]

Load ==
    /\ pc = "load" /\ pc' = "prepare"
    /\ cache' = IF HasCache /\ disk.state = "good" THEN Loaded(disk.records) ELSE NoRecords
    /\ UNCHANGED <<lists, network, disk, now, times, used, order, ret, calls, events, measured>>

Fresh(h) == cache[h] # NoRecord /\ cache[h].ts >= now - MaxAge

\* Cached times are taken; a curl handle is made for each other host, which may fail.
Prepare ==
    /\ pc = "prepare"
    /\ used' = {h \in Hosts : Fresh(h)}
    /\ times' = [h \in Hosts |-> IF Fresh(h) THEN cache[h].time ELSE 0]
    /\ \/ pc' = "perform" /\ UNCHANGED <<ret, events>>
       \/ used' # Hosts /\ events < MaxEvents /\ events' = events + 1 /\ pc' = "idle" /\ ret' = "error"
    /\ UNCHANGED <<lists, network, disk, now, cache, order, calls, measured>>

\* Mutant: hosts that were not reached have the smallest time.
BeforeBySign(a, b) == times'[a] < times'[b]
\* cmp_fastestmirrors(): hosts that were not reached come last.
Before(a, b) ==
    /\ times'[a] >= 0
    /\ times'[b] >= 0 => times'[a] < times'[b]

\* lr_fastestmirror(): the hosts within twice the best time, which is the one sorted to
\* the front, are shuffled; the others follow as they were sorted.
Best == {times'[first] : first \in {h \in Hosts : \A g \in Hosts : ~Before(g, h)}}
Near(h, best) == times'[h] >= 0 /\ times'[h] < 2 * best
Shuffled(best) ==
    {s \in SetToSeqs(Hosts) : \A i, j \in DOMAIN s : i < j =>
        \/ Near(s[i], best)
        \/ ~Near(s[j], best) /\ ~Before(s[j], s[i])}

\* Mutant: a time taken from the cache is stored as if it had been measured now.
StoredAfresh == [h \in Hosts |-> [ts |-> now, time |-> times'[h]]]
\* The records to be written: only what was measured gets the time of the day.
Stored == [h \in Hosts |-> IF h \in used THEN cache[h] ELSE [ts |-> now, time |-> times'[h]]]

\* The hosts without a time are connected to, and all are sorted.
Perform ==
    /\ pc = "perform"
    /\ \/ /\ times' = [h \in Hosts |-> IF h \in used THEN times[h] ELSE network[h]]
          /\ \E best \in Best : order' \in Shuffled(best)
          /\ cache' = Stored
          /\ measured' = measured \cup Made(Hosts \ used)
          /\ pc' = "write" /\ UNCHANGED <<ret, events>>
       \/ /\ used # Hosts /\ events < MaxEvents /\ events' = events + 1
          /\ pc' = "idle" /\ ret' = "error"
          /\ UNCHANGED <<times, order, cache, measured>>
    /\ UNCHANGED <<lists, network, disk, now, used, calls>>

\* The file is written over; that it cannot be is ignored.
Write ==
    /\ pc = "write" /\ pc' = "apply"
    /\ disk' \in IF HasCache THEN {disk, [state |-> "good", records |-> cache]} ELSE {disk}
    /\ UNCHANGED <<lists, network, now, callVars, ret, calls, events, measured>>

\* The position of the first mirror of a host, 0 without one.
FirstOf(list, h) == SelectInSeq(list, LAMBDA m : HostOf[m] = h)

\* Mutant: only the first mirror of each host is kept.
AppliedFirsts(list) ==
    FoldLeft(LAMBDA sorted, h : IF FirstOf(list, h) = 0 THEN sorted
                                ELSE Append(sorted, list[FirstOf(list, h)]), <<>>, order)
\* The first mirror of each host in the order of the hosts, then the others, as they were:
\* each mirror has a rank, and the list is put in the order of the ranks.
Rank(list, i) ==
    LET h == HostOf[list[i]]
    IN  IF h \in Range(order) /\ \A j \in 1 .. i - 1 : HostOf[list[j]] # h
        THEN CHOOSE k \in DOMAIN order : order[k] = h ELSE Len(order) + i
Applied(list) ==
    LET rank == [i \in DOMAIN list |-> Rank(list, i)]
        place == [i \in DOMAIN list |-> Cardinality({j \in DOMAIN list : rank[j] <= rank[i]})]
    IN  [n \in DOMAIN list |-> list[CHOOSE i \in DOMAIN list : place[i] = n]]

Apply ==
    /\ pc = "apply" /\ pc' = "idle"
    /\ lists' = [i \in Handles |-> Applied(lists[i])]
    /\ UNCHANGED <<network, disk, now, callVars, ret, calls, events, measured>>

Next == Tick \/ NetworkChanges \/ OtherProcess
        \/ Call \/ Load \/ Prepare \/ Perform \/ Write \/ Apply

Spec == Init /\ [][Next]_vars
-------------------------------------------------------------------------------
(* Properties                                                              *)

\* Sorting neither loses nor repeats a mirror, whatever hosts the handles share, though
\* the mirrors are moved from one list to the other while the hosts are walked.
MirrorsKept ==
    \A i \in Handles, m \in Mirrors :
       Cardinality({j \in DOMAIN lists[i] : lists[i][j] = m})
         = Cardinality({j \in DOMAIN InitialLists[i] : InitialLists[i][j] = m})

\* After a sorting every handle tries a host that was not reached after all that were,
\* and one that is more than twice as slow as the best after the faster ones.
BestFirst ==
    pc = "idle" /\ ret = "ok" /\ order # <<>> =>
    LET best == CHOOSE t \in {times[h] : h \in Hosts} :
                   \A h \in Hosts : times[h] >= 0 => t >= 0 /\ t <= times[h]
        Better(a, b) == times[a] >= 0 /\ (times[b] < 0 \/ times[a] < times[b])
    IN  \A i \in Handles, a, b \in Hosts :
           LET p == FirstOf(lists[i], a)  q == FirstOf(lists[i], b)
           IN  p > 0 /\ q > 0 /\ p < q /\ Better(b, a) => times[a] >= 0 /\ times[a] < 2 * best

\* A time taken from the cache was really measured for that host, by this process or
\* another, and at most MaxAge before it is taken, although calls and other processes
\* write the records again and again and keep them for longer than they may be used.
CachedIsRecent ==
    [][\A h \in used' \ used : \E m \in measured :
           m.host = h /\ m.time = times'[h] /\ m.at >= now - MaxAge]_vars
===============================================================================
