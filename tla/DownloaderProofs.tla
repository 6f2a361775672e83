--------------------------- MODULE DownloaderProofs ---------------------------
(***************************************************************************)
(* Theorems about Downloader for any number of targets, mirrors and        *)
(* handles and any limits.  The first part is about the mirrors, their     *)
(* lists, counters and limits.  The second rests on its inductive          *)
(* invariant and is about what a call of lr_download() comes to: it leaves *)
(* no target waiting, reports every target once, keeps the failures of one *)
(* target from the others, stays within the limits of tries, and does what *)
(* DownloadSpec says.                                                      *)
(***************************************************************************)
EXTENDS Downloader, FiniteSetTheorems, SequenceTheorems, TLAPS

(* The inductive invariant.  The limits follow from the counters, the       *)
(* counters from the list of running transfers, and that list from the     *)
(* targets' states, so none of them is inductive alone.                    *)

\* A mirror counts the transfers that run from it.
Counts == pc # "done" => \A m \in Mirrors : stat[m].running = Cardinality(Running(m))

\* dd->running_transfers holds the targets in state LR_DS_RUNNING, and libcurl has
\* messages of these alone.
Lists == pc # "done" => /\ active = {t \in Targets : state[t] = "RUNNING"}
                        /\ \A t \in Targets : outcome[t] # "none" => t \in active

\* The mirror of a target is in the list of its handle.
Known == \A t \in Targets : mirror[t] # NoMirror => mirror[t] \in Range(MirrorList[HandleOf[t]])

\* A limit stays between 1 and LRO_MAXDOWNLOADSPERMIRROR, and is respected.
Limits == \A m \in Mirrors : /\ stat[m].allowed \in 0 .. MaxPerMirror
                             /\ stat[m].running <= AllowedNow(m)

\* The free slots are what the running transfers leave of MaxParallel.
Slots == /\ free_slots >= 0
         /\ Cardinality(active) <= MaxParallel
         /\ pc \in {"entry", "prepare_first", "prepare"} =>
                free_slots + Cardinality(active) = MaxParallel

IInv == TypeOK /\ Counts /\ Lists /\ Known /\ MirrorsKept /\ Limits /\ Slots

-------------------------------------------------------------------------------
(* Lemmas on the operators.                                                *)

\* Exchanging two elements of a sequence keeps its length and its elements: the
\* pointer moves of sort_mirrors().
LEMMA SwapKeeps ==
    ASSUME NEW S, NEW list \in Seq(S), NEW i \in DOMAIN list, NEW j \in DOMAIN list
    PROVE  /\ Swap(list, i, j) \in Seq(S)
           /\ Len(Swap(list, i, j)) = Len(list)
           /\ Range(Swap(list, i, j)) = Range(list)
<1> DEFINE w == Swap(list, i, j)
<1>1. i \in 1 .. Len(list) /\ j \in 1 .. Len(list) /\ DOMAIN list = 1 .. Len(list)
  OBVIOUS
<1>2. list[i] \in S /\ list[j] \in S
  BY <1>1, ElementOfSeq
<1> DEFINE v == [list EXCEPT ![i] = list[j]]
<1>3. v \in Seq(S) /\ Len(v) = Len(list)
  BY <1>1, <1>2, ExceptSeq
<1>4. w = [v EXCEPT ![j] = list[i]]
  BY DEF Swap
<1>5. w \in Seq(S) /\ Len(w) = Len(list)
  BY <1>1, <1>2, <1>3, <1>4, ExceptSeq
<1>6. DOMAIN w = DOMAIN list
  BY <1>1, <1>5
<1>7. \A k \in DOMAIN list : w[k] = IF k = j THEN list[i] ELSE IF k = i THEN list[j] ELSE list[k]
  BY <1>1 DEF Swap
<1>8. Range(w) = Range(list)
  <2>1. ASSUME NEW x \in Range(w) PROVE x \in Range(list)
    BY <2>1, <1>1, <1>6, <1>7 DEF Range
  <2>2. ASSUME NEW x \in Range(list) PROVE x \in Range(w)
    <3>1. PICK k \in DOMAIN list : list[k] = x
      BY <2>2 DEF Range
    <3>2. CASE k = i
      <4>1. w[j] = x
        BY <3>1, <3>2, <1>1, <1>7
      <4> QED BY <4>1, <1>1, <1>6 DEF Range
    <3>3. CASE k = j /\ k # i
      <4>1. w[i] = x
        BY <3>1, <3>3, <1>1, <1>7
      <4> QED BY <4>1, <1>1, <1>6 DEF Range
    <3>4. CASE k # i /\ k # j
      <4>1. w[k] = x
        BY <3>1, <3>4, <1>1, <1>7
      <4> QED BY <4>1, <3>1, <1>6 DEF Range
    <3> QED BY <3>2, <3>3, <3>4
  <2> QED BY <2>1, <2>2
<1> QED BY <1>5, <1>8

\* Whatever the counters say, sort_mirrors() permutes the list.
LEMMA SortMirrorsKeeps ==
    ASSUME NEW list \in Seq(Mirrors), NEW m \in Range(list), NEW st, NEW success, NEW serious
    PROVE  LET new == SortMirrors(list, m, st, success, serious) IN
           /\ new \in Seq(Mirrors)
           /\ Len(new) = Len(list)
           /\ Range(new) = Range(list)
<1> DEFINE new == SortMirrors(list, m, st, success, serious)
           cur == CHOOSE i \in DOMAIN list : list[i] = m
<1>1. cur \in DOMAIN list /\ DOMAIN list = 1 .. Len(list) /\ Len(list) \in Nat
  BY DEF Range
<1>2. cur + 1 \in Int /\ cur - 1 \in Int
  BY <1>1
<1>3. new = list \/ \E j \in DOMAIN list : new = Swap(list, cur, j)
  <2>1. Len(list) \in DOMAIN list
    BY <1>1
  <2>2. cur > 1 => cur - 1 \in DOMAIN list
    BY <1>1
  <2>3. cur < Len(list) => cur + 1 \in DOMAIN list
    BY <1>1
  <2> QED BY <2>1, <2>2, <2>3, Zenon DEF SortMirrors
<1> HIDE DEF new
<1>4. /\ new \in Seq(Mirrors)
      /\ Len(new) = Len(list)
      /\ Range(new) = Range(list)
  <2> HIDE DEF cur
  <2>1. CASE new = list
    BY <2>1
  <2>2. ASSUME NEW j \in DOMAIN list, new = Swap(list, cur, j) PROVE <1>4!:
    BY <2>2, <1>1, SwapKeeps
  <2> QED BY <1>3, <2>1, <2>2
<1> QED BY <1>4 DEF new

\* Only finitely many transfers run, altogether and from each mirror.
LEMMA RunningFinite ==
    ASSUME TypeOK
    PROVE  /\ IsFiniteSet(active) /\ Cardinality(active) \in Nat
           /\ \A m \in Mirrors : IsFiniteSet(Running(m)) /\ Cardinality(Running(m)) \in Nat
<1>1. IsFiniteSet(Targets)
  BY FS_Interval, ConstantsAssumption DEF Targets
<1>2. IsFiniteSet(active)
  BY <1>1, FS_Subset DEF TypeOK
<1>3. ASSUME NEW m \in Mirrors PROVE IsFiniteSet(Running(m))
  <2>1. Running(m) \subseteq active
    BY DEF Running
  <2> QED BY <1>2, <2>1, FS_Subset
<1> QED BY <1>2, <1>3, FS_CardinalityType

\* A mirror's limit is at least 1, at most LRO_MAXDOWNLOADSPERMIRROR and not exceeded.
LEMMA MirrorBounds ==
    ASSUME IInv, NEW n \in Mirrors
    PROVE  /\ stat[n] \in MirrorStat
           /\ stat[n].running \in Nat
           /\ AllowedNow(n) \in 1 .. MaxPerMirror
           /\ stat[n].running <= AllowedNow(n)
<1>1. stat[n] \in MirrorStat
  BY DEF IInv, TypeOK
<1>2. stat[n].allowed \in 0 .. MaxPerMirror /\ stat[n].running <= AllowedNow(n)
  BY DEF IInv, Limits
<1>3. AllowedNow(n) \in 1 .. MaxPerMirror
  BY <1>2, ConstantsAssumption DEF AllowedNow
<1> QED BY <1>1, <1>2, <1>3 DEF MirrorStat

\* Every handle's list holds the mirrors it was given, so a mirror taken from it is one
\* of the handle's mirrors.
LEMMA ListMirrors ==
    ASSUME IInv, NEW t \in Targets, NEW i \in DOMAIN MirrorsOf(t)
    PROVE  /\ MirrorsOf(t)[i] \in Mirrors
           /\ MirrorsOf(t)[i] # NoMirror
           /\ MirrorsOf(t)[i] \in Range(MirrorList[HandleOf[t]])
<1>1. HandleOf[t] \in Handles
  BY ConstantsAssumption
<1>2. MirrorsOf(t) \in Seq(Mirrors)
  BY <1>1 DEF MirrorsOf, IInv, TypeOK
<1>3. MirrorsOf(t)[i] \in Mirrors
  BY <1>2, ElementOfSeq
<1>4. MirrorsOf(t)[i] \in Range(lrmirrors[HandleOf[t]])
  BY DEF MirrorsOf, Range
<1> QED BY <1>1, <1>3, <1>4, ConstantsAssumption DEF IInv, MirrorsKept

-------------------------------------------------------------------------------
(* Starting a transfer.                                                    *)

\* A started transfer takes a free slot and, with a mirror below its limit, a
\* connection of that mirror.
LEMMA LaunchKeeps ==
    ASSUME IInv, NEW t \in Targets, NEW m \in Mirrors \cup {NoMirror},
           pc \in {"prepare_first", "prepare"}, free_slots > 0, state[t] = "WAITING",
           m # NoMirror => ~LimitReached(m) /\ m \in Range(MirrorList[HandleOf[t]]),
           Launch(t, m)
    PROVE  /\ state' \in [Targets -> {"WAITING", "RUNNING", "FINISHED", "FAILED"}]
           /\ mirror' \in [Targets -> Mirrors \cup {NoMirror}]
           /\ file' \in [Targets -> {"original", "written", "removed"}]
           /\ stat' \in [Mirrors -> MirrorStat]
           /\ active' \subseteq Targets /\ free_slots' \in Int
           /\ Counts' /\ Lists' /\ Known' /\ MirrorsKept' /\ Limits' /\ Slots'
<1> USE DEF IInv
<1>1. t \notin active
  BY DEF Lists
<1>2. /\ IsFiniteSet(active) /\ Cardinality(active) \in Nat
      /\ \A n \in Mirrors : IsFiniteSet(Running(n)) /\ Cardinality(Running(n)) \in Nat
  BY RunningFinite
<1>3. /\ state' = [state EXCEPT ![t] = "RUNNING"]
      /\ mirror' = [mirror EXCEPT ![t] = m]
      /\ active' = active \cup {t} /\ free_slots' = free_slots - 1
      /\ pc' = pc /\ outcome' = outcome /\ lrmirrors' = lrmirrors
  BY DEF Launch
<1>4. /\ state' \in [Targets -> {"WAITING", "RUNNING", "FINISHED", "FAILED"}]
      /\ mirror' \in [Targets -> Mirrors \cup {NoMirror}]
      /\ file' \in [Targets -> {"original", "written", "removed"}]
      /\ active' \subseteq Targets /\ free_slots' \in Int
  BY DEF Launch, TypeOK
<1>5. ASSUME NEW n \in Mirrors
      PROVE  stat'[n] = IF n = m THEN Connected(n) ELSE stat[n]
  BY ConstantsAssumption DEF Launch, TypeOK
<1>6. \A n \in Mirrors : stat[n] \in MirrorStat /\ AllowedNow(n) \in 1 .. MaxPerMirror
  BY MirrorBounds
<1>6a. ASSUME NEW n \in Mirrors
       PROVE  /\ Connected(n) \in MirrorStat
              /\ Connected(n).allowed = AllowedNow(n)
              /\ Connected(n).running = stat[n].running + 1
  BY <1>6, ConstantsAssumption DEF MirrorStat, Connected
<1>7. \A n \in Mirrors : stat'[n] \in MirrorStat
  BY <1>5, <1>6, <1>6a
<1>8. stat' \in [Mirrors -> MirrorStat]
  <2>1. stat' = [n \in Mirrors |-> stat'[n]]
    BY DEF Launch, TypeOK
  <2> QED BY <2>1, <1>7
<1>9. Counts'
  <2> SUFFICES ASSUME NEW n \in Mirrors PROVE stat'[n].running = Cardinality(Running(n)')
    BY DEF Counts
  <2>1. CASE n = m
    <3>1. Running(n)' = Running(n) \cup {t} /\ t \notin Running(n)
      BY <2>1, <1>1, <1>3 DEF Running, TypeOK
    <3>2. Cardinality(Running(n)') = Cardinality(Running(n)) + 1
      BY <3>1, <1>2, FS_AddElement
    <3>3. stat'[n].running = stat[n].running + 1
      BY <2>1, <1>5, <1>6a
    <3> QED BY <3>2, <3>3 DEF Counts
  <2>2. CASE n # m
    <3>1. Running(n)' = Running(n)
      BY <2>2, <1>1, <1>3 DEF Running, TypeOK
    <3> QED BY <3>1, <2>2, <1>5 DEF Counts
  <2> QED BY <2>1, <2>2
<1>10. Lists'
  BY <1>3 DEF Lists, TypeOK
<1>11. Known' /\ MirrorsKept'
  BY <1>3 DEF Known, MirrorsKept, TypeOK
<1>12. Limits'
  <2> SUFFICES ASSUME NEW n \in Mirrors
               PROVE  /\ stat'[n].allowed \in 0 .. MaxPerMirror
                      /\ stat'[n].running <= AllowedNow(n)'
    BY DEF Limits
  <2>1. CASE n = m
    <3>1. m # NoMirror
      BY <2>1, ConstantsAssumption
    <3>2. stat[n].running < AllowedNow(n)
      BY <3>1, <2>1, <1>6 DEF LimitReached, MirrorStat
    <3>3. stat'[n].allowed = AllowedNow(n) /\ stat'[n].running = stat[n].running + 1
      BY <2>1, <1>5, <1>6a
    <3>4. AllowedNow(n)' = AllowedNow(n)
      BY <3>3, <1>6 DEF AllowedNow
    <3> QED BY <3>2, <3>3, <3>4, <1>6, ConstantsAssumption DEF MirrorStat
  <2>2. CASE n # m
    BY <2>2, <1>5 DEF Limits, AllowedNow
  <2> QED BY <2>1, <2>2
<1>13. Slots'
  <2>1. Cardinality(active') = Cardinality(active) + 1
    BY <1>1, <1>2, <1>3, FS_AddElement
  <2> QED BY <2>1, <1>2, <1>3, ConstantsAssumption DEF Slots, TypeOK
<1> QED BY <1>4, <1>8, <1>9, <1>10, <1>11, <1>12, <1>13

-------------------------------------------------------------------------------
(* Taking the message of a transfer that ended.                            *)

\* mirror_update_statistics() gives back the connection of the transfer's mirror, and
\* of no other.
LEMMA CountTransferKeeps ==
    ASSUME IInv, NEW t \in active, pc # "done", NEW success \in BOOLEAN
    PROVE  LET st == CountTransfer(mirror[t], success) IN
           /\ st \in [Mirrors -> MirrorStat]
           /\ \A n \in Mirrors : /\ st[n].running = Cardinality(Running(n) \ {t})
                                 /\ st[n].allowed = stat[n].allowed
                                 /\ st[n].running <= stat[n].running
                                 /\ n = mirror[t] => st[n].running = stat[n].running - 1
<1> USE DEF IInv
<1> DEFINE m == mirror[t]
           st == CountTransfer(m, success)
<1>1. m \in Mirrors \cup {NoMirror}
  BY DEF TypeOK
<1>2. /\ \A n \in Mirrors : IsFiniteSet(Running(n)) /\ Cardinality(Running(n)) \in Nat
      /\ \A n \in Mirrors : stat[n].running = Cardinality(Running(n))
      /\ \A n \in Mirrors : stat[n] \in MirrorStat
  BY RunningFinite DEF Counts, TypeOK
<1>3. ASSUME NEW n \in Mirrors
      PROVE  st[n] = IF n = m THEN Disconnected(stat[n], success) ELSE stat[n]
  BY ConstantsAssumption DEF CountTransfer, TypeOK
<1>4. DOMAIN st = Mirrors /\ st = [n \in Mirrors |-> st[n]]
  BY DEF CountTransfer, TypeOK
<1>5. ASSUME NEW n \in Mirrors
      PROVE  /\ st[n] \in MirrorStat
             /\ st[n].running = Cardinality(Running(n) \ {t})
             /\ st[n].allowed = stat[n].allowed
             /\ st[n].running <= stat[n].running
             /\ n = m => st[n].running = stat[n].running - 1
  <2> HIDE DEF st
  <2>1. CASE n = m
    <3>1. t \in Running(n)
      BY <2>1 DEF Running
    <3>2. Cardinality(Running(n) \ {t}) = Cardinality(Running(n)) - 1
      BY <3>1, <1>2, FS_RemoveElement
    <3>3. IsFiniteSet(Running(n) \ {t}) /\ Cardinality(Running(n) \ {t}) \in Nat
      BY <1>2, FS_RemoveElement, FS_CardinalityType
    <3>4. st[n] = Disconnected(stat[n], success)
      BY <2>1, <1>3
    <3>5. st[n].running = stat[n].running - 1 /\ st[n].allowed = stat[n].allowed
      BY <3>4 DEF Disconnected
    <3>6. st[n] \in MirrorStat
      <4>1. stat[n].running - 1 \in Nat
        BY <3>2, <3>3, <1>2
      <4> QED BY <3>4, <4>1, <1>2 DEF Disconnected, MirrorStat
    <3> QED BY <3>2, <3>5, <3>6, <1>2 DEF MirrorStat
  <2>2. CASE n # m
    <3>1. Running(n) \ {t} = Running(n)
      BY <2>2 DEF Running
    <3> QED BY <3>1, <2>2, <1>2, <1>3 DEF MirrorStat
  <2> QED BY <2>1, <2>2
<1>6. st \in [Mirrors -> MirrorStat]
  <2> HIDE DEF st
  <2> QED BY <1>4, <1>5
<1> QED BY <1>5, <1>6

\* The part of the invariant a finished message disturbs, whatever its result, given
\* that the target stops running and the new limits are respected.
LEMMA TakeMessageKeeps ==
    ASSUME IInv, NEW t \in Targets, NEW success \in BOOLEAN, NEW x,
           TakeMessage(t, success),
           x \in {"WAITING", "FINISHED", "FAILED"},
           state' = [state EXCEPT ![t] = x],
           pc' \in {"check", "cleanup"},
           stat' \in [Mirrors -> MirrorStat],
           \A n \in Mirrors : /\ stat'[n].running = Cardinality(Running(n) \ {t})
                              /\ stat'[n].allowed \in 0 .. MaxPerMirror
                              /\ stat'[n].running <= AllowedNow(n)'
    PROVE  /\ state' \in [Targets -> {"WAITING", "RUNNING", "FINISHED", "FAILED"}]
           /\ mirror' = mirror /\ file' = file
           /\ outcome' \in [Targets -> Outcomes \cup {"none"}]
           /\ lrmirrors' \in [Handles -> Seq(Mirrors)]
           /\ active' \subseteq Targets /\ free_slots' \in Int
           /\ failfast' = failfast /\ interrupt' = interrupt
           /\ Counts' /\ Lists' /\ Known' /\ MirrorsKept' /\ Limits' /\ Slots'
<1> USE DEF IInv
<1>1. /\ pc = "check" /\ outcome[t] # "none" /\ t \in active
      /\ active' = active \ {t} /\ outcome' = [outcome EXCEPT ![t] = "none"]
      /\ mirror' = mirror /\ file' = file /\ free_slots' = free_slots
      /\ failfast' = failfast /\ interrupt' = interrupt
  BY DEF TakeMessage, Lists
<1>2. IsFiniteSet(active) /\ Cardinality(active) \in Nat
  BY RunningFinite
<1>3. /\ state' \in [Targets -> {"WAITING", "RUNNING", "FINISHED", "FAILED"}]
      /\ outcome' \in [Targets -> Outcomes \cup {"none"}]
      /\ active' \subseteq Targets /\ free_slots' \in Int
  BY <1>1 DEF TypeOK
<1>4. Counts'
  <2>1. \A n \in Mirrors : Running(n)' = Running(n) \ {t}
    BY <1>1 DEF Running
  <2> QED BY <2>1 DEF Counts
<1>5. Lists'
  BY <1>1 DEF Lists, TypeOK
<1>6. /\ lrmirrors' \in [Handles -> Seq(Mirrors)]
      /\ MirrorsKept'
  <2> DEFINE h == HandleOf[t]
             new == SortMirrors(lrmirrors[h], mirror[t], CountTransfer(mirror[t], success),
                                success, outcome[t] = "serious")
  <2>1. h \in Handles
    BY ConstantsAssumption
  <2>2. CASE lrmirrors' = lrmirrors
    BY <2>2 DEF MirrorsKept, TypeOK
  <2>3. CASE lrmirrors' = [lrmirrors EXCEPT ![h] = new] /\ mirror[t] # NoMirror
    <3>1. lrmirrors[h] \in Seq(Mirrors)
      BY <2>1 DEF TypeOK
    <3>2. mirror[t] \in Range(lrmirrors[h])
      BY <2>1, <2>3 DEF Known, MirrorsKept
    <3>3. /\ new \in Seq(Mirrors)
          /\ Len(new) = Len(lrmirrors[h])
          /\ Range(new) = Range(lrmirrors[h])
      BY <3>1, <3>2, SortMirrorsKeeps
    <3> HIDE DEF new, h
    <3> QED BY <2>1, <2>3, <3>3 DEF MirrorsKept, TypeOK
  <2> QED BY <2>2, <2>3 DEF TakeMessage
<1>7. Known'
  BY <1>1 DEF Known
<1>8. Limits'
  BY DEF Limits
<1>9. Slots'
  <2>1. IsFiniteSet(active') /\ Cardinality(active') = Cardinality(active) - 1
    BY <1>1, <1>2, FS_RemoveElement
  <2> QED BY <2>1, <1>1, <1>2, ConstantsAssumption DEF Slots
<1> QED BY <1>1, <1>3, <1>4, <1>5, <1>6, <1>7, <1>8, <1>9

\* The counters after a successful transfer respect the limits, which stay the same.
LEMMA SuccessCounts ==
    ASSUME IInv, NEW t \in Targets, NEW rc, TransferSucceeds(t, rc)
    PROVE  /\ t \in active /\ pc = "check"
           /\ stat' \in [Mirrors -> MirrorStat]
           /\ \A n \in Mirrors : /\ stat'[n].running = Cardinality(Running(n) \ {t})
                                 /\ stat'[n].allowed \in 0 .. MaxPerMirror
                                 /\ stat'[n].running <= AllowedNow(n)'
<1> USE DEF IInv
<1>1. /\ t \in active /\ pc = "check"
      /\ stat' \in [Mirrors -> MirrorStat]
      /\ \A n \in Mirrors : /\ stat'[n].running = Cardinality(Running(n) \ {t})
                            /\ stat'[n].allowed = stat[n].allowed
                            /\ stat'[n].running <= stat[n].running
  <2>1. t \in active /\ pc = "check" /\ stat' = CountTransfer(mirror[t], TRUE)
    BY DEF TransferSucceeds, TakeMessage, Lists
  <2> QED BY <2>1, CountTransferKeeps
<1>2. ASSUME NEW n \in Mirrors
      PROVE  /\ stat'[n].allowed \in 0 .. MaxPerMirror
             /\ stat'[n].running <= AllowedNow(n)'
  <2>1. AllowedNow(n)' = AllowedNow(n)
    BY <1>1 DEF AllowedNow
  <2>2. stat'[n].running \in Nat
    BY <1>1 DEF MirrorStat
  <2>3. stat[n].allowed \in 0 .. MaxPerMirror
    BY DEF Limits
  <2>4. stat[n].running \in Nat /\ AllowedNow(n) \in Nat /\ stat[n].running <= AllowedNow(n)
    BY MirrorBounds, ConstantsAssumption
  <2>5. stat'[n].running <= stat[n].running /\ stat'[n].allowed = stat[n].allowed
    BY <1>1
  <2>6. stat'[n].running <= AllowedNow(n)
    BY <2>2, <2>4, <2>5
  <2> QED BY <2>1, <2>3, <2>5, <2>6
<1> QED BY <1>1, <1>2

\* The counters after a failed transfer respect the limits: a limit is lowered to the
\* number of transfers still running, or to 1, and never below what runs.
LEMMA FailureCounts ==
    ASSUME IInv, NEW t \in Targets, NEW mf, CountFailure(t, mf)
    PROVE  /\ t \in active /\ pc = "check"
           /\ stat' \in [Mirrors -> MirrorStat]
           /\ \A n \in Mirrors : /\ stat'[n].running = Cardinality(Running(n) \ {t})
                                 /\ stat'[n].allowed \in 0 .. MaxPerMirror
                                 /\ stat'[n].running <= AllowedNow(n)'
<1> USE DEF IInv
<1> DEFINE m == mirror[t]
           st == CountTransfer(m, FALSE)
<1>1. t \in active /\ pc = "check"
  BY DEF CountFailure, TakeMessage, Lists
<1>2. /\ st \in [Mirrors -> MirrorStat]
      /\ \A n \in Mirrors : /\ st[n].running = Cardinality(Running(n) \ {t})
                            /\ st[n].allowed = stat[n].allowed
                            /\ st[n].running <= stat[n].running
  BY <1>1, CountTransferKeeps
<1>3. \/ stat' = st
      \/ m # NoMirror /\ stat' = [st EXCEPT ![m].allowed = LoweredLimit(st[m])]
  BY DEF CountFailure, AnotherChance
<1>4. m \in Mirrors \cup {NoMirror}
  BY DEF TypeOK
<1> HIDE DEF st, m
<1>5. ASSUME NEW n \in Mirrors
      PROVE  /\ st[n].running \in Nat
             /\ st[n].running <= MaxPerMirror
             /\ st[n].running <= AllowedNow(n)
  <2>1. st[n].running \in Nat
    BY <1>2 DEF MirrorStat
  <2>2. /\ stat[n].running \in Nat /\ stat[n].running <= AllowedNow(n)
        /\ AllowedNow(n) \in 1 .. MaxPerMirror
    BY MirrorBounds
  <2>3. st[n].running <= stat[n].running
    BY <1>2
  <2> QED BY <2>1, <2>2, <2>3, ConstantsAssumption
<1>6. CASE stat' = st
  <2>1. \A n \in Mirrors : AllowedNow(n)' = AllowedNow(n)
    BY <1>6, <1>2 DEF AllowedNow
  <2> QED BY <1>1, <1>2, <1>5, <1>6, <2>1 DEF Limits
<1>7. CASE m \in Mirrors /\ stat' = [st EXCEPT ![m].allowed = LoweredLimit(st[m])]
  <2>1. LoweredLimit(st[m]) \in 1 .. MaxPerMirror /\ st[m].running <= LoweredLimit(st[m])
    BY <1>5, <1>7, ConstantsAssumption DEF LoweredLimit
  <2>2. stat' \in [Mirrors -> MirrorStat]
    BY <1>2, <1>7, <2>1 DEF MirrorStat
  <2>3. \A n \in Mirrors : /\ stat'[n].running = st[n].running
                           /\ stat'[n].allowed = IF n = m THEN LoweredLimit(st[m]) ELSE st[n].allowed
    BY <1>2, <1>7 DEF MirrorStat
  <2>4. ASSUME NEW n \in Mirrors
        PROVE  stat'[n].allowed \in 0 .. MaxPerMirror /\ stat'[n].running <= AllowedNow(n)'
    <3>1. CASE n = m
      <4>1. AllowedNow(n)' = LoweredLimit(st[m])
        BY <3>1, <2>1, <2>3 DEF AllowedNow
      <4> QED BY <3>1, <4>1, <2>1, <2>3
    <3>2. CASE n # m
      <4>1. AllowedNow(n)' = AllowedNow(n)
        BY <3>2, <1>2, <2>3 DEF AllowedNow
      <4> QED BY <3>2, <4>1, <1>2, <1>5, <2>3 DEF Limits
    <3> QED BY <3>1, <3>2
  <2> QED BY <1>1, <1>2, <2>2, <2>3, <2>4
<1> QED BY <1>3, <1>4, <1>6, <1>7

\* A successful transfer keeps the invariant.
LEMMA TransferSucceedsKeeps ==
    ASSUME IInv, NEW t \in Targets, NEW rc, TransferSucceeds(t, rc)
    PROVE  IInv'
<1>1. /\ TakeMessage(t, TRUE)
      /\ state' = [state EXCEPT ![t] = "FINISHED"]
      /\ tried' = [tried EXCEPT ![t][mirror[t]] = @ + 1]
      /\ rcode' = [rcode EXCEPT ![t] = "OK"]
      /\ ends' = [ends EXCEPT ![t] = Append(@, "SUCCESSFUL")]
      /\ StopIf(rc = "ERROR", "CBINTERRUPTED")
  BY DEF TransferSucceeds
<1>2. pc' \in {"check", "cleanup"} /\ (err' = err \/ err' = "CBINTERRUPTED")
  BY <1>1, SuccessCounts DEF StopIf
<1>3. /\ state' \in [Targets -> {"WAITING", "RUNNING", "FINISHED", "FAILED"}]
      /\ mirror' = mirror /\ file' = file
      /\ outcome' \in [Targets -> Outcomes \cup {"none"}]
      /\ lrmirrors' \in [Handles -> Seq(Mirrors)]
      /\ active' \subseteq Targets /\ free_slots' \in Int
      /\ failfast' = failfast /\ interrupt' = interrupt
      /\ Counts' /\ Lists' /\ Known' /\ MirrorsKept' /\ Limits' /\ Slots'
  BY <1>1, <1>2, SuccessCounts, TakeMessageKeeps
<1>4. tried' \in [Targets -> [Mirrors \cup {NoMirror} -> Nat]]
  <2>1. [tried[t] EXCEPT ![mirror[t]] = @ + 1] \in [Mirrors \cup {NoMirror} -> Nat]
    BY DEF IInv, TypeOK
  <2>2. tried' = [tried EXCEPT ![t] = [tried[t] EXCEPT ![mirror[t]] = @ + 1]]
    BY <1>1
  <2> QED BY <2>1, <2>2 DEF IInv, TypeOK
<1>5. rcode' \in [Targets -> {"UNFINISHED", "OK", "NOURL", "TRANSFER", "CBINTERRUPTED"}]
  BY <1>1 DEF IInv, TypeOK
<1>6. ends' \in [Targets -> Seq({"SUCCESSFUL", "ERROR"})]
  BY <1>1 DEF IInv, TypeOK
<1>7. TypeOK'
  BY <1>2, <1>3, <1>4, <1>5, <1>6, SuccessCounts DEF IInv, TypeOK
<1> QED BY <1>3, <1>7 DEF IInv

\* So does a failed one, whether the target waits again or has failed.
LEMMA TransferFailureKeeps ==
    ASSUME IInv, NEW t \in Targets, NEW mf, CountFailure(t, mf),
           NEW x \in {"WAITING", "FAILED"}, state' = [state EXCEPT ![t] = x],
           pc' \in {"check", "cleanup"},
           rcode' \in [Targets -> {"UNFINISHED", "OK", "NOURL", "TRANSFER", "CBINTERRUPTED"}],
           ends' \in [Targets -> Seq({"SUCCESSFUL", "ERROR"})],
           err' \in {"none", "NOURL", "CBINTERRUPTED", "TRANSFER", "INTERRUPTED", "CURLM", "IO"}
    PROVE  IInv'
<1>1. TakeMessage(t, FALSE) /\ tried' = [tried EXCEPT ![t] = TriedAfter(t, mf)]
  BY DEF CountFailure
<1>2. /\ state' \in [Targets -> {"WAITING", "RUNNING", "FINISHED", "FAILED"}]
      /\ mirror' = mirror /\ file' = file
      /\ outcome' \in [Targets -> Outcomes \cup {"none"}]
      /\ lrmirrors' \in [Handles -> Seq(Mirrors)]
      /\ active' \subseteq Targets /\ free_slots' \in Int
      /\ failfast' = failfast /\ interrupt' = interrupt
      /\ Counts' /\ Lists' /\ Known' /\ MirrorsKept' /\ Limits' /\ Slots'
  BY <1>1, FailureCounts, TakeMessageKeeps
<1>3. TriedAfter(t, mf) \in [Mirrors \cup {NoMirror} -> Nat]
  BY DEF TriedAfter, IInv, TypeOK
<1>4. tried' \in [Targets -> [Mirrors \cup {NoMirror} -> Nat]]
  BY <1>1, <1>3 DEF IInv, TypeOK
<1>5. TypeOK'
  BY <1>2, <1>4, FailureCounts DEF IInv, TypeOK
<1> QED BY <1>2, <1>5 DEF IInv

\* A transfer started from a mirror below its limit, or from a URL, keeps the
\* invariant, and so does a failure to open the target's file.
LEMMA StartKeeps ==
    ASSUME IInv, NEW t \in Targets, NEW m \in Mirrors \cup {NoMirror}, NextTarget(t),
           m # NoMirror => ~LimitReached(m) /\ m \in Range(MirrorList[HandleOf[t]]),
           rcode' \in [Targets -> {"UNFINISHED", "OK", "NOURL", "TRANSFER", "CBINTERRUPTED"}],
           ends' \in [Targets -> Seq({"SUCCESSFUL", "ERROR"})],
           \/ Launch(t, m)
           \/ OpenFails(t, m) /\ (state' = state \/ state' = [state EXCEPT ![t] = "FAILED"])
    PROVE  IInv'
<1>1. pc \in {"prepare_first", "prepare"} /\ free_slots > 0 /\ state[t] = "WAITING"
  BY DEF NextTarget
<1>2. CASE Launch(t, m)
  <2>1. /\ state' \in [Targets -> {"WAITING", "RUNNING", "FINISHED", "FAILED"}]
        /\ mirror' \in [Targets -> Mirrors \cup {NoMirror}]
        /\ file' \in [Targets -> {"original", "written", "removed"}]
        /\ stat' \in [Mirrors -> MirrorStat]
        /\ active' \subseteq Targets /\ free_slots' \in Int
        /\ Counts' /\ Lists' /\ Known' /\ MirrorsKept' /\ Limits' /\ Slots'
    BY <1>1, <1>2, LaunchKeeps
  <2>2. TypeOK'
    BY <2>1, <1>2 DEF IInv, TypeOK, Launch
  <2> QED BY <2>1, <2>2 DEF IInv
<1>3. CASE OpenFails(t, m) /\ (state' = state \/ state' = [state EXCEPT ![t] = "FAILED"])
  <2> USE DEF IInv
  <2>1. /\ mirror' = [mirror EXCEPT ![t] = m] /\ pc' = "cleanup" /\ err' = "IO"
        /\ UNCHANGED <<tried, file, outcome, stat, lrmirrors, failfast, active, free_slots, interrupt>>
    BY <1>3 DEF OpenFails, StopIf, mirrorVars
  <2>2. t \notin active
    BY <1>1 DEF Lists
  <2>3. TypeOK'
    BY <1>3, <2>1 DEF TypeOK
  <2>4. Counts'
    <3>1. \A n \in Mirrors : Running(n)' = Running(n)
      BY <2>1, <2>2 DEF Running, TypeOK
    <3> QED BY <1>1, <2>1, <3>1 DEF Counts
  <2>5. Lists'
    BY <1>1, <1>3, <2>1, <2>2 DEF Lists, TypeOK
  <2>6. Known' /\ MirrorsKept'
    BY <2>1 DEF Known, MirrorsKept, TypeOK
  <2>7. Limits' /\ Slots'
    BY <1>1, <2>1 DEF Limits, AllowedNow, Slots
  <2> QED BY <2>3, <2>4, <2>5, <2>6, <2>7
<1> QED BY <1>2, <1>3

\* Steps that start and end no transfer, and at most fail a target that is not running,
\* keep the invariant.
LEMMA QuietKeeps ==
    ASSUME IInv, pc # "done",
           UNCHANGED <<mirror, tried, file, outcome, mirrorVars, failfast, active, free_slots>>,
           \/ state' = state
           \/ \E t \in Targets : state[t] = "WAITING" /\ state' = [state EXCEPT ![t] = "FAILED"],
           rcode' \in [Targets -> {"UNFINISHED", "OK", "NOURL", "TRANSFER", "CBINTERRUPTED"}],
           ends' \in [Targets -> Seq({"SUCCESSFUL", "ERROR"})],
           err' \in {"none", "NOURL", "CBINTERRUPTED", "TRANSFER", "INTERRUPTED", "CURLM", "IO"},
           interrupt' \in BOOLEAN,
           pc' \in {"entry", "prepare_first", "perform", "check", "prepare", "cleanup", "done"},
           pc' \in {"entry", "prepare_first", "prepare"} => pc \in {"entry", "prepare_first", "prepare"}
    PROVE  IInv'
<1> USE DEF IInv
<1>1. TypeOK'
  BY DEF TypeOK, mirrorVars
<1>2. Counts'
  <2>1. \A n \in Mirrors : Running(n)' = Running(n)
    BY DEF Running
  <2> QED BY <2>1 DEF Counts, mirrorVars
<1>3. Lists'
  BY DEF Lists, TypeOK
<1>4. Known' /\ MirrorsKept'
  BY DEF Known, MirrorsKept, mirrorVars
<1>5. Limits' /\ Slots'
  BY DEF Limits, AllowedNow, Slots, mirrorVars
<1> QED BY <1>1, <1>2, <1>3, <1>4, <1>5

-------------------------------------------------------------------------------
(* The invariant.                                                          *)

\* Every reachable state satisfies the inductive invariant.
THEOREM Invariant == Spec => []IInv
<1>1. Init => IInv
  <2> SUFFICES ASSUME Init PROVE IInv
    OBVIOUS
  <2> USE DEF Init
  <2>1. TypeOK
    <3>1. stat \in [Mirrors -> MirrorStat]
      BY DEF MirrorStat
    <3>2. lrmirrors \in [Handles -> Seq(Mirrors)] /\ free_slots \in Int
      BY ConstantsAssumption
    <3>3. tried \in [Targets -> [Mirrors \cup {NoMirror} -> Nat]]
      OBVIOUS
    <3>4. ends \in [Targets -> Seq({"SUCCESSFUL", "ERROR"})]
      OBVIOUS
    <3> QED BY <3>1, <3>2, <3>3, <3>4 DEF TypeOK
  <2>2. Counts
    <3>1. \A m \in Mirrors : Running(m) = {}
      BY DEF Running
    <3> QED BY <3>1, FS_EmptySet DEF Counts
  <2>3. Lists /\ Known /\ MirrorsKept
    BY DEF Lists, Known, MirrorsKept
  <2>4. Limits
    BY ConstantsAssumption DEF Limits, AllowedNow
  <2>5. Slots
    BY FS_EmptySet, ConstantsAssumption DEF Slots
  <2> QED BY <2>1, <2>2, <2>3, <2>4, <2>5 DEF IInv
<1>2. IInv /\ [Next]_vars => IInv'
  <2> SUFFICES ASSUME IInv, [Next]_vars PROVE IInv'
    OBVIOUS
  <2>1. CASE Enter
    BY <2>1, QuietKeeps DEF Enter, targetVars, IInv, TypeOK
  <2>2. ASSUME NEW t \in Targets, EmptyMirrorlist(t) PROVE IInv'
    BY <2>2, QuietKeeps DEF EmptyMirrorlist, NextTarget, StopIf, targetVars, IInv, TypeOK
  <2>3. ASSUME NEW t \in Targets, StartFromMirror(t) PROVE IInv'
    <3>1. PICK k \in Iterations(t), i \in DOMAIN MirrorsOf(t) :
              /\ Selects(t, i, k)
              /\ \/ Launch(t, MirrorsOf(t)[i])
                 \/ OpenFails(t, MirrorsOf(t)[i]) /\ UNCHANGED state
      BY <2>3 DEF StartFromMirror
    <3>2. ~LimitReached(MirrorsOf(t)[i])
      BY <3>1 DEF Selects, Usable
    <3>3. /\ NextTarget(t) /\ rcode' = rcode /\ ends' = ends
      BY <2>3 DEF StartFromMirror
    <3>4. /\ rcode' \in [Targets -> {"UNFINISHED", "OK", "NOURL", "TRANSFER", "CBINTERRUPTED"}]
          /\ ends' \in [Targets -> Seq({"SUCCESSFUL", "ERROR"})]
      BY <3>3 DEF IInv, TypeOK
    <3> QED BY <3>1, <3>2, <3>3, <3>4, ListMirrors, StartKeeps
  <2>4. ASSUME NEW t \in Targets, StartFromUrl(t) PROVE IInv'
    <3>1. /\ NextTarget(t) /\ rcode' = rcode /\ ends' = ends
          /\ \/ Launch(t, NoMirror)
             \/ OpenFails(t, NoMirror) /\ UNCHANGED state
      BY <2>4 DEF StartFromUrl
    <3>2. /\ rcode' \in [Targets -> {"UNFINISHED", "OK", "NOURL", "TRANSFER", "CBINTERRUPTED"}]
          /\ ends' \in [Targets -> Seq({"SUCCESSFUL", "ERROR"})]
      BY <3>1 DEF IInv, TypeOK
    <3> QED BY <3>1, <3>2, StartKeeps
  <2>5. ASSUME NEW t \in Targets, NEW rc \in EndCb, MirrorsExhausted(t, rc) PROVE IInv'
    <3>1. /\ rcode' \in [Targets -> {"UNFINISHED", "OK", "NOURL", "TRANSFER", "CBINTERRUPTED"}]
          /\ ends' \in [Targets -> Seq({"SUCCESSFUL", "ERROR"})]
      BY <2>5 DEF MirrorsExhausted, IInv, TypeOK
    <3> QED BY <2>5, <3>1, QuietKeeps DEF MirrorsExhausted, NextTarget, StopIf, IInv, TypeOK
  <2>6. ASSUME NEW t \in Targets, NEW rc \in EndCb, OfflineUrl(t, rc) PROVE IInv'
    <3>1. /\ NextTarget(t)
          /\ rcode' \in [Targets -> {"UNFINISHED", "OK", "NOURL", "TRANSFER", "CBINTERRUPTED"}]
          /\ ends' \in [Targets -> Seq({"SUCCESSFUL", "ERROR"})]
      BY <2>6 DEF OfflineUrl, IInv, TypeOK
    <3>2. CASE rc = "ERROR" \/ failfast
      BY <2>6, <3>1, <3>2, QuietKeeps DEF OfflineUrl, NextTarget, StopIf, IInv, TypeOK
    <3>3. CASE ~(rc = "ERROR" \/ failfast)
      <4>1. \/ Launch(t, NoMirror)
            \/ OpenFails(t, NoMirror) /\ state' = [state EXCEPT ![t] = "FAILED"]
        BY <2>6, <3>3 DEF OfflineUrl
      <4> QED BY <3>1, <4>1, StartKeeps
    <3> QED BY <3>2, <3>3
  <2>7. CASE EndPrepare
    BY <2>7, QuietKeeps DEF EndPrepare, targetVars, IInv, TypeOK
  <2>8. ASSUME NEW t \in Targets, NEW o \in Outcomes, CurlFinishes(t, o) PROVE IInv'
    <3> USE DEF IInv
    <3>1. /\ pc = "perform" /\ t \in active /\ outcome' = [outcome EXCEPT ![t] = o]
          /\ UNCHANGED <<state, mirror, tried, rcode, ends, file, stat, lrmirrors>>
          /\ UNCHANGED <<failfast, active, free_slots, interrupt, err, pc>>
      BY <2>8 DEF CurlFinishes, mirrorVars, loopVars
    <3>2. TypeOK'
      BY <3>1 DEF TypeOK
    <3>3. Counts'
      BY <3>1 DEF Counts, Running
    <3>4. Lists'
      BY <3>1 DEF Lists, TypeOK
    <3>5. Known' /\ MirrorsKept' /\ Limits' /\ Slots'
      BY <3>1 DEF Known, MirrorsKept, Limits, AllowedNow, Slots
    <3> QED BY <3>2, <3>3, <3>4, <3>5
  <2>9. CASE CurlmFails
    BY <2>9, QuietKeeps DEF CurlmFails, StopIf, targetVars, IInv, TypeOK
  <2>10. CASE Sigint
    BY <2>10, QuietKeeps DEF Sigint, targetVars, IInv, TypeOK
  <2>11. CASE PerformReturns
    BY <2>11, QuietKeeps DEF PerformReturns, targetVars, IInv, TypeOK
  <2>12. ASSUME NEW t \in Targets, NEW rc \in EndCb, TransferSucceeds(t, rc) PROVE IInv'
    BY <2>12, TransferSucceedsKeeps
  <2>13. ASSUME NEW t \in Targets, NEW mf \in MirrorFailureCb, TransferIsRetried(t, mf) PROVE IInv'
    <3>1. /\ CountFailure(t, mf) /\ state' = [state EXCEPT ![t] = "WAITING"]
          /\ rcode' = rcode /\ ends' = ends /\ pc' \in {pc, "cleanup"} /\ err' \in {err, "IO"}
      BY <2>13 DEF TransferIsRetried, StopIf
    <3> QED BY <3>1, FailureCounts, TransferFailureKeeps DEF IInv, TypeOK
  <2>14. ASSUME NEW t \in Targets, NEW mf \in MirrorFailureCb, NEW rc \in EndCb,
                TransferFails(t, mf, rc)
         PROVE  IInv'
    <3>1. /\ CountFailure(t, mf) /\ state' = [state EXCEPT ![t] = "FAILED"]
          /\ ends' = [ends EXCEPT ![t] = Append(@, "ERROR")]
      BY <2>14 DEF TransferFails
    <3>2. PICK code \in {"CBINTERRUPTED", "TRANSFER"} :
              rcode' = [rcode EXCEPT ![t] = code] /\ StopIf(EndsCall(t, mf, rc), code)
      BY <2>14 DEF TransferFails
    <3>3. pc' \in {pc, "cleanup"} /\ err' \in {err, code}
      BY <3>2 DEF StopIf
    <3>4. rcode' \in [Targets -> {"UNFINISHED", "OK", "NOURL", "TRANSFER", "CBINTERRUPTED"}]
      BY <3>2 DEF IInv, TypeOK
    <3>5. ends' \in [Targets -> Seq({"SUCCESSFUL", "ERROR"})]
      BY <3>1 DEF IInv, TypeOK
    <3>6. err' \in {"none", "NOURL", "CBINTERRUPTED", "TRANSFER", "INTERRUPTED", "CURLM", "IO"}
      BY <3>3 DEF IInv, TypeOK
    <3>7. pc' \in {"check", "cleanup"}
      BY <3>1, <3>3, FailureCounts
    <3> QED BY <3>1, <3>4, <3>5, <3>6, <3>7, TransferFailureKeeps
  <2>15. ASSUME NEW t \in Targets, ChecksumFails(t) PROVE IInv'
    BY <2>15, QuietKeeps DEF ChecksumFails, StopIf, targetVars, IInv, TypeOK
  <2>16. CASE EndCheck
    <3> USE DEF IInv
    <3>1. /\ pc = "check" /\ pc' = "prepare" /\ free_slots' = MaxParallel - Cardinality(active)
          /\ UNCHANGED <<state, mirror, tried, rcode, ends, file, outcome, stat, lrmirrors>>
          /\ UNCHANGED <<failfast, active, interrupt, err>>
      BY <2>16 DEF EndCheck, targetVars, mirrorVars
    <3>2. Cardinality(active) \in Nat
      BY RunningFinite
    <3>3. TypeOK'
      <4>1. free_slots' \in Int
        BY <3>1, <3>2, ConstantsAssumption
      <4> QED BY <3>1, <4>1 DEF TypeOK
    <3>4. Counts' /\ Lists' /\ Known' /\ MirrorsKept' /\ Limits'
      BY <3>1 DEF Counts, Running, Lists, Known, MirrorsKept, Limits, AllowedNow
    <3>5. Slots'
      BY <3>1, <3>2, ConstantsAssumption DEF Slots
    <3> QED BY <3>3, <3>4, <3>5
  <2>17. CASE Cleanup
    <3> USE DEF IInv
    <3>1. /\ pc = "cleanup" /\ pc' = "done" /\ active' \in {active, {}}
          /\ UNCHANGED <<state, mirror, tried, outcome, stat, lrmirrors>>
          /\ UNCHANGED <<failfast, free_slots, interrupt, err>>
      BY <2>17 DEF Cleanup, mirrorVars
    <3>2. ends' \in [Targets -> Seq({"SUCCESSFUL", "ERROR"})]
      BY <2>17 DEF Cleanup, TypeOK
    <3>3. rcode' \in [Targets -> {"UNFINISHED", "OK", "NOURL", "TRANSFER", "CBINTERRUPTED"}]
      BY <2>17 DEF Cleanup, TypeOK
    <3>4. file' \in [Targets -> {"original", "written", "removed"}]
      BY <2>17 DEF Cleanup, TypeOK
    <3>5. TypeOK'
      BY <3>1, <3>2, <3>3, <3>4 DEF TypeOK
    <3>6. Counts' /\ Lists' /\ Known' /\ MirrorsKept' /\ Limits'
      BY <3>1 DEF Counts, Lists, Known, MirrorsKept, Limits, AllowedNow
    <3>7. Slots'
      <4>1. Cardinality(active') \in {0, Cardinality(active)}
        BY <3>1, FS_EmptySet
      <4>2. Cardinality(active') <= MaxParallel
        BY <4>1, ConstantsAssumption DEF Slots
      <4> QED BY <3>1, <4>2 DEF Slots
    <3> QED BY <3>5, <3>6, <3>7
  <2>18. CASE UNCHANGED vars
    <3> USE <2>18 DEF vars, targetVars, mirrorVars, loopVars, IInv
    <3>1. TypeOK'
      BY DEF TypeOK
    <3>2. Counts' /\ Lists' /\ Known'
      BY DEF Counts, Running, Lists, Known
    <3>3. MirrorsKept' /\ Limits' /\ Slots'
      BY DEF MirrorsKept, Limits, AllowedNow, Slots
    <3> QED BY <3>1, <3>2, <3>3
  <2> QED BY <2>1, <2>2, <2>3, <2>4, <2>5, <2>6, <2>7, <2>8, <2>9, <2>10, <2>11, <2>12, <2>13,
             <2>14, <2>15, <2>16, <2>17, <2>18 DEF Next, Prepare, Check, Curl, Terminated
<1> QED BY <1>1, <1>2, PTL DEF Spec

-------------------------------------------------------------------------------
(* What the invariant says of the code.                                    *)

\* Every variable keeps its type, whatever fails and whatever callbacks return.
THEOREM Typing == Spec => []TypeOK
<1>1. IInv => TypeOK
  BY DEF IInv
<1> QED BY <1>1, Invariant, PTL

\* The assertion of select_suitable_mirror() never fails: no mirror serves more transfers
\* than LRO_MAXDOWNLOADSPERMIRROR, or than its limit once it was lowered.
THEOREM MirrorLimitHolds == Spec => []MirrorLimit
<1>1. IInv => MirrorLimit
  <2> SUFFICES ASSUME IInv, NEW m \in Mirrors
               PROVE  stat[m].running <= MaxPerMirror /\ stat[m].running <= AllowedNow(m)
    BY DEF MirrorLimit
  <2> QED BY MirrorBounds, ConstantsAssumption
<1> QED BY <1>1, Invariant, PTL

\* The call never runs more than LRO_MAXPARALLELDOWNLOADS transfers, and its unsigned
\* count of free slots never wraps around.
THEOREM ParallelLimitHolds == Spec => []ParallelLimit
<1>1. IInv => ParallelLimit
  BY DEF IInv, Slots, ParallelLimit
<1> QED BY <1>1, Invariant, PTL

\* The counter of each mirror, the list of running transfers and the states of the
\* targets agree until the call returns.
THEOREM BookkeepingHolds == Spec => []Bookkeeping
<1>1. IInv => Bookkeeping
  BY DEF IInv, Counts, Lists, Bookkeeping
<1> QED BY <1>1, Invariant, PTL

\* sort_mirrors() never loses a mirror.
THEOREM MirrorsKeptHolds == Spec => []MirrorsKept
<1>1. IInv => MirrorsKept
  BY DEF IInv
<1> QED BY <1>1, Invariant, PTL

-------------------------------------------------------------------------------
(* What a step may do to a mirror.                                         *)

\* A failed transfer takes a connection from no mirror, and a limit it lowers was higher
\* and stays positive.
LEMMA FailureLowers ==
    ASSUME IInv, NEW t \in Targets, NEW mf, CountFailure(t, mf), NEW n \in Mirrors
    PROVE  /\ stat'[n].running <= stat[n].running
           /\ stat[n].allowed # 0 => stat'[n].allowed \in 1 .. stat[n].allowed
<1> DEFINE m == mirror[t]
           st == CountTransfer(m, FALSE)
<1>1. t \in active /\ pc # "done"
  BY DEF CountFailure, TakeMessage, IInv, Lists
<1>2. /\ st \in [Mirrors -> MirrorStat]
      /\ st[n].allowed = stat[n].allowed
      /\ st[n].running <= stat[n].running
  <2>1. /\ st \in [Mirrors -> MirrorStat]
        /\ \A x \in Mirrors : /\ st[x].running = Cardinality(Running(x) \ {t})
                              /\ st[x].allowed = stat[x].allowed
                              /\ st[x].running <= stat[x].running
    BY <1>1, CountTransferKeeps
  <2> QED BY <2>1
<1>3. \/ stat' = st
      \/ stat' = [st EXCEPT ![m].allowed = LoweredLimit(st[m])]
  BY DEF CountFailure
<1> HIDE DEF st, m
<1>4. /\ st[n].running \in Nat /\ stat[n].running \in Nat /\ stat[n].allowed \in Int
      /\ stat[n].running <= AllowedNow(n)
      /\ AllowedNow(n) \in 1 .. MaxPerMirror
  BY <1>2, MirrorBounds DEF MirrorStat
<1>5. stat[n].allowed # 0 => /\ stat[n].allowed \in 1 .. stat[n].allowed
                             /\ LoweredLimit(st[n]) \in 1 .. stat[n].allowed
  <2> SUFFICES ASSUME stat[n].allowed # 0
               PROVE  /\ stat[n].allowed \in 1 .. stat[n].allowed
                      /\ LoweredLimit(st[n]) \in 1 .. stat[n].allowed
    OBVIOUS
  <2>1. stat[n].allowed = AllowedNow(n) /\ stat[n].allowed >= 1
    BY <1>4, ConstantsAssumption DEF AllowedNow
  <2> QED BY <2>1, <1>2, <1>4 DEF LoweredLimit
<1>6. CASE stat' = st
  BY <1>2, <1>5, <1>6
<1>7. CASE stat' = [st EXCEPT ![m].allowed = LoweredLimit(st[m])]
  <2>1. /\ stat'[n].running = st[n].running
        /\ stat'[n].allowed = IF n = m THEN LoweredLimit(st[n]) ELSE st[n].allowed
    BY <1>2, <1>7 DEF MirrorStat
  <2> QED BY <2>1, <1>2, <1>5
<1> QED BY <1>3, <1>6, <1>7

\* A step leaves a mirror alone, opens a connection to it for a target that may use it,
\* or opens none and at most lowers its limit.
LEMMA MirrorSteps ==
    ASSUME IInv, [Next]_vars, NEW n \in Mirrors
    PROVE  \/ stat'[n] = stat[n]
           \/ /\ stat'[n].allowed = AllowedNow(n)
              /\ \E t \in Targets : \E k \in Iterations(t) : Suitable(t, n, k)
           \/ /\ stat'[n].running <= stat[n].running
              /\ stat[n].allowed # 0 => stat'[n].allowed \in 1 .. stat[n].allowed
<1>1. ASSUME NEW t \in Targets, StartFromMirror(t)
      PROVE  \/ stat'[n] = stat[n]
             \/ /\ stat'[n].allowed = AllowedNow(n)
                /\ \E u \in Targets : \E k \in Iterations(u) : Suitable(u, n, k)
  <2>1. PICK k \in Iterations(t), i \in DOMAIN MirrorsOf(t) :
            /\ Selects(t, i, k)
            /\ \/ Launch(t, MirrorsOf(t)[i])
               \/ OpenFails(t, MirrorsOf(t)[i]) /\ UNCHANGED state
    BY <1>1 DEF StartFromMirror
  <2> DEFINE m == MirrorsOf(t)[i]
  <2>2. m \in Mirrors /\ m # NoMirror /\ Suitable(t, m, k)
    BY <2>1, ListMirrors DEF Selects, Usable
  <2> HIDE DEF m
  <2>3. stat' = stat \/ stat' = [stat EXCEPT ![m] = Connected(m)]
    BY <2>1, <2>2 DEF Launch, OpenFails, mirrorVars, m
  <2>4. CASE stat' = [stat EXCEPT ![m] = Connected(m)] /\ n = m
    BY <2>2, <2>4 DEF IInv, TypeOK, Connected
  <2>5. CASE stat' = [stat EXCEPT ![m] = Connected(m)] /\ n # m
    BY <2>5 DEF IInv, TypeOK
  <2> QED BY <2>3, <2>4, <2>5
<1>2. ASSUME NEW t \in Targets, NEW rc \in EndCb, TransferSucceeds(t, rc)
      PROVE  /\ stat'[n].running <= stat[n].running
             /\ stat[n].allowed # 0 => stat'[n].allowed \in 1 .. stat[n].allowed
  <2>1. t \in active /\ pc # "done" /\ stat' = CountTransfer(mirror[t], TRUE)
    BY <1>2 DEF TransferSucceeds, TakeMessage, IInv, Lists
  <2>2. \A x \in Mirrors : /\ stat'[x].running = Cardinality(Running(x) \ {t})
                          /\ stat'[x].allowed = stat[x].allowed
                          /\ stat'[x].running <= stat[x].running
    BY <2>1, CountTransferKeeps
  <2>3. stat[n].allowed \in Nat
    BY ConstantsAssumption DEF IInv, Limits
  <2>4. stat'[n].allowed = stat[n].allowed /\ stat'[n].running <= stat[n].running
    BY <2>2
  <2>5. stat[n].allowed # 0 => stat[n].allowed \in 1 .. stat[n].allowed
    BY <2>3
  <2> QED BY <2>4, <2>5
<1>3. ASSUME NEW t \in Targets, NEW mf, CountFailure(t, mf)
      PROVE  /\ stat'[n].running <= stat[n].running
             /\ stat[n].allowed # 0 => stat'[n].allowed \in 1 .. stat[n].allowed
  BY <1>3, FailureLowers
<1>4. ASSUME NEW t \in Targets, NEW rc, MirrorsExhausted(t, rc) \/ OfflineUrl(t, rc)
      PROVE  stat' = stat
  BY <1>4 DEF MirrorsExhausted, OfflineUrl, Launch, OpenFails, mirrorVars
<1>5. ASSUME NEW t \in Targets, EmptyMirrorlist(t) \/ StartFromUrl(t) \/ ChecksumFails(t)
      PROVE  stat' = stat
  BY <1>5 DEF EmptyMirrorlist, StartFromUrl, ChecksumFails, Launch, OpenFails, mirrorVars
<1>6. ASSUME NEW t \in Targets, NEW o, CurlFinishes(t, o) PROVE stat' = stat
  BY <1>6 DEF CurlFinishes, mirrorVars
<1>7. CASE \/ Enter \/ EndPrepare \/ CurlmFails \/ Sigint \/ PerformReturns \/ EndCheck \/ Cleanup
           \/ UNCHANGED vars
  BY <1>7 DEF Enter, EndPrepare, CurlmFails, Sigint, PerformReturns, EndCheck, Cleanup, vars,
              mirrorVars
<1>8. \A t \in Targets, mf \in MirrorFailureCb :
          TransferIsRetried(t, mf) => CountFailure(t, mf)
  BY DEF TransferIsRetried
<1>9. \A t \in Targets, mf \in MirrorFailureCb, rc \in EndCb :
          TransferFails(t, mf, rc) => CountFailure(t, mf)
  BY DEF TransferFails
<1> QED BY <1>1, <1>2, <1>3, <1>4, <1>5, <1>6, <1>7, <1>8, <1>9, Zenon
        DEF Next, Prepare, Check, Curl, Terminated

\* The limit of a mirror is only ever lowered, and never to 0: a mirror that timed out
\* under load keeps its lower limit for the rest of the call.
THEOREM LimitOnlyLoweredHolds == Spec => LimitOnlyLowered
<1> DEFINE Lowers(m) == stat[m].allowed # 0 => stat'[m].allowed \in 1 .. stat[m].allowed
<1>1. ASSUME IInv, [Next]_vars, NEW m \in Mirrors PROVE Lowers(m)
  <2>1. stat[m].allowed \in 0 .. MaxPerMirror
    BY <1>1 DEF IInv, Limits
  <2>2. stat[m].allowed # 0 => stat[m].allowed \in 1 .. stat[m].allowed
    BY <2>1, ConstantsAssumption
  <2>3. stat[m].allowed # 0 => AllowedNow(m) = stat[m].allowed
    BY DEF AllowedNow
  <2> QED BY <1>1, <2>2, <2>3, MirrorSteps
<1>2. IInv /\ [Next]_vars => [\A m \in Mirrors : Lowers(m)]_vars
  BY <1>1
<1> QED BY <1>2, Invariant, PTL DEF Spec, LimitOnlyLowered

\* No transfer is started from a mirror that failed LRO_ALLOWEDMIRRORFAILURES times and
\* never succeeded, not even when the mirrors are gone through again.
THEOREM BadMirrorSkippedHolds == Spec => BadMirrorSkipped
<1> DEFINE Skipped(m) == BadMirror(m) => stat'[m].running <= stat[m].running
<1>1. ASSUME IInv, [Next]_vars, NEW m \in Mirrors PROVE Skipped(m)
  <2> SUFFICES ASSUME BadMirror(m) PROVE stat'[m].running <= stat[m].running
    OBVIOUS
  <2>1. stat[m].running \in Nat /\ stat[m].failed \in Nat
    BY <1>1, MirrorBounds DEF MirrorStat
  <2>2. ASSUME NEW t \in Targets, NEW k \in Iterations(t), Suitable(t, m, k) PROVE FALSE
    <3>1. k # 0
      BY <2>2 DEF Suitable
    <3>2. k \in 0 .. AllowedFailures - 1
      BY <2>2, <3>1 DEF Iterations
    <3>3. k >= stat[m].failed
      BY <2>2, <3>1, <3>2 DEF Suitable
    <3> QED BY <2>1, <3>2, <3>3, ConstantsAssumption DEF BadMirror
  <2> QED BY <1>1, <2>1, <2>2, MirrorSteps
<1>2. IInv /\ [Next]_vars => [\A m \in Mirrors : Skipped(m)]_vars
  BY <1>1
<1> QED BY <1>2, Invariant, PTL DEF Spec, BadMirrorSkipped

-------------------------------------------------------------------------------
(* The invariant of the outcome.                                           *)

\* An error stops the loops.
Stops == err # "none" => pc \in {"cleanup", "done"}

\* Nothing was started yet.
Untouched == pc = "entry" => \A t \in Targets : state[t] = "WAITING"

\* The loops are left without an error only when every target is decided.
Settled == pc \in {"cleanup", "done"} /\ err = "none" =>
               \A t \in Targets : state[t] \in {"FINISHED", "FAILED"}

\* With failfast a failed target is an error of the call.
FailsFast == failfast /\ (\E t \in Targets : state[t] = "FAILED") => err # "none"

\* Without it the errors of a target become one of the call for a reason only.
Reasons ==
    /\ err = "TRANSFER" /\ ~failfast => "ERROR" \in EndCb \/ "cb_error" \in Outcomes
    /\ err = "NOURL" /\ ~failfast =>
           \E t \in Targets : UsesMirrors(t) /\ MirrorList[HandleOf[t]] = <<>>

\* What the code of a target and the calls of its end callback are in each state.
ReportOf(t) ==
    /\ state[t] = "FINISHED" => ends[t] = <<"SUCCESSFUL">> /\ rcode[t] = "OK"
    /\ state[t] = "FAILED" => ends[t] = <<"ERROR">> /\ rcode[t] \notin {"OK", "UNFINISHED"}
    /\ state[t] = "RUNNING" => /\ ends[t] = IF pc = "done" THEN <<"ERROR">> ELSE <<>>
                               /\ rcode[t] = "UNFINISHED"
    /\ state[t] = "WAITING" => ends[t] = <<>> /\ rcode[t] = "UNFINISHED"
Reported == \A t \in Accepted : ReportOf(t)

OInv == Stops /\ Untouched /\ Settled /\ FailsFast /\ Reasons /\ Reported

-------------------------------------------------------------------------------
(* What a step does to the outcome of the call.                            *)

InLoops == pc \notin {"cleanup", "done"}

\* A target that is not decided stays so, and is not reported.
Keeps(t) == /\ ends'[t] = ends[t] /\ rcode'[t] = rcode[t]
            /\ state'[t] # state[t] => {state[t], state'[t]} \subseteq {"WAITING", "RUNNING"}

\* The call goes on; it leaves the loops when nothing is left to do.
Working ==
    /\ InLoops /\ pc' \notin {"entry", "done"}
    /\ UNCHANGED <<failfast, err>>
    /\ \A t \in Accepted : Keeps(t)
    /\ \A t \in Targets : state'[t] = "FAILED" => state[t] = "FAILED"
    /\ pc' = "cleanup" => \A t \in Targets : state'[t] \in {"FINISHED", "FAILED"}

\* Target t gets its result, which may be the end of the call.
Deciding(t) ==
    /\ InLoops /\ pc # "entry" /\ state[t] \in {"WAITING", "RUNNING"}
    /\ UNCHANGED failfast
    /\ \/ /\ state' = [state EXCEPT ![t] = "FINISHED"]
          /\ ends' = [ends EXCEPT ![t] = Append(@, "SUCCESSFUL")]
          /\ rcode' = [rcode EXCEPT ![t] = "OK"]
       \/ /\ state' = [state EXCEPT ![t] = "FAILED"]
          /\ ends' = [ends EXCEPT ![t] = Append(@, "ERROR")]
          /\ \E code \in {"NOURL", "TRANSFER", "CBINTERRUPTED"} :
                 rcode' = [rcode EXCEPT ![t] = code]
          /\ failfast => err' # "none"
    /\ \/ UNCHANGED <<err, pc>>
       \/ /\ err' # "none" /\ pc' = "cleanup"
          /\ err' = "TRANSFER" /\ ~failfast => "ERROR" \in EndCb \/ "cb_error" \in Outcomes
          /\ err' = "NOURL" => failfast

\* An error that is no target's ends the call.
Stopping ==
    /\ InLoops /\ pc # "entry" /\ pc' = "cleanup"
    /\ UNCHANGED failfast
    /\ err' \notin {"none", "TRANSFER"}
    /\ err' = "NOURL" /\ ~failfast =>
           \E t \in Targets : UsesMirrors(t) /\ MirrorList[HandleOf[t]] = <<>>
    /\ \A t \in Accepted : Keeps(t)

\* An interrupt that came before the call.
Refusing ==
    /\ pc = "entry" /\ pc' = "done" /\ err' = "INTERRUPTED"
    /\ UNCHANGED <<state, ends, rcode, failfast>>

\* Nothing the caller could see.
Quiet == UNCHANGED <<state, ends, rcode, failfast, err, pc>>

\* The scan of select_next_target() passes over no target when nothing runs: each mirror
\* then is below its limit, which is at least 1.
LEMMA LastPrepare ==
    ASSUME IInv, EndPrepare, pc = "prepare", active = {}, NEW t \in Targets
    PROVE  state[t] \in {"FINISHED", "FAILED"}
<1>1. free_slots > 0
  <2>1. Cardinality(active) = 0
    BY FS_EmptySet
  <2> QED BY <2>1, ConstantsAssumption DEF IInv, TypeOK, Slots
<1>2. state[t] # "RUNNING"
  BY DEF IInv, Lists
<1>3. ASSUME state[t] = "WAITING" PROVE FALSE
  <2>1. AnySuitable(t) /\ ~AnyUsable(t)
    BY <1>1, <1>3 DEF EndPrepare, Blocked
  <2>2. PICK k \in Iterations(t), i \in DOMAIN MirrorsOf(t) : Suitable(t, MirrorsOf(t)[i], k)
    BY <2>1 DEF AnySuitable
  <2> DEFINE m == MirrorsOf(t)[i]
  <2>3. m \in Mirrors
    BY ListMirrors
  <2>4. LimitReached(m)
    BY <2>1, <2>2 DEF AnyUsable, Usable
  <2>5. stat[m].running = 0
    <3>1. Running(m) = {}
      BY DEF Running
    <3> QED BY <2>3, <3>1, FS_EmptySet DEF IInv, Counts
  <2>6. AllowedNow(m) \in 1 .. MaxPerMirror
    BY <2>3, MirrorBounds
  <2> QED BY <2>4, <2>5, <2>6, ConstantsAssumption DEF LimitReached
<1> QED BY <1>2, <1>3 DEF IInv, TypeOK

\* Starting the transfer of target t, or failing to open its file.
LEMMA StartSteps ==
    ASSUME IInv, OInv, NEW t \in Targets, NEW m \in Mirrors \cup {NoMirror}, NextTarget(t),
           \/ UNCHANGED <<rcode, ends>>
           \/ /\ RefusedOffline(t)
              /\ \A u \in Targets \ {t} : rcode'[u] = rcode[u] /\ ends'[u] = ends[u],
           \/ Launch(t, m)
           \/ OpenFails(t, m) /\ UNCHANGED state
           \/ OpenFails(t, m) /\ RefusedOffline(t) /\ state' = [state EXCEPT ![t] = "FAILED"]
    PROVE  Working \/ Stopping
<1>1. pc \in {"prepare_first", "prepare"} /\ state[t] = "WAITING"
  BY DEF NextTarget
<1>2. state \in [Targets -> {"WAITING", "RUNNING", "FINISHED", "FAILED"}]
  BY DEF IInv, TypeOK
<1>3. Accepted \subseteq Targets /\ (RefusedOffline(t) => t \notin Accepted)
  BY DEF Accepted
<1>4. CASE Launch(t, m)
  <2>1. state' = [state EXCEPT ![t] = "RUNNING"] /\ UNCHANGED <<failfast, err, pc>>
    BY <1>4 DEF Launch
  <2>2. \A u \in Accepted : Keeps(u)
    BY <2>1, <1>1, <1>2, <1>3 DEF Keeps
  <2>3. \A u \in Targets : state'[u] = "FAILED" => state[u] = "FAILED"
    BY <2>1, <1>2
  <2> QED BY <2>1, <2>2, <2>3, <1>1 DEF Working, InLoops
<1>5. ASSUME OpenFails(t, m), \A u \in Accepted : Keeps(u) PROVE Stopping
  BY <1>1, <1>5 DEF Stopping, InLoops, OpenFails, StopIf
<1>6. CASE OpenFails(t, m) /\ UNCHANGED state
  BY <1>3, <1>5, <1>6 DEF Keeps
<1>7. CASE OpenFails(t, m) /\ RefusedOffline(t) /\ state' = [state EXCEPT ![t] = "FAILED"]
  BY <1>2, <1>3, <1>5, <1>7 DEF Keeps
<1> QED BY <1>4, <1>6, <1>7

\* Every step is of one of these kinds.
LEMMA OutcomeSteps ==
    ASSUME IInv, OInv, [Next]_vars
    PROVE  Working \/ (\E t \in Targets : Deciding(t)) \/ Stopping \/ Refusing \/ Cleanup \/ Quiet
<1>1. CASE Enter
  BY <1>1 DEF Enter, targetVars, Working, Refusing, InLoops, Keeps, Stops
<1>2. ASSUME NEW t \in Targets, EmptyMirrorlist(t) PROVE Stopping
  <2>1. MirrorsOf(t) = <<>> /\ UsesMirrors(t)
    BY <1>2 DEF EmptyMirrorlist
  <2>2. MirrorList[HandleOf[t]] = <<>>
    BY <2>1, ConstantsAssumption DEF IInv, MirrorsKept, MirrorsOf
  <2> QED BY <1>2, <2>1, <2>2
          DEF EmptyMirrorlist, NextTarget, StopIf, targetVars, Stopping, InLoops, Keeps
<1>3. ASSUME NEW t \in Targets, NEW rc \in EndCb, MirrorsExhausted(t, rc) PROVE Deciding(t)
  BY <1>3 DEF MirrorsExhausted, NextTarget, StopIf, Deciding, InLoops
<1>4. ASSUME NEW t \in Targets, StartFromMirror(t) PROVE Working \/ Stopping
  <2>1. PICK k \in Iterations(t), i \in DOMAIN MirrorsOf(t) :
            \/ Launch(t, MirrorsOf(t)[i])
            \/ OpenFails(t, MirrorsOf(t)[i]) /\ UNCHANGED state
    BY <1>4 DEF StartFromMirror
  <2>2. NextTarget(t) /\ UNCHANGED <<rcode, ends>>
    BY <1>4 DEF StartFromMirror
  <2> QED BY <2>1, <2>2, ListMirrors, StartSteps
<1>5. ASSUME NEW t \in Targets, StartFromUrl(t) PROVE Working \/ Stopping
  BY <1>5, StartSteps DEF StartFromUrl
<1>6. ASSUME NEW t \in Targets, NEW rc \in EndCb, OfflineUrl(t, rc) PROVE Working \/ Stopping
  <2>1. NextTarget(t) /\ RefusedOffline(t)
    BY <1>6 DEF OfflineUrl
  <2>2. \A u \in Targets \ {t} : rcode'[u] = rcode[u] /\ ends'[u] = ends[u]
    BY <1>6 DEF OfflineUrl, IInv, TypeOK
  <2>3. CASE rc = "ERROR" \/ failfast
    <3>1. \A u \in Accepted : Keeps(u)
      BY <1>6, <2>1, <2>2, <2>3, ZenonT(60) DEF OfflineUrl, Keeps, Accepted, IInv, TypeOK
    <3> QED BY <1>6, <2>1, <2>3, <3>1 DEF OfflineUrl, StopIf, NextTarget, Stopping, InLoops
  <2>4. CASE ~(rc = "ERROR" \/ failfast)
    <3>1. \/ Launch(t, NoMirror)
          \/ OpenFails(t, NoMirror) /\ state' = [state EXCEPT ![t] = "FAILED"]
      BY <1>6, <2>4 DEF OfflineUrl
    <3> QED BY <2>1, <2>2, <3>1, StartSteps
  <2> QED BY <2>3, <2>4
<1>7. CASE EndPrepare
  BY <1>7, LastPrepare DEF EndPrepare, targetVars, Working, InLoops, Keeps
<1>8. ASSUME NEW t \in Targets, NEW o \in Outcomes, CurlFinishes(t, o) PROVE Quiet
  BY <1>8 DEF CurlFinishes, loopVars, Quiet
<1>9. CASE CurlmFails
  BY <1>9 DEF CurlmFails, StopIf, targetVars, Stopping, InLoops, Keeps
<1>10. CASE Sigint \/ UNCHANGED vars
  BY <1>10 DEF Sigint, vars, targetVars, loopVars, Quiet
<1>11. CASE PerformReturns
  BY <1>11 DEF PerformReturns, targetVars, Working, Stopping, InLoops, Keeps
<1>12. ASSUME NEW t \in Targets, TakeMessage(t, TRUE) \/ TakeMessage(t, FALSE)
       PROVE  /\ pc = "check" /\ state[t] = "RUNNING" /\ failfast' = failfast
              /\ outcome[t] \in Outcomes
  BY <1>12 DEF TakeMessage, IInv, Lists, TypeOK
<1>13. ASSUME NEW t \in Targets, NEW rc \in EndCb, TransferSucceeds(t, rc) PROVE Deciding(t)
  BY <1>12, <1>13 DEF TransferSucceeds, StopIf, Deciding, InLoops
<1>14. ASSUME NEW t \in Targets, NEW mf, TransferIsRetried(t, mf) PROVE Working \/ Stopping
  <2>1. /\ pc = "check" /\ state[t] = "RUNNING" /\ failfast' = failfast
        /\ state' = [state EXCEPT ![t] = "WAITING"] /\ UNCHANGED <<rcode, ends>>
    BY <1>12, <1>14 DEF TransferIsRetried, CountFailure
  <2>2. \A u \in Accepted : Keeps(u)
    BY <2>1 DEF Keeps, Accepted, IInv, TypeOK
  <2>3. \A u \in Targets : state'[u] = "FAILED" => state[u] = "FAILED"
    BY <2>1 DEF IInv, TypeOK
  <2>4. \/ UNCHANGED <<err, pc>>
        \/ err' = "IO" /\ pc' = "cleanup"
    BY <1>14 DEF TransferIsRetried, StopIf
  <2> QED BY <2>1, <2>2, <2>3, <2>4 DEF Working, Stopping, InLoops
<1>15. ASSUME NEW t \in Targets, NEW mf, NEW rc \in EndCb, TransferFails(t, mf, rc) PROVE Deciding(t)
  <2> DEFINE code == IF mf = "ERROR" THEN "CBINTERRUPTED" ELSE "TRANSFER"
  <2>1. /\ pc = "check" /\ state[t] = "RUNNING" /\ failfast' = failfast /\ outcome[t] \in Outcomes
        /\ state' = [state EXCEPT ![t] = "FAILED"]
        /\ ends' = [ends EXCEPT ![t] = Append(@, "ERROR")]
        /\ rcode' = [rcode EXCEPT ![t] = code]
        /\ StopIf(EndsCall(t, mf, rc), code)
    BY <1>12, <1>15 DEF TransferFails, CountFailure
  <2> QED BY <2>1 DEF StopIf, EndsCall, Deciding, InLoops
<1>16. ASSUME NEW t \in Targets, ChecksumFails(t) PROVE Stopping
  BY <1>16 DEF ChecksumFails, StopIf, targetVars, Stopping, InLoops, Keeps
<1>17. CASE EndCheck
  BY <1>17 DEF EndCheck, targetVars, Working, InLoops, Keeps
<1> QED BY <1>1, <1>2, <1>3, <1>4, <1>5, <1>6, <1>7, <1>8, <1>9, <1>10, <1>11, <1>13, <1>14, <1>15,
           <1>16, <1>17, Zenon DEF Next, Prepare, Check, Curl, Terminated

\* A step that decides no target leaves every report as it was.
LEMMA KeepsReports ==
    ASSUME IInv, IInv', OInv, InLoops, pc' # "done", \A t \in Accepted : Keeps(t)
    PROVE  Reported'
<1> SUFFICES ASSUME NEW t \in Accepted PROVE ReportOf(t)'
  BY DEF Reported, Accepted, RefusedOffline, IsOffline
<1>1. t \in Targets /\ ReportOf(t) /\ Keeps(t)
  BY DEF Accepted, OInv, Reported
<1> QED BY <1>1 DEF ReportOf, Keeps, InLoops

\* Every kind of step keeps the invariant.
LEMMA OutcomeInvariant == Spec => []OInv
<1>1. Init => OInv
  BY DEF Init, OInv, Stops, Untouched, Settled, FailsFast, Reasons, Reported, ReportOf, Accepted
<1>2. IInv /\ IInv' /\ OInv /\ [Next]_vars => OInv'
  <2> SUFFICES ASSUME IInv, IInv', OInv, [Next]_vars PROVE OInv'
    OBVIOUS
  <2>1. CASE Working
    <3>1. err = "none" /\ err' = "none"
      BY <2>1 DEF OInv, Stops, Working, InLoops
    <3>2. Reported'
      BY <2>1, KeepsReports DEF Working
    <3>3. FailsFast'
      BY <2>1, <3>1 DEF Working, OInv, FailsFast
    <3> QED BY <2>1, <3>1, <3>2, <3>3 DEF OInv, Stops, Untouched, Settled, Reasons, Working
  <2>2. ASSUME NEW t \in Targets, Deciding(t) PROVE OInv'
    <3>1. state \in [Targets -> {"WAITING", "RUNNING", "FINISHED", "FAILED"}]
      BY DEF IInv, TypeOK
    <3>2. err = "none" /\ pc \notin {"entry", "cleanup", "done"} /\ pc' \in {pc, "cleanup"}
      BY <2>2 DEF OInv, Stops, Deciding, InLoops
    <3>3. Stops' /\ Untouched' /\ Settled' /\ Reasons'
      BY <2>2, <3>2 DEF OInv, Stops, Untouched, Settled, Reasons, Deciding
    <3>4. FailsFast'
      BY <2>2, <3>1, <3>2 DEF OInv, FailsFast, Deciding
    <3>5. Reported'
      <4> SUFFICES ASSUME NEW u \in Accepted PROVE ReportOf(u)'
        BY DEF Reported, Accepted, RefusedOffline, IsOffline
      <4>1. u \in Targets /\ ReportOf(u)
        BY DEF Accepted, OInv, Reported
      <4>2. ends \in [Targets -> Seq({"SUCCESSFUL", "ERROR"})] /\ DOMAIN rcode = Targets
        BY DEF IInv, TypeOK
      <4>3. CASE u # t
        <5>1. state'[u] = state[u] /\ ends'[u] = ends[u] /\ rcode'[u] = rcode[u]
          BY <2>2, <3>1, <4>1, <4>2, <4>3 DEF Deciding
        <5> QED BY <3>2, <4>1, <5>1 DEF ReportOf
      <4>4. CASE u = t
        <5>1. ends[u] = <<>>
          BY <2>2, <3>2, <4>1, <4>4 DEF ReportOf, Deciding
        <5>2. \/ state'[u] = "FINISHED" /\ ends'[u] = <<"SUCCESSFUL">> /\ rcode'[u] = "OK"
              \/ state'[u] = "FAILED" /\ ends'[u] = <<"ERROR">> /\ rcode'[u] \notin {"OK", "UNFINISHED"}
          BY <2>2, <3>1, <4>1, <4>2, <4>4, <5>1 DEF Deciding
        <5> QED BY <4>1, <5>2 DEF ReportOf
      <4> QED BY <4>3, <4>4
    <3> QED BY <3>3, <3>4, <3>5 DEF OInv
  <2>3. CASE Stopping
    <3>1. Reported'
      BY <2>3, KeepsReports DEF Stopping
    <3> QED BY <2>3, <3>1 DEF OInv, Stops, Untouched, Settled, FailsFast, Reasons, Stopping
  <2>4. CASE Refusing
    <3>1. \A t \in Targets : state'[t] = "WAITING"
      BY <2>4 DEF OInv, Untouched, Refusing
    <3>2. Reported'
      <4> SUFFICES ASSUME NEW u \in Accepted PROVE ReportOf(u)'
        BY DEF Reported, Accepted, RefusedOffline, IsOffline
      <4>1. u \in Targets /\ ReportOf(u)
        BY DEF Accepted, OInv, Reported
      <4> QED BY <2>4, <3>1, <4>1 DEF ReportOf, Refusing
    <3> QED BY <2>4, <3>1, <3>2 DEF OInv, Stops, Untouched, Settled, FailsFast, Reasons, Refusing
  <2>5. CASE Cleanup
    <3>1. /\ pc = "cleanup" /\ pc' = "done" /\ UNCHANGED <<state, err, failfast>>
          /\ active = {t \in Targets : state[t] = "RUNNING"}
      BY <2>5 DEF Cleanup, IInv, Lists
    <3>2. Reported'
      <4> SUFFICES ASSUME NEW u \in Accepted PROVE ReportOf(u)'
        BY DEF Reported, Accepted, RefusedOffline, IsOffline
      <4>1. u \in Targets /\ ReportOf(u)
        BY DEF Accepted, OInv, Reported
      <4>2. CASE state[u] = "RUNNING"
        <5>1. err # "none" /\ u \in active
          BY <3>1, <4>1, <4>2 DEF OInv, Settled
        <5>2. ends[u] = <<>>
          BY <3>1, <4>1, <4>2 DEF ReportOf
        <5>3. ends'[u] = <<"ERROR">> /\ rcode'[u] = "UNFINISHED"
          <6>1. ends'[u] = Append(ends[u], "ERROR") /\ rcode'[u] = "UNFINISHED"
            BY <2>5, <4>1, <5>1 DEF Cleanup
          <6> QED BY <5>2, <6>1
        <5> QED BY <3>1, <4>1, <4>2, <5>3 DEF ReportOf
      <4>3. CASE state[u] # "RUNNING"
        <5>1. ends'[u] = ends[u] /\ rcode'[u] = rcode[u]
          BY <2>5, <3>1, <4>1, <4>3 DEF Cleanup
        <5> QED BY <3>1, <4>1, <4>3, <5>1 DEF ReportOf
      <4> QED BY <4>2, <4>3
    <3> QED BY <3>1, <3>2 DEF OInv, Stops, Untouched, Settled, FailsFast, Reasons
  <2>6. CASE Quiet
    <3>1. Stops' /\ Untouched' /\ Settled' /\ FailsFast' /\ Reasons'
      BY <2>6 DEF OInv, Stops, Untouched, Settled, FailsFast, Reasons, Quiet
    <3>2. Reported'
      BY <2>6 DEF OInv, Reported, ReportOf, Quiet, Accepted, RefusedOffline, IsOffline
    <3> QED BY <3>1, <3>2 DEF OInv
  <2> QED BY <2>1, <2>2, <2>3, <2>4, <2>5, <2>6, OutcomeSteps
<1> QED BY <1>1, <1>2, Invariant, PTL DEF Spec

\* A call of lr_download() that returns TRUE has decided every target.
THEOREM NothingStrandedHolds == Spec => []NothingStranded
<1>1. OInv => NothingStranded
  BY DEF OInv, Settled, NothingStranded
<1> QED BY <1>1, OutcomeInvariant, PTL

\* When lr_download() returns, the end callback of every target that was decided or
\* interrupted was called exactly once, with what its return code says.
THEOREM ReportedOnceHolds == Spec => []ReportedOnce
<1>1. IInv /\ OInv => ReportedOnce
  <2> SUFFICES ASSUME IInv, OInv, pc = "done", NEW t \in Targets, ~RefusedOffline(t)
               PROVE  /\ state[t] \in {"FINISHED", "FAILED", "RUNNING", "WAITING"}
                      /\ ReportOf(t)
    BY DEF ReportedOnce, ReportOf
  <2> QED BY DEF IInv, TypeOK, OInv, Reported, Accepted
<1> QED BY <1>1, Invariant, OutcomeInvariant, PTL

\* The failure of one target ends the call with failfast, and without it only when a
\* callback, a signal or a system call interferes.
THEOREM FailuresAreContainedHolds == Spec => []FailuresAreContained
<1>1. IInv /\ OInv => FailuresAreContained
  <2> SUFFICES ASSUME IInv, OInv PROVE FailuresAreContained
    OBVIOUS
  <2>1. ASSUME NEW t \in Targets, MirrorList[HandleOf[t]] = <<>> PROVE MirrorsOf(t) = <<>>
    BY <2>1, ConstantsAssumption DEF IInv, TypeOK, MirrorsKept, MirrorsOf
  <2> QED BY <2>1 DEF OInv, FailsFast, Reasons, FailuresAreContained
<1> QED BY <1>1, Invariant, OutcomeInvariant, PTL

-------------------------------------------------------------------------------
(* The refinement of DownloadSpec.                                         *)

StatusOf(t) == CASE state[t] = "FINISHED" -> "ok"
                 [] state[t] = "FAILED" -> "failed"
                 [] OTHER -> "pending"
Status == [t \in Accepted |-> StatusOf(t)]
Ends == [t \in Accepted |-> ends[t]]
Result == IF pc # "done" THEN "running" ELSE IF err = "none" THEN "ok" ELSE "error"

\* A target is pending while it waits or runs.
LEMMA PendingTargets ==
    ASSUME IInv, NEW t \in Accepted
    PROVE  /\ Status[t] = "pending" <=> state[t] \in {"WAITING", "RUNNING"}
           /\ Status[t] = "failed" <=> state[t] = "FAILED"
           /\ t \in Targets
BY DEF Status, StatusOf, Accepted, IInv, TypeOK

\* Steps that decide no accepted target are steps the caller does not see.
LEMMA KeepsStutters ==
    ASSUME \A t \in Accepted : Keeps(t), pc # "done", pc' # "done", UNCHANGED failfast
    PROVE  UNCHANGED Abstract!vars
<1>1. \A t \in Accepted : StatusOf(t)' = StatusOf(t) /\ ends'[t] = ends[t]
  BY DEF Keeps, StatusOf
<1>2. Accepted' = Accepted
  BY DEF Accepted, RefusedOffline, IsOffline
<1>3. Status' = Status /\ Ends' = Ends
  BY <1>1, <1>2 DEF Status, Ends
<1> QED BY <1>3 DEF Abstract!vars, Status, StatusOf, Ends

\* A decision about an accepted target is one of the abstract specification.
LEMMA DecidingRefines ==
    ASSUME IInv, OInv, NEW t \in Targets, Deciding(t)
    PROVE  [Abstract!Next]_Abstract!vars
<1>1. /\ state \in [Targets -> {"WAITING", "RUNNING", "FINISHED", "FAILED"}]
      /\ ends \in [Targets -> Seq({"SUCCESSFUL", "ERROR"})]
      /\ DOMAIN rcode = Targets
  BY DEF IInv, TypeOK
<1>2. err = "none" /\ pc # "done" /\ pc' # "done" /\ failfast' = failfast
  BY DEF OInv, Stops, Deciding, InLoops
<1>3. CASE t \notin Accepted
  <2>1. \A u \in Accepted : Keeps(u)
    BY <1>1, <1>3 DEF Accepted, Keeps, Deciding
  <2> QED BY <1>2, <2>1, KeepsStutters
<1>4. CASE t \in Accepted
  <2>1. Abstract!Pending = {u \in Accepted : Status[u] = "pending"}
    BY DEF Abstract!Pending, Status, StatusOf
  <2>2. Abstract!Failed = {u \in Accepted : Status[u] = "failed"}
    BY DEF Abstract!Failed, Status, StatusOf
  <2>3. t \in Abstract!Pending
    BY <1>4, <2>1, PendingTargets DEF Deciding
  <2>4. failfast => Abstract!Failed = {}
    BY <1>2, <2>2, PendingTargets DEF OInv, FailsFast
  <2>5. Accepted' = Accepted
    BY DEF Accepted, RefusedOffline, IsOffline
  <2>6. CASE /\ state' = [state EXCEPT ![t] = "FINISHED"]
             /\ ends' = [ends EXCEPT ![t] = Append(@, "SUCCESSFUL")]
    <3>1. /\ Status' = [Status EXCEPT ![t] = "ok"]
          /\ Ends' = [Ends EXCEPT ![t] = Append(@, "SUCCESSFUL")]
      BY <1>1, <1>4, <2>5, <2>6 DEF Status, StatusOf, Ends, Accepted
    <3>2. Abstract!Finish(t)
      BY <1>2, <2>3, <2>4, <3>1 DEF Abstract!Finish, Abstract!Decide, Status, StatusOf, Ends
    <3> QED BY <1>4, <3>2 DEF Abstract!Next
  <2>7. CASE /\ state' = [state EXCEPT ![t] = "FAILED"]
             /\ ends' = [ends EXCEPT ![t] = Append(@, "ERROR")]
    <3>1. /\ Status' = [Status EXCEPT ![t] = "failed"]
          /\ Ends' = [Ends EXCEPT ![t] = Append(@, "ERROR")]
      BY <1>1, <1>4, <2>5, <2>7 DEF Status, StatusOf, Ends, Accepted
    <3>2. Abstract!Fail(t)
      BY <1>2, <2>3, <2>4, <3>1 DEF Abstract!Fail, Abstract!Decide, Status, StatusOf, Ends
    <3> QED BY <1>4, <3>2 DEF Abstract!Next
  <2> QED BY <2>6, <2>7 DEF Deciding
<1> QED BY <1>3, <1>4

\* The end of the call is its return to the caller.
LEMMA CleanupRefines ==
    ASSUME IInv, OInv, Cleanup
    PROVE  Abstract!Next
<1>1. /\ pc = "cleanup" /\ pc' = "done" /\ UNCHANGED <<state, err, failfast>>
      /\ active = {t \in Targets : state[t] = "RUNNING"}
      /\ Accepted' = Accepted
  BY DEF Cleanup, IInv, Lists, Accepted, RefusedOffline, IsOffline
<1>2. Abstract!Pending = {u \in Accepted : Status[u] = "pending"}
  BY DEF Abstract!Pending, Status, StatusOf
<1>3. Status' = Status
  BY <1>1 DEF Status, StatusOf
<1>4. CASE err = "none"
  <2>1. Abstract!Pending = {}
    BY <1>1, <1>2, <1>4, PendingTargets DEF OInv, Settled
  <2>2. failfast => Abstract!Failed = {}
    <3>1. Abstract!Failed = {u \in Accepted : Status[u] = "failed"}
      BY DEF Abstract!Failed, Status, StatusOf
    <3> QED BY <1>4, <3>1, PendingTargets DEF OInv, FailsFast
  <2>3. Ends' = Ends
    <3>1. \A u \in Accepted : ends'[u] = ends[u]
      BY <1>4 DEF Cleanup, Accepted
    <3> QED BY <1>1, <3>1 DEF Ends
  <2>4. Abstract!ReturnTrue
    BY <1>1, <1>3, <1>4, <2>1, <2>2, <2>3 DEF Abstract!ReturnTrue, Status, StatusOf, Ends
  <2> QED BY <2>4 DEF Abstract!Next
<1>5. CASE err # "none"
  <2>1. PICK S \in SUBSET Abstract!Pending : S = {u \in Accepted : state[u] = "RUNNING"}
    BY <1>2, PendingTargets
  <2>2. Ends' = [u \in Accepted |-> IF u \in S THEN Append(Ends[u], "ERROR") ELSE Ends[u]]
    <3>1. \A u \in Accepted : ends'[u] = IF u \in S THEN Append(ends[u], "ERROR") ELSE ends[u]
      BY <1>1, <1>5, <2>1 DEF Cleanup, Accepted
    <3> QED BY <1>1, <3>1 DEF Ends
  <2>3. Abstract!ReturnFalse(S)
    BY <1>1, <1>3, <1>5, <2>2 DEF Abstract!ReturnFalse, Status, StatusOf, Ends
  <2> QED BY <2>3 DEF Abstract!Next
<1> QED BY <1>4, <1>5

\* lr_download() does what DownloadSpec promises for every list of targets: each is decided
\* once and told so once, and the call returns TRUE only when all of them are.
THEOREM Refinement == Spec => ImplementsDownloadSpec
<1>1. Init => Abstract!Init
  BY DEF Init, Abstract!Init, Accepted
<1>2. IInv /\ OInv /\ [Next]_vars => [Abstract!Next]_Abstract!vars
  <2> SUFFICES ASSUME IInv, OInv, [Next]_vars PROVE [Abstract!Next]_Abstract!vars
    OBVIOUS
  <2>1. CASE Working \/ Stopping
    BY <2>1, KeepsStutters DEF Working, Stopping, InLoops
  <2>2. CASE \E t \in Targets : Deciding(t)
    BY <2>2, DecidingRefines
  <2>3. CASE Refusing
    <3>1. Accepted' = Accepted
      BY DEF Accepted, RefusedOffline, IsOffline
    <3>2. PICK S \in SUBSET Abstract!Pending : S = {}
      OBVIOUS
    <3>3. Abstract!ReturnFalse(S)
      BY <2>3, <3>1, <3>2 DEF Refusing, Abstract!ReturnFalse
    <3> QED BY <3>3 DEF Abstract!Next
  <2>4. CASE Cleanup
    BY <2>4, CleanupRefines
  <2>5. CASE Quiet
    <3>1. Accepted' = Accepted
      BY DEF Accepted, RefusedOffline, IsOffline
    <3> QED BY <2>5, <3>1 DEF Quiet, Abstract!vars
  <2> QED BY <2>1, <2>2, <2>3, <2>4, <2>5, OutcomeSteps
<1> QED BY <1>1, <1>2, Invariant, OutcomeInvariant, PTL
        DEF Spec, ImplementsDownloadSpec, Abstract!Spec

-------------------------------------------------------------------------------
(* Sums.  NumTried adds up the tries of each mirror with SumFunction, a     *)
(* recursive function on the subsets of the domain.  That it exists, and   *)
(* what it computes, is proved by induction on finite sets: a minimal      *)
(* subset for which the claim failed would contradict it.                  *)

\* The element of s that is added first, and the others.
Some(s) == CHOOSE x \in s : TRUE
Rest(s) == s \ {Some(s)}

\* The functions that give for each subset of S the sum of f over it.
Sums(f, S) == {g \in [SUBSET S -> Int] :
                 \A s \in SUBSET S : g[s] = IF s = {} THEN 0 ELSE f[Some(s)] + g[Rest(s)]}

\* Among subsets of a finite set there is one that contains no other.
LEMMA MinimalSubset ==
    ASSUME NEW S, IsFiniteSet(S), NEW C, C \subseteq SUBSET S, C # {}
    PROVE  \E s \in C : \A u \in C : u \subseteq s => u = s
<1>1. IsWellFoundedOn(StrictSubsetOrdering(S), FiniteSubsetsOf(S))
  BY FS_StrictSubsetOrderingWellFounded
<1>2. C \subseteq FiniteSubsetsOf(S)
  BY FS_FiniteSubsetsOfFinite
<1>3. \E s \in C : \A u \in C : ~(<<u, s>> \in StrictSubsetOrdering(S))
  <2> HIDE DEF FiniteSubsetsOf, StrictSubsetOrdering
  <2> QED BY <1>1, <1>2, WFMin
<1> QED BY <1>3 DEF StrictSubsetOrdering

\* What is left to add is smaller.
LEMMA RestSmaller ==
    ASSUME NEW s, s # {}
    PROVE  /\ Some(s) \in s /\ Some(s) \notin Rest(s)
           /\ Rest(s) \subseteq s /\ Rest(s) # s
BY DEF Some, Rest

\* Two functions that sum up agree.
LEMMA SumsUnique ==
    ASSUME NEW f, NEW S, NEW T, IsFiniteSet(S), NEW g \in Sums(f, S), NEW h \in Sums(f, T),
           NEW s, s \subseteq S, s \subseteq T
    PROVE  g[s] = h[s]
<1> DEFINE C == {u \in SUBSET S : u \subseteq T /\ g[u] # h[u]}
<1> SUFFICES ASSUME C # {} PROVE FALSE
  OBVIOUS
<1>1. PICK u \in C : \A w \in C : w \subseteq u => w = u
  <2>1. C \subseteq SUBSET S
    OBVIOUS
  <2> HIDE DEF C
  <2> QED BY <2>1, MinimalSubset
<1>2. u # {}
  BY <1>1 DEF Sums
<1>3. Rest(u) \notin C
  BY <1>1, <1>2, RestSmaller
<1>4. Rest(u) \subseteq S /\ Rest(u) \subseteq T /\ u \subseteq S /\ u \subseteq T
  BY <1>2, RestSmaller
<1>5. g[Rest(u)] = h[Rest(u)]
  BY <1>3, <1>4
<1>6. g[u] = f[Some(u)] + g[Rest(u)] /\ h[u] = f[Some(u)] + h[Rest(u)]
  BY <1>2, <1>4 DEF Sums
<1> QED BY <1>1, <1>5, <1>6

\* A function that sums up exists.
LEMMA SumsExist ==
    ASSUME NEW S, IsFiniteSet(S), NEW f \in [S -> Int]
    PROVE  Sums(f, S) # {}
<1> DEFINE C == {s \in SUBSET S : Sums(f, s) = {}}
<1> SUFFICES ASSUME C # {} PROVE FALSE
  OBVIOUS
<1>1. PICK s \in C : \A u \in C : u \subseteq s => u = s
  <2>1. C \subseteq SUBSET S
    OBVIOUS
  <2> HIDE DEF C
  <2> QED BY <2>1, MinimalSubset
<1>2. \A u \in SUBSET s : u # s => Sums(f, u) # {}
  BY <1>1
<1> DEFINE part(u) == CHOOSE g \in Sums(f, Rest(u)) : TRUE
           val(u) == IF u = {} THEN 0 ELSE f[Some(u)] + part(u)[Rest(u)]
           sum == [u \in SUBSET s |-> val(u)]
<1>3. ASSUME NEW u \in SUBSET s, u # {}
      PROVE  /\ Rest(u) \in SUBSET s /\ Rest(u) # s
             /\ part(u) \in Sums(f, Rest(u))
  <2>1. Rest(u) \in SUBSET s /\ Rest(u) # s
    BY <1>3, RestSmaller
  <2> QED BY <2>1, <1>2
<1>4. sum \in [SUBSET s -> Int]
  <2> SUFFICES ASSUME NEW u \in SUBSET s PROVE val(u) \in Int
    OBVIOUS
  <2>1. CASE u # {}
    <3>1. f[Some(u)] \in Int
      BY <2>1, <1>1, RestSmaller
    <3>2. part(u)[Rest(u)] \in Int
      BY <2>1, <1>3 DEF Sums
    <3> QED BY <3>1, <3>2
  <2> QED BY <2>1
<1>5. ASSUME NEW u \in SUBSET s, u # {}
      PROVE  sum[Rest(u)] = part(u)[Rest(u)]
  <2> DEFINE r == Rest(u)
             g == CHOOSE x \in Sums(f, r) : TRUE
  <2>1. r \in SUBSET s /\ g \in Sums(f, r)
    BY <1>3, <1>5
  <2> HIDE DEF r
  <2>2. CASE r = {}
    BY <2>1, <2>2 DEF Sums, r
  <2>3. CASE r # {}
    <3> DEFINE q == Rest(r)
               h == CHOOSE x \in Sums(f, q) : TRUE
    <3>1. q \in SUBSET s /\ h \in Sums(f, q) /\ q \subseteq r
      BY <1>3, <2>1, <2>3, RestSmaller
    <3>2. IsFiniteSet(q)
      BY <3>1, FS_Subset
    <3>3. g[q] = h[q]
      <4> HIDE DEF g, h, q
      <4> QED BY <2>1, <3>1, <3>2, SumsUnique
    <3>4. g[r] = f[Some(r)] + g[q]
      <4> HIDE DEF g
      <4> QED BY <2>1, <2>3 DEF Sums
    <3>5. sum[r] = f[Some(r)] + h[q]
      BY <2>1, <2>3
    <3> QED BY <3>3, <3>4, <3>5 DEF r
  <2> QED BY <2>2, <2>3
<1>6. sum \in Sums(f, s)
  <2>1. ASSUME NEW u \in SUBSET s PROVE sum[u] = IF u = {} THEN 0 ELSE f[Some(u)] + sum[Rest(u)]
    <3>1. CASE u # {}
      <4>1. sum[u] = f[Some(u)] + part(u)[Rest(u)]
        BY <3>1
      <4> HIDE DEF sum
      <4> QED BY <4>1, <3>1, <1>5
    <3> QED BY <3>1
  <2> HIDE DEF sum
  <2> QED BY <1>4, <2>1 DEF Sums
<1> QED BY <1>1, <1>6

\* SumFunction is such a sum.
LEMMA SumIsSum ==
    ASSUME NEW S, IsFiniteSet(S), NEW f \in [S -> Int]
    PROVE  \E g \in Sums(f, S) : SumFunction(f) = g[S]
<1> DEFINE Step(g) == [s \in SUBSET DOMAIN f |-> IF s = {} THEN 0 ELSE f[Some(s)] + g[Rest(s)]]
<1>1. SumFunction(f) = (CHOOSE g : g = Step(g))[DOMAIN f]
  BY DEF SumFunction, SumFunctionOnSet, FoldFunctionOnSet, MapThenFoldSet, Some, Rest
<1>2. DOMAIN f = S
  OBVIOUS
<1>3. PICK h : h \in Sums(f, S)
  BY SumsExist
<1>4. h = Step(h)
  BY <1>2, <1>3 DEF Sums
<1> DEFINE g == CHOOSE x : x = Step(x)
<1>5. g = Step(g)
  <2> HIDE DEF Step
  <2> QED BY <1>4
<1> HIDE DEF g
<1>6. \A s \in SUBSET S : g[s] = IF s = {} THEN 0 ELSE f[Some(s)] + g[Rest(s)]
  BY <1>2, <1>5
<1>7. \A s \in SUBSET S : g[s] \in Int
  <2> DEFINE C == {s \in SUBSET S : g[s] \notin Int}
  <2> SUFFICES ASSUME C # {} PROVE FALSE
    OBVIOUS
  <2>1. PICK s \in C : \A u \in C : u \subseteq s => u = s
    <3>1. C \subseteq SUBSET S
      OBVIOUS
    <3> HIDE DEF C
    <3> QED BY <3>1, MinimalSubset
  <2>2. s # {}
    <3>1. s \in SUBSET S /\ g[s] \notin Int
      BY <2>1
    <3>2. g[s] = IF s = {} THEN 0 ELSE f[Some(s)] + g[Rest(s)]
      BY <3>1, <1>6
    <3> QED BY <3>1, <3>2
  <2>3. Rest(s) \in SUBSET S /\ Rest(s) \notin C /\ Some(s) \in S
    BY <2>1, <2>2, RestSmaller
  <2>4. g[s] = f[Some(s)] + g[Rest(s)]
    BY <2>2, <1>6
  <2> QED BY <2>1, <2>3, <2>4
<1>8. g \in [SUBSET S -> Int]
  <2>1. g = [s \in SUBSET S |-> g[s]]
    BY <1>2, <1>5
  <2> QED BY <2>1, <1>7
<1>9. g \in Sums(f, S)
  BY <1>6, <1>8 DEF Sums
<1> QED BY <1>1, <1>2, <1>9 DEF g

\* A target that has tried nothing has made no tries.
LEMMA SumOfZeros ==
    ASSUME NEW S, IsFiniteSet(S)
    PROVE  SumFunction([x \in S |-> 0]) = 0
<1> DEFINE f == [x \in S |-> 0]
<1>1. PICK g \in Sums(f, S) : SumFunction(f) = g[S]
  BY SumIsSum
<1>2. ASSUME NEW s \in SUBSET S, g[s] # 0 PROVE FALSE
  <2> DEFINE C == {u \in SUBSET S : g[u] # 0}
  <2>1. PICK u \in C : \A w \in C : w \subseteq u => w = u
    <3>1. C \subseteq SUBSET S /\ C # {}
      BY <1>2
    <3> HIDE DEF C
    <3> QED BY <3>1, MinimalSubset
  <2>2. u # {}
    BY <2>1 DEF Sums
  <2>3. Rest(u) \in SUBSET S /\ Rest(u) \notin C /\ Some(u) \in S
    BY <2>1, <2>2, RestSmaller
  <2>4. g[u] = f[Some(u)] + g[Rest(u)]
    BY <2>2 DEF Sums
  <2> QED BY <2>1, <2>3, <2>4
<1> QED BY <1>1, <1>2

\* One try more at one mirror is one try more altogether.
LEMMA SumPlusOne ==
    ASSUME NEW S, IsFiniteSet(S), NEW f \in [S -> Nat], NEW x \in S
    PROVE  SumFunction([f EXCEPT ![x] = @ + 1]) = SumFunction(f) + 1
<1> DEFINE e == [f EXCEPT ![x] = @ + 1]
<1>1. e \in [S -> Int] /\ f \in [S -> Int]
  OBVIOUS
<1>2. PICK g \in Sums(f, S) : SumFunction(f) = g[S]
  BY <1>1, SumIsSum
<1>3. PICK h \in Sums(e, S) : SumFunction(e) = h[S]
  BY <1>1, SumIsSum
<1> DEFINE Good(s) == h[s] = IF x \in s THEN g[s] + 1 ELSE g[s]
<1>4. ASSUME NEW t \in SUBSET S, ~Good(t) PROVE FALSE
  <2> DEFINE C == {s \in SUBSET S : ~Good(s)}
  <2>1. PICK s \in C : \A u \in C : u \subseteq s => u = s
    <3>1. C \subseteq SUBSET S /\ C # {}
      BY <1>4
    <3> HIDE DEF C
    <3> QED BY <3>1, MinimalSubset
  <2>2. s # {}
    BY <2>1 DEF Sums
  <2>3. Rest(s) \in SUBSET S /\ Good(Rest(s)) /\ Some(s) \in s /\ Some(s) \in S
    BY <2>1, <2>2, RestSmaller
  <2>4. g[s] = f[Some(s)] + g[Rest(s)] /\ h[s] = e[Some(s)] + h[Rest(s)]
    BY <2>2 DEF Sums
  <2>5. g[Rest(s)] \in Int /\ f[Some(s)] \in Int
    BY <2>3 DEF Sums
  <2>6. CASE x = Some(s)
    <3>1. x \notin Rest(s) /\ e[Some(s)] = f[Some(s)] + 1
      BY <2>6, <2>2, RestSmaller
    <3> QED BY <3>1, <2>1, <2>3, <2>4, <2>5, <2>6
  <2>7. CASE x # Some(s)
    <3>1. x \in Rest(s) <=> x \in s
      BY <2>7 DEF Rest
    <3>2. e[Some(s)] = f[Some(s)]
      BY <2>7, <2>3
    <3> QED BY <3>1, <3>2, <2>1, <2>3, <2>4, <2>5
  <2> QED BY <2>6, <2>7
<1>5. Good(S)
  BY <1>4
<1> QED BY <1>2, <1>3, <1>5

-------------------------------------------------------------------------------
(* The limits of tries.  With them, the invariant says that a target which *)
(* is not decided has a try left.                                          *)

\* The tries a target that is not decided has made leave one more.
TriesLeft(t) ==
    /\ UsesMirrors(t) /\ MaxMirrorTries > 0 => NumTried(t) < MaxMirrorTries
    /\ ~UsesMirrors(t) => NumTried(t) = 0 \/ NumTried(t) < AllowedFailures
    /\ UrlKind[t] = "file_url" => NumTried(t) = 0

\* The tries of every target are within the limits.
TriesWithin(t) ==
    /\ UsesMirrors(t) /\ MaxMirrorTries > 0 => NumTried(t) <= MaxMirrorTries
    /\ ~UsesMirrors(t) => NumTried(t) <= (IF AllowedFailures > 1 THEN AllowedFailures ELSE 1)
    /\ UrlKind[t] = "file_url" => NumTried(t) <= 1

\* A mirror in the file system has one counted try at most, and none while it is read.
FileOnce(t) ==
    \A m \in Mirrors : Protocol[m] = "file" =>
        /\ tried[t][m] <= 1
        /\ state[t] = "RUNNING" /\ mirror[t] = m => tried[t][m] = 0

TInv == \A t \in Targets :
            /\ NumTried(t) \in Nat
            /\ state[t] \in {"WAITING", "RUNNING"} => TriesLeft(t)
            /\ TriesWithin(t)
            /\ FileOnce(t)

\* tried_mirrors of a target are counted by natural numbers; another mirror in the list
\* is one try more.
LEMMA OneTryMore ==
    ASSUME IInv, NEW t \in Targets
    PROVE  SumFunction([tried[t] EXCEPT ![mirror[t]] = @ + 1]) = NumTried(t) + 1
<1>1. IsFiniteSet(Mirrors \cup {NoMirror})
  BY ConstantsAssumption, FS_AddElement
<1>2. tried[t] \in [Mirrors \cup {NoMirror} -> Nat] /\ mirror[t] \in Mirrors \cup {NoMirror}
  BY DEF IInv, TypeOK
<1> QED BY <1>1, <1>2, SumPlusOne DEF NumTried

\* No try is counted, and the target is only started if it ran already.
NotTried(t) ==
    /\ tried'[t] = tried[t]
    /\ state'[t] \in {"WAITING", "RUNNING"} => state[t] \in {"WAITING", "RUNNING"}
    /\ state'[t] = "RUNNING" => state[t] = "RUNNING" /\ mirror'[t] = mirror[t]

\* A transfer is started, from a mirror that passed the filters or from a URL.
Begun(t) ==
    /\ tried'[t] = tried[t]
    /\ state[t] = "WAITING"
    /\ mirror'[t] \in Mirrors => \E k \in Iterations(t) : Suitable(t, mirror'[t], k)

\* A transfer that ran is counted, and the target waits only if it can be retried.
Counted(t) ==
    /\ state[t] = "RUNNING" /\ state'[t] # "RUNNING"
    /\ tried'[t] = [tried[t] EXCEPT ![mirror[t]] = @ + 1]
    /\ state'[t] = "WAITING" => CanRetry(t, NumTried(t)')

\* Starting a transfer for target u.
LEMMA LaunchTries ==
    ASSUME IInv, NEW t \in Targets, NEW u \in Targets, NEW m \in Mirrors \cup {NoMirror},
           state[u] = "WAITING",
           m \in Mirrors => \E k \in Iterations(u) : Suitable(u, m, k),
           \/ Launch(u, m)
           \/ OpenFails(u, m) /\ (state' = state \/ state' = [state EXCEPT ![u] = "FAILED"])
    PROVE  NotTried(t) \/ Begun(t)
<1> USE DEF IInv, TypeOK
<1>1. CASE Launch(u, m) /\ t = u
  BY <1>1 DEF Launch, Begun
<1>2. CASE Launch(u, m) /\ t # u
  BY <1>2 DEF Launch, NotTried
<1>3. CASE OpenFails(u, m) /\ (state' = state \/ state' = [state EXCEPT ![u] = "FAILED"])
  BY <1>3 DEF OpenFails, NotTried
<1> QED BY <1>1, <1>2, <1>3

\* Steps of the other kinds that end no transfer.
LEMMA QuietTries ==
    ASSUME IInv, NEW t \in Targets, NEW u \in Targets,
           tried' = tried, mirror' = mirror,
           state' = state \/ state' = [state EXCEPT ![u] = "FAILED"]
    PROVE  NotTried(t)
BY DEF IInv, TypeOK, NotTried

\* The end of a transfer.
LEMMA EndTries ==
    ASSUME IInv, NEW t \in Targets, NEW u \in Targets, NEW success, NEW x,
           TakeMessage(u, success), state' = [state EXCEPT ![u] = x], x # "RUNNING",
           \/ tried' = tried
           \/ tried' = [tried EXCEPT ![u] = [tried[u] EXCEPT ![mirror[u]] = @ + 1]],
           x = "WAITING" => CanRetry(u, SumFunction(tried'[u]))
    PROVE  NotTried(t) \/ Counted(t)
<1> USE DEF IInv, TypeOK
<1>1. state[u] = "RUNNING" /\ mirror' = mirror
  BY DEF TakeMessage, Lists
<1>2. CASE t # u
  BY <1>1, <1>2 DEF NotTried
<1>3. CASE t = u /\ tried' = tried
  BY <1>1, <1>3 DEF NotTried
<1>4. CASE t = u /\ tried' = [tried EXCEPT ![u] = [tried[u] EXCEPT ![mirror[u]] = @ + 1]]
  BY <1>1, <1>4 DEF Counted, NumTried
<1> QED BY <1>2, <1>3, <1>4

\* A step is of one of these kinds for every target.
LEMMA TrySteps ==
    ASSUME IInv, [Next]_vars, NEW t \in Targets
    PROVE  NotTried(t) \/ Begun(t) \/ Counted(t)
<1>1. ASSUME NEW u \in Targets, StartFromMirror(u) PROVE NotTried(t) \/ Begun(t)
  <2>1. PICK k \in Iterations(u), i \in DOMAIN MirrorsOf(u) :
            /\ Selects(u, i, k)
            /\ \/ Launch(u, MirrorsOf(u)[i])
               \/ OpenFails(u, MirrorsOf(u)[i]) /\ UNCHANGED state
    BY <1>1 DEF StartFromMirror
  <2>2. state[u] = "WAITING"
    BY <1>1 DEF StartFromMirror, NextTarget
  <2>3. MirrorsOf(u)[i] \in Mirrors /\ Suitable(u, MirrorsOf(u)[i], k)
    BY <2>1, ListMirrors DEF Selects, Usable
  <2> QED BY <2>1, <2>2, <2>3, LaunchTries
<1>2. ASSUME NEW u \in Targets, StartFromUrl(u) PROVE NotTried(t) \/ Begun(t)
  BY <1>2, LaunchTries, ConstantsAssumption DEF StartFromUrl, NextTarget
<1>3. ASSUME NEW u \in Targets, NEW rc, OfflineUrl(u, rc) PROVE NotTried(t) \/ Begun(t)
  <2>1. CASE rc = "ERROR" \/ failfast
    BY <1>3, <2>1, QuietTries DEF OfflineUrl
  <2>2. CASE ~(rc = "ERROR" \/ failfast)
    <3>1. /\ state[u] = "WAITING"
          /\ \/ Launch(u, NoMirror)
             \/ OpenFails(u, NoMirror) /\ state' = [state EXCEPT ![u] = "FAILED"]
      BY <1>3, <2>2 DEF OfflineUrl, NextTarget
    <3> QED BY <3>1, LaunchTries, ConstantsAssumption
  <2> QED BY <2>1, <2>2
<1>4. ASSUME NEW u \in Targets, NEW rc, TransferSucceeds(u, rc) PROVE NotTried(t) \/ Counted(t)
  <2>1. /\ TakeMessage(u, TRUE) /\ state' = [state EXCEPT ![u] = "FINISHED"]
        /\ tried' = [tried EXCEPT ![u] = [tried[u] EXCEPT ![mirror[u]] = @ + 1]]
    BY <1>4 DEF TransferSucceeds
  <2> QED BY <2>1, EndTries
<1>5. ASSUME NEW u \in Targets, NEW mf, CountFailure(u, mf), NEW x \in {"WAITING", "FAILED"},
             state' = [state EXCEPT ![u] = x], x = "WAITING" => Retries(u, mf)
      PROVE  NotTried(t) \/ Counted(t)
  <2>1. TakeMessage(u, FALSE) /\ tried' = [tried EXCEPT ![u] = TriedAfter(u, mf)]
    BY <1>5 DEF CountFailure
  <2>2. \/ TriedAfter(u, mf) = tried[u]
        \/ TriedAfter(u, mf) = [tried[u] EXCEPT ![mirror[u]] = @ + 1]
    BY DEF TriedAfter, IInv, TypeOK
  <2>3. tried'[u] = TriedAfter(u, mf)
    BY <2>1 DEF IInv, TypeOK
  <2>4. x = "WAITING" => CanRetry(u, SumFunction(tried'[u]))
    BY <1>5, <2>3 DEF Retries
  <2>5. \/ tried' = tried
        \/ tried' = [tried EXCEPT ![u] = [tried[u] EXCEPT ![mirror[u]] = @ + 1]]
    BY <2>1, <2>2 DEF IInv, TypeOK
  <2> QED BY <1>5, <2>1, <2>4, <2>5, EndTries
<1>6. ASSUME NEW u \in Targets, NEW mf, NEW rc, TransferIsRetried(u, mf) \/ TransferFails(u, mf, rc)
      PROVE  NotTried(t) \/ Counted(t)
  BY <1>5, <1>6 DEF TransferIsRetried, TransferFails
<1>7. ASSUME NEW u \in Targets, NEW rc, MirrorsExhausted(u, rc) PROVE NotTried(t)
  BY <1>7, QuietTries DEF MirrorsExhausted
<1>8. ASSUME NEW u \in Targets, EmptyMirrorlist(u) \/ ChecksumFails(u) PROVE NotTried(t)
  BY <1>8, QuietTries DEF EmptyMirrorlist, ChecksumFails, targetVars
<1>9. ASSUME NEW u \in Targets, NEW o, CurlFinishes(u, o) PROVE NotTried(t)
  BY <1>9, QuietTries DEF CurlFinishes
<1>10. CASE \/ Enter \/ EndPrepare \/ CurlmFails \/ Sigint \/ PerformReturns \/ EndCheck \/ Cleanup
            \/ UNCHANGED vars
  BY <1>10, QuietTries DEF Enter, EndPrepare, CurlmFails, Sigint, PerformReturns, EndCheck, Cleanup,
                           vars, targetVars
<1> QED BY <1>1, <1>2, <1>3, <1>4, <1>6, <1>7, <1>8, <1>9, <1>10, Zenon
        DEF Next, Prepare, Check, Curl, Terminated

\* The tries left for every target, an invariant.
LEMMA TriesInvariant == Spec => []TInv
<1>1. Init => TInv
  <2> SUFFICES ASSUME Init, NEW t \in Targets
               PROVE  NumTried(t) = 0 /\ TriesLeft(t) /\ TriesWithin(t) /\ FileOnce(t)
    BY DEF TInv
  <2>1. IsFiniteSet(Mirrors \cup {NoMirror})
    BY ConstantsAssumption, FS_AddElement
  <2>2. tried[t] = [m \in Mirrors \cup {NoMirror} |-> 0]
    BY DEF Init
  <2>3. NumTried(t) = 0
    BY <2>1, <2>2, SumOfZeros DEF NumTried
  <2>4. TriesLeft(t) /\ TriesWithin(t)
    BY <2>3, ConstantsAssumption DEF TriesLeft, TriesWithin
  <2>5. FileOnce(t)
    BY <2>2 DEF FileOnce, Init
  <2> QED BY <2>3, <2>4, <2>5
<1>2. IInv /\ TInv /\ [Next]_vars => TInv'
  <2> SUFFICES ASSUME IInv, TInv, [Next]_vars, NEW t \in Targets
               PROVE  /\ NumTried(t)' \in Nat
                      /\ (state[t])' \in {"WAITING", "RUNNING"} => TriesLeft(t)'
                      /\ TriesWithin(t)' /\ FileOnce(t)'
    BY DEF TInv
  <2>1. /\ NumTried(t) \in Nat
        /\ state[t] \in {"WAITING", "RUNNING"} => TriesLeft(t)
        /\ TriesWithin(t) /\ FileOnce(t)
    BY DEF TInv
  <2>2. /\ tried[t] \in [Mirrors \cup {NoMirror} -> Nat]
        /\ mirror[t] \in Mirrors \cup {NoMirror}
    BY DEF IInv, TypeOK
  <2>3. CASE tried'[t] = tried[t]
    <3>1. NumTried(t)' = NumTried(t)
      BY <2>3 DEF NumTried
    <3>2. (TriesLeft(t)' <=> TriesLeft(t)) /\ (TriesWithin(t)' <=> TriesWithin(t))
      BY <3>1 DEF TriesLeft, TriesWithin, UsesMirrors
    <3>3. CASE NotTried(t)
      BY <2>1, <2>3, <3>1, <3>2, <3>3 DEF NotTried, FileOnce
    <3>4. CASE Begun(t)
      <4>1. ASSUME NEW m \in Mirrors, Protocol[m] = "file", mirror'[t] = m
            PROVE  tried[t][m] = 0
        <5>1. PICK k \in Iterations(t) : Suitable(t, m, k)
          BY <3>4, <4>1 DEF Begun
        <5> QED BY <4>1, <5>1, ConstantsAssumption DEF Suitable, Iterations
      <4>2. FileOnce(t)'
        BY <2>1, <2>3, <4>1 DEF FileOnce
      <4> QED BY <2>1, <3>1, <3>2, <3>4, <4>2 DEF Begun
    <3>5. CASE Counted(t)
      <4>1. tried'[t][mirror[t]] = tried[t][mirror[t]] + 1
        BY <2>2, <3>5 DEF Counted
      <4> QED BY <2>2, <2>3, <4>1
    <3> QED BY <3>3, <3>4, <3>5, TrySteps
  <2>4. CASE Counted(t)
    <3>1. NumTried(t)' = NumTried(t) + 1
      BY <2>4, OneTryMore DEF Counted, NumTried
    <3>2. NumTried(t)' \in Nat
      BY <2>1, <3>1
    <3>3. (state[t])' \in {"WAITING", "RUNNING"} => TriesLeft(t)'
      <4> SUFFICES ASSUME CanRetry(t, NumTried(t)') PROVE TriesLeft(t)'
        BY <2>4 DEF Counted
      <4> QED BY <3>2, ConstantsAssumption DEF CanRetry, TriesLeft, UsesMirrors, UrlKinds
    <3>4. FileOnce(t)'
      <4>1. ASSUME NEW m \in Mirrors
            PROVE  tried'[t][m] = IF m = mirror[t] THEN tried[t][m] + 1 ELSE tried[t][m]
        BY <2>2, <2>4 DEF Counted
      <4> QED BY <2>1, <2>2, <2>4, <4>1 DEF FileOnce, Counted
    <3>5. TriesWithin(t)'
      <4>1. TriesLeft(t)
        BY <2>1, <2>4 DEF Counted
      <4> QED BY <2>1, <3>1, <4>1, ConstantsAssumption DEF TriesLeft, TriesWithin, UsesMirrors
    <3> QED BY <3>2, <3>3, <3>4, <3>5
  <2> QED BY <2>3, <2>4, TrySteps DEF NotTried, Begun
<1> QED BY <1>1, <1>2, Invariant, PTL DEF Spec

\* LRO_MAXMIRRORTRIES bounds the mirrors tried for a target, whatever second chances
\* and reuse of mirrors it had.
THEOREM MirrorTryBudgetHolds == Spec => []MirrorTryBudget
<1>1. TInv => MirrorTryBudget
  BY DEF TInv, TriesWithin, MirrorTryBudget
<1> QED BY <1>1, TriesInvariant, PTL

\* LRO_ALLOWEDMIRRORFAILURES bounds the transfers started for a URL, the running one
\* among them, a complete URL of a local file is read once, and a local mirror is not
\* read again for a target once a read of it was counted.
THEOREM UrlTryBudgetHolds == Spec => []UrlTryBudget
<1> DEFINE running(t) == IF state[t] = "RUNNING" THEN 1 ELSE 0
           limit(t) == IF AllowedFailures > 1 /\ UrlKind[t] # "file_url" THEN AllowedFailures ELSE 1
<1>1. IInv /\ TInv => UrlTryBudget
  <2> SUFFICES ASSUME IInv, TInv, NEW t \in Targets
               PROVE  /\ ~UsesMirrors(t) => NumTried(t) + running(t) <= limit(t)
                      /\ \A m \in Mirrors : Protocol[m] = "file" =>
                             tried[t][m] + (IF mirror[t] = m THEN running(t) ELSE 0) <= 1
    BY Zenon DEF UrlTryBudget
  <2>1. /\ NumTried(t) \in Nat
        /\ state[t] = "RUNNING" => TriesLeft(t)
        /\ TriesWithin(t) /\ FileOnce(t)
    BY DEF TInv
  <2>2. tried[t] \in [Mirrors \cup {NoMirror} -> Nat]
    BY DEF IInv, TypeOK
  <2>3. ~UsesMirrors(t) => NumTried(t) + running(t) <= limit(t)
    <3>1. CASE state[t] = "RUNNING"
      BY <2>1, <3>1, ConstantsAssumption DEF TriesLeft
    <3>2. CASE state[t] # "RUNNING"
      BY <2>1, <3>2, ConstantsAssumption DEF TriesWithin
    <3> QED BY <3>1, <3>2
  <2>4. ASSUME NEW m \in Mirrors, Protocol[m] = "file"
        PROVE  tried[t][m] + (IF mirror[t] = m THEN running(t) ELSE 0) <= 1
    <3>1. /\ tried[t][m] \in Nat /\ tried[t][m] <= 1
          /\ state[t] = "RUNNING" /\ mirror[t] = m => tried[t][m] = 0
      BY <2>1, <2>2, <2>4 DEF FileOnce
    <3> QED BY <3>1
  <2> QED BY <2>3, <2>4
<1> QED BY <1>1, TriesInvariant, Invariant, PTL
===============================================================================
