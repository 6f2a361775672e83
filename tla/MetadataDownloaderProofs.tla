----------------------- MODULE MetadataDownloaderProofs -----------------------
(***************************************************************************)
(* Theorems about MetadataDownloader for any number of repositories and    *)
(* handles, any options, records and faults, and any number of calls.      *)
(***************************************************************************)
EXTENDS MetadataDownloader, FiniteSetTheorems, TLAPS

(* What a call changes of the handles and puts back.                       *)

Scoped ==
    /\ handle \in [Targets -> Handles]
    /\ tries \in [Handles -> {1, 3}]
    /\ pc # "lists" => \A h \in Handles : tries[h] = 1
    /\ pc = "lists" => /\ tries[handle[1]] = 3
                       /\ \A h \in Handles : h # handle[1] => tries[h] = 1
    /\ \A h \in Handles : Cardinality(Users(h)) <= 1 =>
          /\ pc = "idle" \/ Users(h) = {} => callbacks[h] = 0
          /\ pc # "idle" => \A t \in Users(h) : backups[t] = 0

(* The files of a repository, and how its callback depends on them.        *)

Mine(t) == {i \in DOMAIN items : i.target = t}
Pend(t) == {i \in Mine(t) : items[i] = "pending"}
Files(t) == IF t \in refused THEN {} ELSE RecordItems(t)
Asked(t) == [target |-> t, what |-> "repomd"] \in DOMAIN items
Done(t) == t \in errs \/ config[handle[t]].fetchmirrors \/ t \in complete

Early == pc \in {"lists", "prepare", "repomd", "process"}
Uncollected(t) == Early \/ (pc = "collect" /\ t >= next)
Collected(t) == pc = "records" \/ (pc = "collect" /\ t < next) \/ (pc = "return" /\ ret = "ok")

Outcomes == {"SUCCESSFUL", "ERROR"}

\* The counters differ by the files to come, and the callback waits for the last.
Tally(t) ==
    /\ Mine(t) = Files(t)
    /\ to_download[t] = downloaded[t] + Cardinality(Pend(t))
    /\ Pend(t) # {} => ends[t] = <<>>
    /\ Pend(t) = {} => Len(ends[t]) = 1
    /\ Pend(t) = {} /\ t \notin errs /\ (\A i \in Mine(t) : items[i] = "ok")
          => ends[t] = <<"SUCCESSFUL">>

CountType ==
    /\ repomd \in [Targets -> SUBSET AllRecords]
    /\ to_download \in [Targets -> Nat] /\ downloaded \in [Targets -> Nat]
    /\ ends \in [Targets -> Seq(Outcomes)]
    /\ pc \in {"collect", "records"} => IsFiniteSet(DOMAIN items)
    /\ \A i \in DOMAIN items : items[i] \in {"pending", "ok", "failed"}

Places == {"idle", "lists", "prepare", "repomd", "process", "collect", "records", "return",
           "aborted"}

Flow == /\ pc \in Places /\ next \in Int /\ calls \in Nat
        /\ pc \notin {"idle", "return"} => ret = "ok"
        /\ pc = "process" => With("pending") = {}

Counting ==
    /\ \A t \in Targets : Len(ends[t]) <= 1
    /\ \A t \in Targets : Uncollected(t) =>
           ends[t] = <<>> /\ to_download[t] = downloaded[t] /\ t \notin refused
    /\ \A t \in Targets : pc = "collect" /\ t >= next => Mine(t) = {}
    /\ \A t \in Targets : Collected(t) => Tally(t)
    /\ pc = "idle" /\ ret = "ok" => \A t \in Targets : to_download[t] = downloaded[t]

Blaming ==
    pc = "return" /\ ret = "ok" =>
        \A i \in DOMAIN items : items[i] = "ok" \/ (items[i] = "failed" /\ i.target \in errs)

Completing ==
    /\ update => \A t \in Targets : Done(t)
    /\ pc = "prepare" => \A t \in Targets : t < next => Done(t) \/ Asked(t)
    /\ pc = "repomd" => \A t \in Targets : Done(t) \/ Asked(t)
    /\ pc = "process" => \A t \in Targets : Done(t) \/ (t >= next /\ Asked(t))
    /\ pc \in {"collect", "records"} => \A t \in Targets : Done(t)
    /\ pc = "return" /\ ret = "ok" => \A t \in Targets : Done(t)
    /\ pc = "idle" /\ calls > 0 /\ ret = "ok" => \A t \in Targets : Done(t)

Reports == CountType /\ Flow /\ Counting /\ Blaming /\ Completing
-------------------------------------------------------------------------------
(* The handles                                                             *)

\* A handle of one repository.
LEMMA LoneUser ==
    ASSUME NEW h \in Handles, Cardinality(Users(h)) <= 1, NEW t \in Users(h)
    PROVE  Users(h) = {t} /\ MaxOf(Users(h)) = t /\ Before(t) = {}
<1>1. IsFiniteSet(Users(h))
  <2>1. IsFiniteSet(Targets)
    BY FS_Interval, MetadataAssumption DEF Targets, MetadataAssumption
  <2>2. Users(h) \subseteq Targets
    BY DEF Users
  <2> QED
    BY <2>1, <2>2, FS_Subset
<1>2. Cardinality(Users(h)) = 1
  BY <1>1, FS_EmptySet, FS_CardinalityType
<1>3. Users(h) = {t}
  BY <1>1, <1>2, FS_Singleton
<1>4. MaxOf({t}) = t
  BY MetadataAssumption DEF MaxOf, Targets, Users, MetadataAssumption
<1>5. Before(t) = {}
  BY <1>3, MetadataAssumption DEF Before, Users, Targets, MetadataAssumption
<1> QED
  BY <1>3, <1>4, <1>5

LEMMA ScopedInit == Init => Scoped
<1> SUFFICES ASSUME Init PROVE Scoped
  OBVIOUS
<1>1. handle[1] \in Handles
  BY MetadataAssumption DEF Init, Targets, MetadataAssumption
<1> QED
  BY <1>1 DEF Init, Scoped

LEMMA ScopedKept ==
    ASSUME Scoped, pc # "lists", pc # "idle", pc' # "lists", pc' # "idle",
           UNCHANGED <<handle, scopeVars>>
    PROVE  Scoped'
BY DEF Scoped, scopeVars, Users

LEMMA CallStartsScoped == Scoped /\ DownloadMetadata => Scoped'
<1> SUFFICES ASSUME Scoped, DownloadMetadata PROVE Scoped'
  OBVIOUS
<1>1. /\ pc = "idle" /\ pc' = "lists" /\ handle' = handle
      /\ backups' = [t \in Targets |-> Saved(t)]
      /\ callbacks' = [h \in Handles |-> IF Users(h) = {} THEN callbacks[h] ELSE MaxOf(Users(h))]
      /\ tries' = [tries EXCEPT ![handle[1]] = @ * 3]
  BY DEF DownloadMetadata, Loop
<1>2. handle[1] \in Handles
  BY MetadataAssumption DEF Scoped, Targets, MetadataAssumption
<1>3. tries[handle[1]] = 1
  BY <1>1, <1>2 DEF Scoped
<1>4. /\ tries' \in [Handles -> {1, 3}] /\ tries'[handle[1]] = 3
      /\ \A h \in Handles : h # handle[1] => tries'[h] = 1
  <2>1. tries' = [tries EXCEPT ![handle[1]] = 3]
    BY <1>1, <1>3
  <2> QED
    BY <1>1, <1>2, <2>1 DEF Scoped
<1>5. ASSUME NEW h \in Handles, Cardinality(Users(h)) <= 1
      PROVE  /\ Users(h) = {} => callbacks'[h] = 0
             /\ \A t \in Users(h) : backups'[t] = 0
  <2>1. Users(h) = {} => callbacks'[h] = 0
    BY <1>1, <1>5 DEF Scoped
  <2>2. ASSUME NEW t \in Users(h) PROVE backups'[t] = 0
    <3>1. Before(t) = {} /\ t \in Targets /\ handle[t] = h
      BY <1>5, LoneUser DEF Users
    <3>2. Saved(t) = callbacks[h]
      BY <3>1 DEF Saved
    <3> QED
      BY <1>1, <1>5, <3>1, <3>2 DEF Scoped
  <2> QED
    BY <2>1, <2>2
<1> QED
  BY <1>1, <1>4, <1>5 DEF Scoped, Users

LEMMA ReturnScoped == Scoped /\ Return => Scoped'
<1> SUFFICES ASSUME Scoped, Return PROVE Scoped'
  OBVIOUS
<1>1. /\ pc = "return" /\ pc' = "idle" /\ UNCHANGED <<handle, tries>>
      /\ callbacks' = [h \in Handles |-> IF Users(h) = {} THEN callbacks[h]
                                        ELSE backups[MaxOf(Users(h))]]
  BY DEF Return, Loop, sourceVars, Restored
<1>2. ASSUME NEW h \in Handles, Cardinality(Users(h)) <= 1 PROVE callbacks'[h] = 0
  <2>1. CASE Users(h) = {}
    BY <1>1, <1>2, <2>1 DEF Scoped
  <2>2. CASE Users(h) # {}
    <3>1. PICK t : t \in Users(h)
      BY <2>2
    <3>2. MaxOf(Users(h)) = t
      BY <1>2, <3>1, LoneUser
    <3> QED
      BY <1>1, <1>2, <2>2, <3>1, <3>2 DEF Scoped
  <2> QED
    BY <2>1, <2>2
<1> QED
  BY <1>1, <1>2 DEF Scoped, Users

\* The end of an lr_download(), which takes the factor back if it was the first one.
LEMMA TriesTakenBack ==
    ASSUME Scoped, Downloading, pc' # "lists", pc' # "idle", tries' = RestoredTries,
           UNCHANGED <<handle, callbacks, backups>>
    PROVE  Scoped'
<1>1. handle[1] \in Handles
  BY MetadataAssumption DEF Scoped, Targets, MetadataAssumption
<1>2. tries' \in [Handles -> {1, 3}] /\ \A h \in Handles : tries'[h] = 1
  BY <1>1 DEF Scoped, RestoredTries
<1>3. pc # "idle"
  BY DEF Downloading
<1> QED
  BY <1>2, <1>3 DEF Scoped, Users

LEMMA FailsScoped == ASSUME Scoped, Downloading, NEW new, Fails(new) PROVE Scoped'
BY TriesTakenBack DEF Fails, Loop, sourceVars

LEMMA ScopedNext == Scoped /\ [Next]_vars => Scoped'
<1> SUFFICES ASSUME Scoped, [Next]_vars PROVE Scoped'
  OBVIOUS
<1>1. CASE DownloadMetadata
  BY <1>1, CallStartsScoped
<1>2. CASE Return
  BY <1>2, ReturnScoped
<1>3. ASSUME NEW i \in DOMAIN items, NEW fate \in {"ok", "failed"}, Decide(i, fate) PROVE Scoped'
  BY <1>3 DEF Decide, Scoped, Users, sourceVars, scopeVars, flowVars
<1>4. ASSUME NEW S \in SUBSET DOMAIN items, FatalError(S) PROVE Scoped'
  BY <1>4, FailsScoped DEF FatalError
<1>5. ASSUME NEW i \in DOMAIN items, NEW fate \in {"ok", "failed"}, NEW S \in SUBSET DOMAIN items,
             CallbackFails(i, fate, S)
      PROVE  Scoped'
  BY <1>5, FailsScoped DEF CallbackFails, Downloading
<1>6. CASE ListsEnd
  BY <1>6, TriesTakenBack DEF ListsEnd, Downloading, Loop, sourceVars
<1>7. ASSUME NEW t \in Targets, Prepare(t) PROVE Scoped'
  BY <1>7, ScopedKept DEF Prepare, sourceVars
<1>8. ASSUME NEW t \in Targets, Process(t) PROVE Scoped'
  BY <1>8, ScopedKept DEF Process, sourceVars
<1>9. ASSUME NEW t \in Targets, Collect(t) PROVE Scoped'
  BY <1>9, ScopedKept DEF Collect, Loop, sourceVars
<1>10. CASE PrepareEnds \/ RepomdEnds \/ ProcessEnds \/ CollectEnds \/ RecordsEnd \/ Aborts
  BY <1>10, ScopedKept DEF Aborts, PrepareEnds, RepomdEnds, ProcessEnds, CollectEnds, RecordsEnd, Loop,
                           sourceVars
<1>11. CASE Finished \/ UNCHANGED vars
  BY <1>11 DEF Finished, Scoped, Users, vars, sourceVars, scopeVars, flowVars
<1> QED
  BY <1>1, <1>2, <1>3, <1>4, <1>5, <1>6, <1>7, <1>8, <1>9, <1>10, <1>11 DEF Next

\* What lr_download_metadata() changes of the handles is what it puts back.
THEOREM ScopeInvariant == Spec => []Scoped
BY ScopedInit, ScopedNext, PTL DEF Spec

\* Between two calls a handle that belongs to one repository has the callbacks of the
\* application, whichever return of lr_download_metadata() the call took.
THEOREM CallbacksRestoredHolds == Spec => []CallbacksRestored
<1>1. Scoped => CallbacksRestored
  BY DEF Scoped, CallbacksRestored
<1> QED
  BY <1>1, ScopeInvariant, PTL

\* LRO_ALLOWEDMIRRORFAILURES is three times as high during the download of the lists,
\* for the first handle, and at no other time, however that download ended.
THEOREM TriesScopedHolds == Spec => []TriesScoped
<1>1. Scoped => TriesScoped
  BY DEF Scoped, TriesScoped
<1> QED
  BY <1>1, ScopeInvariant, PTL
-------------------------------------------------------------------------------
(* The files and the callbacks                                             *)

LEMMA RecordItemsFinite ==
    ASSUME CountType, NEW t \in Targets
    PROVE  IsFiniteSet(RecordItems(t)) /\ \A i \in RecordItems(t) : i.target = t
<1> DEFINE R == repomd[t] \cap wanted
           f == [r \in R |-> [target |-> t, what |-> r]]
<1>1. IsFiniteSet(R)
  <2>1. R \in SUBSET AllRecords
    BY DEF CountType
  <2> QED
    BY <2>1, FS_Subset, MetadataAssumption DEF MetadataAssumption
<1>2. f \in Surjection(R, RecordItems(t))
  BY DEF RecordItems, Surjection
<1> HIDE DEF f
<1> QED
  BY <1>1, <1>2, FS_Surjection DEF RecordItems

LEMMA OneWord ==
    ASSUME NEW s, NEW x, s = <<x>>
    PROVE  Len(s) = 1 /\ Len(s) <= 1
OBVIOUS

LEMMA FirstWord ==
    ASSUME NEW x
    PROVE  Append(<<>>, x) = <<x>>
OBVIOUS

\* The fates of some files that were to come: the callback is called once, with the
\* last of the files of its repository.
LEMMA TellKeeps ==
    ASSUME Reports, pc = "records", NEW new, DOMAIN new \subseteq With("pending"),
           \A i \in DOMAIN new : new[i] \in {"ok", "failed"},
           ends' = EndsOf(new),
           downloaded' = [t \in Targets |->
                downloaded[t] + Cardinality({i \in DOMAIN new : i.target = t})],
           to_download' = to_download, repomd' = repomd, wanted' = wanted, refused' = refused,
           DOMAIN items' = DOMAIN items,
           \A i \in DOMAIN items : items'[i] = IF i \in DOMAIN new THEN new[i] ELSE items[i],
           errs \subseteq errs'
    PROVE  /\ ends' \in [Targets -> Seq(Outcomes)] /\ downloaded' \in [Targets -> Nat]
           /\ \A t \in Targets : Len(ends'[t]) <= 1 /\ Tally(t)'
<1> DEFINE told(t) == {i \in DOMAIN new : i.target = t}
           fate(t) == IF \A i \in told(t) : new[i] = "ok" THEN "SUCCESSFUL" ELSE "ERROR"
<1>1. ends' = [t \in Targets |->
                 IF told(t) # {} /\ downloaded[t] + Cardinality(told(t)) = to_download[t]
                 THEN Append(ends[t], fate(t)) ELSE ends[t]]
  BY DEF EndsOf
<1>2. \A t \in Targets : ends[t] \in Seq(Outcomes) /\ Append(ends[t], fate(t)) \in Seq(Outcomes)
  BY DEF Reports, CountType, Outcomes
<1>3. ASSUME NEW t \in Targets
      PROVE  /\ told(t) \subseteq Pend(t) /\ IsFiniteSet(Pend(t)) /\ IsFiniteSet(told(t))
             /\ Cardinality(told(t)) \in Nat /\ Cardinality(Pend(t)) \in Nat
             /\ Pend(t)' = Pend(t) \ told(t)
             /\ Cardinality(Pend(t)') = Cardinality(Pend(t)) - Cardinality(told(t))
             /\ Cardinality(told(t)) = Cardinality(Pend(t)) <=> told(t) = Pend(t)
  <2>1. told(t) \subseteq Pend(t)
    BY DEF With, Pend, Mine
  <2>2. IsFiniteSet(DOMAIN items) /\ Pend(t) \in SUBSET DOMAIN items
    BY DEF Reports, CountType, Pend, Mine
  <2>3. IsFiniteSet(Pend(t))
    BY <2>2, FS_Subset
  <2>4. /\ IsFiniteSet(told(t))
        /\ Cardinality(Pend(t)) = Cardinality(told(t)) => Pend(t) = told(t)
    BY <2>1, <2>3, FS_Subset
  <2>5. Pend(t)' = Pend(t) \ told(t)
    BY DEF Pend, Mine
  <2>6. Cardinality(Pend(t) \ told(t)) = Cardinality(Pend(t)) - Cardinality(Pend(t) \cap told(t))
    BY <2>3, <2>4, FS_Difference
  <2>7. Pend(t) \cap told(t) = told(t)
    BY <2>1
  <2>8. Cardinality(told(t)) \in Nat /\ Cardinality(Pend(t)) \in Nat
    BY <2>3, <2>4, FS_CardinalityType
  <2> HIDE DEF told
  <2> QED
    BY <2>1, <2>3, <2>4, <2>5, <2>6, <2>7, <2>8
<1>4. ASSUME NEW t \in Targets
      PROVE  /\ Mine(t) = Files(t) /\ to_download[t] = downloaded[t] + Cardinality(Pend(t))
             /\ to_download[t] \in Nat /\ downloaded[t] \in Nat
             /\ Pend(t) # {} => ends[t] = <<>>
             /\ Pend(t) = {} => Len(ends[t]) = 1
             /\ Pend(t) = {} /\ t \notin errs /\ (\A i \in Mine(t) : items[i] = "ok")
                   => ends[t] = <<"SUCCESSFUL">>
  BY DEF Reports, CountType, Counting, Collected, Tally
<1>5. downloaded' \in [Targets -> Nat]
  BY <1>3, <1>4
<1>6. ASSUME NEW t \in Targets PROVE Len(ends'[t]) <= 1 /\ Tally(t)'
  <2>1. Mine(t)' = Mine(t) /\ Files(t)' = Files(t)
    BY DEF Mine, Files, RecordItems
  <2>2. downloaded'[t] = downloaded[t] + Cardinality(told(t))
    OBVIOUS
  <2>3. to_download'[t] = downloaded'[t] + Cardinality(Pend(t)')
    BY <1>3, <1>4, <2>2
  <2> HIDE DEF told
  <2>4. CASE told(t) = {}
    <3>1. ends'[t] = ends[t] /\ Pend(t)' = Pend(t)
      BY <1>1, <1>3, <2>4
    <3>2. \A i \in Mine(t) : items'[i] = items[i]
      BY <2>4 DEF Mine, told
    <3>3. Len(ends[t]) <= 1
      BY DEF Reports, Counting
    <3> QED
      BY <1>4, <2>1, <2>3, <3>1, <3>2, <3>3 DEF Tally
  <2>5. CASE told(t) # {} /\ told(t) # Pend(t)
    <3>0. Cardinality(told(t)) # Cardinality(Pend(t))
      BY <1>3, <2>5
    <3>1. ends'[t] = ends[t]
      <4>1. downloaded[t] + Cardinality(told(t)) # to_download[t]
        BY <1>3, <1>4, <3>0
      <4> QED
        BY <1>1, <4>1
    <3>3. Pend(t)' # {} /\ Pend(t) # {}
      BY <1>3, <2>5
    <3>2. Len(ends[t]) <= 1
      BY DEF Reports, Counting
    <3> QED
      BY <1>4, <2>1, <2>3, <3>1, <3>2, <3>3 DEF Tally
  <2>6. CASE told(t) # {} /\ told(t) = Pend(t)
    <3>1. Pend(t)' = {} /\ ends[t] = <<>>
      BY <1>3, <1>4, <2>6
    <3>2. ends'[t] = Append(ends[t], fate(t))
      BY <1>1, <1>3, <1>4, <2>6
    <3>3. ends'[t] = <<fate(t)>>
      BY <3>1, <3>2, FirstWord
    <3>4. Len(ends'[t]) = 1 /\ Len(ends'[t]) <= 1
      BY <3>3, OneWord
    <3>5. (\A i \in Mine(t) : items'[i] = "ok") => fate(t) = "SUCCESSFUL"
      <4>1. \A i \in told(t) : i \in Mine(t) /\ items'[i] = new[i]
        BY <1>3 DEF told, Pend, Mine
      <4> QED
        BY <4>1
    <3>6. (\A i \in Mine(t)' : items'[i] = "ok") => ends'[t] = <<"SUCCESSFUL">>
      BY <2>1, <3>3, <3>5
    <3>7. Mine(t)' = Files(t)'
      BY <1>4, <2>1
    <3> HIDE DEF fate
    <3> QED
      BY <2>3, <3>1, <3>4, <3>6, <3>7 DEF Tally
  <2> QED
    BY <2>4, <2>5, <2>6
<1>7. ends' \in [Targets -> Seq(Outcomes)]
  <2> HIDE DEF told, fate
  <2> QED
    BY <1>1, <1>2
<1> QED
  BY ONLY <1>5, <1>6, <1>7

LEMMA ReportsInit == Init => Reports
<1> SUFFICES ASSUME Init PROVE Reports
  OBVIOUS
<1>1. \A t \in Targets : ends[t] = <<>> /\ to_download[t] = 0 /\ downloaded[t] = 0
  BY DEF Init, Each
<1>2. CountType
  BY DEF Init, Each, Nothing, CountType, Outcomes
<1>3. Flow /\ Blaming /\ Completing
  BY DEF Init, Flow, Blaming, Completing, Places
<1>4. Counting
  BY <1>1 DEF Init, Counting, Uncollected, Collected, Early
<1> QED
  BY <1>2, <1>3, <1>4 DEF Reports

\* What a repository has is kept, whatever the others get.
LEMMA DoneKept ==
    ASSUME UNCHANGED <<handle, config>>, errs \subseteq errs', complete \subseteq complete', NEW t,
           Done(t)
    PROVE  Done(t)'
BY DEF Done

LEMMA CallStartsReports == Reports /\ DownloadMetadata => Reports'
<1> SUFFICES ASSUME Reports, DownloadMetadata PROVE Reports'
  OBVIOUS
<1>1. /\ pc = "idle" /\ ret = "ok" /\ pc' = "lists" /\ ret' = ret /\ next' = 1
      /\ calls' = calls + 1 /\ calls \in Nat
      /\ items' = [i \in ListItems |-> "pending"] /\ ends' = Each(<<>>) /\ refused' = {}
      /\ UNCHANGED <<handle, config, errs, repomd, complete, to_download, downloaded>>
  BY DEF DownloadMetadata, Loop, repoVars, Reports, Flow
<1>2. \A t \in Targets : ends'[t] = <<>> /\ to_download'[t] = downloaded'[t]
  BY <1>1 DEF Each, Reports, Counting
<1>3. ends' \in [Targets -> Seq(Outcomes)]
  BY <1>1 DEF Each
<1>4. CountType'
  BY <1>1, <1>3 DEF Reports, CountType
<1>5. Counting'
  BY <1>1, <1>2 DEF Counting, Uncollected, Collected, Early
<1>6. update' => \A t \in Targets : Done(t)
  <2>1. CASE calls = 0
    BY <2>1 DEF DownloadMetadata, Reports, Completing
  <2>2. CASE calls > 0
    BY <1>1, <2>2 DEF Reports, Completing
  <2> QED
    BY <1>1, <2>1, <2>2
<1>7. Completing' /\ Blaming' /\ Flow'
  BY <1>1, <1>6 DEF Completing, Blaming, Flow, Done, Places
<1> QED
  BY <1>4, <1>5, <1>7 DEF Reports

LEMMA ReturnReports == Reports /\ Return => Reports'
<1> SUFFICES ASSUME Reports, Return PROVE Reports'
  OBVIOUS
<1>1. /\ pc = "return" /\ pc' = "idle" /\ next' = 1 /\ items' = Nothing
      /\ UNCHANGED <<handle, config, update, wanted, errs, repomd, complete, to_download,
                     downloaded, ends, refused, ret, calls>>
  BY DEF Return, Loop, sourceVars, repoVars, countVars
<1>2. CountType' /\ Flow' /\ Blaming'
  BY <1>1 DEF Reports, CountType, Flow, Blaming, Nothing, Places
<1>3. Completing'
  BY <1>1 DEF Reports, Completing, Done
<1>4. ASSUME ret = "ok", NEW t \in Targets PROVE to_download[t] = downloaded[t]
  <2>1. Tally(t) /\ Pend(t) = {}
    BY <1>1, <1>4 DEF Reports, Counting, Collected, Blaming, Pend, Mine
  <2> QED
    BY <2>1, FS_EmptySet DEF Tally, Reports, CountType
<1>5. Counting'
  BY <1>1, <1>4 DEF Reports, Counting, Uncollected, Collected, Early
<1> QED
  BY <1>2, <1>3, <1>5 DEF Reports

LEMMA DecideReports ==
    ASSUME Reports, NEW i \in DOMAIN items, NEW fate \in {"ok", "failed"}, Decide(i, fate)
    PROVE  Reports'
<1> DEFINE new == [j \in {i} |-> fate]
<1>1. /\ Downloading /\ i \in With("pending") /\ items' = Updated(new)
      /\ Told(new)
      /\ UNCHANGED <<handle, config, update, wanted, errs, repomd, complete, refused, ret, calls,
                     next, pc>>
  BY DEF Decide, Told, countVars, sourceVars, repoVars, flowVars
<1>2. DOMAIN new = {i} /\ new[i] = fate
  OBVIOUS
<1>3. /\ DOMAIN items' = DOMAIN items
      /\ \A j \in DOMAIN items : items'[j] = IF j \in DOMAIN new THEN new[j] ELSE items[j]
  BY <1>1, <1>2 DEF Updated
<1>4. Flow' /\ Completing' /\ Blaming'
  BY <1>1, <1>3 DEF Reports, Flow, Completing, Blaming, Downloading, Done, Asked, With
<1>5. CASE pc = "records"
  <2>1. /\ ends' = EndsOf(new) /\ to_download' = to_download
        /\ downloaded' = [t \in Targets |->
               downloaded[t] + Cardinality({j \in DOMAIN new : j.target = t})]
    BY <1>1, <1>5 DEF Told
  <2> HIDE DEF new
  <2>2. /\ ends' \in [Targets -> Seq(Outcomes)] /\ downloaded' \in [Targets -> Nat]
        /\ \A t \in Targets : Len(ends'[t]) <= 1 /\ Tally(t)'
    BY <1>1, <1>2, <1>3, <1>5, <2>1, TellKeeps
  <2>3. CountType'
    BY <1>1, <1>2, <1>3, <2>1, <2>2 DEF Reports, CountType
  <2>4. Counting'
    BY <1>1, <1>5, <2>2 DEF Counting, Uncollected, Collected, Early
  <2> QED
    BY <1>4, <2>3, <2>4 DEF Reports
<1>6. CASE pc # "records"
  <2>1. UNCHANGED countVars
    BY <1>1, <1>6 DEF Told
  <2>2. CountType' /\ Counting'
    BY <1>1, <1>2, <1>3, <1>6, <2>1 DEF Reports, CountType, Counting, Uncollected, Collected, Early,
                                   Downloading, countVars
  <2> QED
    BY <1>4, <2>2 DEF Reports
<1> QED
  BY <1>5, <1>6

\* A call that fails leaves every callback called at most once.
LEMMA FailsReports ==
    ASSUME Reports, Downloading, NEW new, DOMAIN new \subseteq With("pending"),
           \A i \in DOMAIN new : new[i] \in {"ok", "failed"}, Fails(new)
    PROVE  Reports'
<1>1. /\ items' = Updated(new) /\ Told(new) /\ errs \subseteq errs'
      /\ pc' = "return" /\ ret' = "error" /\ next' = 1
      /\ UNCHANGED <<handle, config, update, wanted, repomd, complete, refused, calls>>
  BY DEF Fails, Told, countVars, Loop, Blamed, sourceVars
<1>2. /\ DOMAIN items' = DOMAIN items
      /\ \A j \in DOMAIN items : items'[j] = IF j \in DOMAIN new THEN new[j] ELSE items[j]
  BY <1>1 DEF Updated, With
<1>3. Flow' /\ Blaming'
  BY <1>1 DEF Reports, Flow, Blaming, Places
<1>4. Completing'
  BY <1>1 DEF Reports, Completing, Done
<1>5. /\ ends' \in [Targets -> Seq(Outcomes)] /\ downloaded' \in [Targets -> Nat]
      /\ to_download' = to_download
      /\ \A t \in Targets : Len(ends'[t]) <= 1
  <2>1. CASE pc = "records"
    <3>1. /\ ends' = EndsOf(new) /\ to_download' = to_download
          /\ downloaded' = [t \in Targets |->
                 downloaded[t] + Cardinality({j \in DOMAIN new : j.target = t})]
      BY <1>1, <2>1 DEF Told
    <3> QED
      BY <1>1, <1>2, <2>1, <3>1, TellKeeps
  <2>2. CASE pc # "records"
    BY <1>1, <2>2 DEF Told, countVars, Reports, CountType, Counting
  <2> QED
    BY <2>1, <2>2
<1>6. CountType'
  BY <1>1, <1>2, <1>5 DEF Reports, CountType
<1>7. Counting'
  BY <1>1, <1>5 DEF Counting, Uncollected, Collected, Early
<1> QED
  BY <1>3, <1>4, <1>6, <1>7 DEF Reports

LEMMA ListsEndReports == Reports /\ ListsEnd => Reports'
<1> SUFFICES ASSUME Reports, ListsEnd PROVE Reports'
  OBVIOUS
<1>1. /\ pc = "lists" /\ pc' = "prepare" /\ next' = 1 /\ ret' = "ok" /\ items' = Nothing
      /\ errs \subseteq errs'
      /\ UNCHANGED <<handle, config, update, wanted, repomd, complete, to_download, downloaded,
                     ends, refused, calls>>
  BY DEF ListsEnd, Loop, Blamed, sourceVars, countVars
<1>2. CountType' /\ Flow' /\ Blaming'
  BY <1>1 DEF Reports, CountType, Flow, Blaming, Nothing, Places
<1>3. Completing'
  BY <1>1, MetadataAssumption DEF Reports, Completing, Done, Targets, MetadataAssumption
<1>4. Counting'
  BY <1>1 DEF Reports, Counting, Uncollected, Collected, Early
<1> QED
  BY <1>2, <1>3, <1>4 DEF Reports

LEMMA PrepareReports == ASSUME Reports, NEW t \in Targets, Prepare(t) PROVE Reports'
<1> DEFINE mine == [target |-> t, what |-> "repomd"]
<1>1. /\ pc = "prepare" /\ pc' = pc /\ next = t /\ next' = t + 1 /\ errs \subseteq errs'
      /\ UNCHANGED <<handle, config, update, wanted, repomd, complete, to_download, downloaded,
                     ends, refused, ret, calls>>
  BY DEF Prepare, sourceVars, countVars
<1>2. \/ items' = items /\ Done(t)'
      \/ items' = Updated([i \in {mine} |-> "pending"])
  BY <1>1 DEF Prepare, Done, Reports, Completing
<1>3. /\ DOMAIN items \subseteq DOMAIN items'
      /\ Done(t)' \/ Asked(t)'
      /\ \A i \in DOMAIN items' : items'[i] \in {"pending", "ok", "failed"}
  BY <1>2 DEF Updated, Asked, Reports, CountType
<1>4. CountType' /\ Flow' /\ Blaming'
  BY <1>1, <1>3 DEF Reports, CountType, Flow, Blaming, Targets, Places
<1>5. Counting'
  BY <1>1 DEF Reports, Counting, Uncollected, Collected, Early
<1>6. ASSUME NEW u \in Targets, u < next' PROVE Done(u)' \/ Asked(u)'
  <2>1. u = t \/ u < next
    BY <1>1, <1>6, MetadataAssumption DEF Targets, MetadataAssumption
  <2>2. CASE u < next
    <3>1. Done(u) \/ Asked(u)
      BY <1>1, <2>2 DEF Reports, Completing
    <3>2. Asked(u) => Asked(u)'
      BY <1>3 DEF Asked
    <3> QED
      BY <1>1, <3>1, <3>2, DoneKept
  <2> QED
    BY <1>3, <2>1, <2>2
<1>7. Completing'
  BY <1>1, <1>6, DoneKept DEF Reports, Completing
<1> QED
  BY <1>4, <1>5, <1>7 DEF Reports

LEMMA ProcessReports == ASSUME Reports, NEW t \in Targets, Process(t) PROVE Reports'
<1>1. /\ pc = "process" /\ pc' = pc /\ next = t /\ next' = t + 1
      /\ errs \subseteq errs' /\ complete \subseteq complete'
      /\ UNCHANGED <<handle, config, update, wanted, items, to_download, downloaded, ends,
                     refused, ret, calls>>
  BY DEF Process, sourceVars, countVars, repoVars
<1>2. repomd' \in [Targets -> SUBSET AllRecords]
  BY DEF Process, repoVars, Reports, CountType
<1>3. Done(t)'
  <2>1. \A i \in DOMAIN items : i \in With("ok") \/ i \in With("failed")
    BY <1>1 DEF Reports, CountType, Flow, With
  <2>2. Done(t) \/ Asked(t)
    BY <1>1 DEF Reports, Completing
  <2>3. CASE Done(t)
    BY <1>1, <2>3, DoneKept
  <2>4. CASE Asked(t)
    BY <2>1, <2>4 DEF Process, Asked, Done
  <2> QED
    BY <2>2, <2>3, <2>4
<1>4. CountType' /\ Flow' /\ Blaming'
  BY <1>1, <1>2 DEF Reports, CountType, Flow, Blaming, Targets, Places, With
<1>5. Counting'
  BY <1>1 DEF Reports, Counting, Uncollected, Collected, Early
<1>6. ASSUME NEW u \in Targets PROVE Done(u)' \/ (u >= next' /\ Asked(u)')
  <2>1. u = t \/ Done(u) \/ (u >= next' /\ Asked(u))
    BY <1>1, MetadataAssumption DEF Reports, Completing, Targets, MetadataAssumption
  <2> QED
    BY <1>1, <1>3, <2>1, DoneKept DEF Asked
<1>7. Completing'
  BY <1>1, <1>6, DoneKept DEF Reports, Completing
<1> QED
  BY <1>4, <1>5, <1>7 DEF Reports

\* A repository with files gets its counter, one without is at its end.
LEMMA CollectReports == ASSUME Reports, NEW t \in Targets, Collect(t) PROVE Reports'
<1>1. /\ pc = "collect" /\ next = t
      /\ UNCHANGED <<handle, config, update, wanted, errs, repomd, complete, downloaded, calls>>
  BY DEF Collect, sourceVars, repoVars
<1>2. /\ ends[t] = <<>> /\ to_download[t] = downloaded[t] /\ Mine(t) = {} /\ t \notin refused
      /\ to_download[t] \in Nat /\ t \in Int /\ ret = "ok"
  BY <1>1, MetadataAssumption DEF Reports, Counting, Uncollected, CountType, Flow, Targets, MetadataAssumption
<1>3. IsFiniteSet(RecordItems(t)) /\ \A i \in RecordItems(t) : i.target = t
  BY RecordItemsFinite DEF Reports
<1>4. \A u \in Targets : u < next' /\ pc' = "collect" => u = t \/ u < next
  BY <1>1, <1>2, MetadataAssumption DEF Collect, Loop, Targets, MetadataAssumption
<1>5. CASE /\ RecordItems(t) # {}
           /\ items' = Updated([i \in RecordItems(t) |-> "pending"])
           /\ to_download' = [to_download EXCEPT ![t] = @ + Cardinality(RecordItems(t))]
           /\ next' = t + 1 /\ UNCHANGED <<ends, refused, ret, pc>>
  <2>1. /\ items' = Updated([i \in RecordItems(t) |-> "pending"])
        /\ to_download' = [to_download EXCEPT ![t] = @ + Cardinality(RecordItems(t))]
        /\ next' = t + 1 /\ UNCHANGED <<ends, refused, ret, pc>> /\ t \notin refused
    BY <1>2, <1>5
  <2>2. /\ DOMAIN items' = DOMAIN items \cup RecordItems(t)
        /\ \A i \in DOMAIN items' : items'[i] = IF i \in RecordItems(t) THEN "pending" ELSE items[i]
    BY <2>1 DEF Updated
  <2>3. Cardinality(RecordItems(t)) \in Nat
    BY <1>3, FS_CardinalityType
  <2>4. IsFiniteSet(DOMAIN items')
    <3>1. IsFiniteSet(DOMAIN items)
      BY <1>1 DEF Reports, CountType
    <3> QED
      BY <1>3, <2>2, <3>1, FS_Union
  <2>5. CountType'
    <3>1. to_download' \in [Targets -> Nat]
      BY <1>2, <2>1, <2>3 DEF Reports, CountType
    <3>2. \A i \in DOMAIN items' : items'[i] \in {"pending", "ok", "failed"}
      BY <2>2 DEF Reports, CountType
    <3> QED
      BY <1>1, <2>1, <2>4, <3>1, <3>2 DEF Reports, CountType
  <2>6. Mine(t)' = RecordItems(t) /\ Pend(t)' = RecordItems(t) /\ Files(t)' = RecordItems(t)
    BY <1>1, <1>2, <1>3, <2>1, <2>2 DEF Mine, Pend, Files, RecordItems
  <2>7. to_download'[t] = downloaded[t] + Cardinality(RecordItems(t))
    BY <1>2, <2>1 DEF Reports, CountType
  <2>8. Tally(t)'
    BY <1>1, <1>2, <1>5, <2>1, <2>6, <2>7 DEF Tally
  <2>9. ASSUME NEW u \in Targets, u # t
        PROVE  /\ Mine(u)' = Mine(u) /\ Pend(u)' = Pend(u) /\ Files(u)' = Files(u)
               /\ to_download'[u] = to_download[u] /\ \A i \in Mine(u) : items'[i] = items[i]
    <3>1. \A i \in DOMAIN items' : i.target = u <=> i \in Mine(u)
      BY <1>3, <2>2, <2>9 DEF Mine
    <3>2. Mine(u)' = Mine(u)
      BY <2>2, <3>1 DEF Mine
    <3>3. \A i \in Mine(u) : items'[i] = items[i]
      BY <1>3, <2>2, <2>9 DEF Mine
    <3>4. Pend(u)' = Pend(u)
      BY <3>2, <3>3 DEF Pend
    <3>5. Files(u)' = Files(u)
      BY <1>1, <2>1 DEF Files, RecordItems
    <3>6. to_download'[u] = to_download[u]
      BY <2>1, <2>9 DEF Reports, CountType
    <3> QED
      BY <3>2, <3>3, <3>4, <3>5, <3>6
  <2>10. \A u \in Targets : u # t /\ Tally(u) => Tally(u)'
    BY <1>1, <2>1, <2>9 DEF Tally
  <2>11. Counting'
    <3>1. \A u \in Targets : Len(ends'[u]) <= 1
      BY <2>1 DEF Reports, Counting
    <3>2. ASSUME NEW u \in Targets, u >= next' PROVE u # t /\ u >= next
      BY <1>1, <1>2, <2>1, <3>2, MetadataAssumption DEF Targets, MetadataAssumption
    <3>3. \A u \in Targets : u >= next' =>
             ends'[u] = <<>> /\ to_download'[u] = downloaded'[u] /\ Mine(u)' = {} /\ u \notin refused'
      BY <1>1, <2>1, <2>9, <3>2 DEF Reports, Counting, Uncollected
    <3>4. \A u \in Targets : u < next' => Tally(u)'
      BY <1>1, <1>4, <2>1, <2>8, <2>10 DEF Reports, Counting, Collected
    <3> QED
      BY <1>1, <2>1, <3>1, <3>3, <3>4 DEF Counting, Uncollected, Collected, Early
  <2>12. Flow' /\ Blaming' /\ Completing'
    BY <1>1, <1>2, <2>1 DEF Reports, Flow, Blaming, Completing, Done
  <2> QED
    BY <2>5, <2>11, <2>12 DEF Reports
<1>6. CASE /\ \/ RecordItems(t) = {} /\ UNCHANGED refused
              \/ RecordItems(t) # {} /\ refused' = refused \cup {t}
           /\ ends' = [ends EXCEPT ![t] =
                         Append(@, IF t \notin errs THEN "SUCCESSFUL" ELSE "ERROR")]
           /\ UNCHANGED <<items, to_download>>
           /\ \/ next' = t + 1 /\ UNCHANGED <<ret, pc>>
              \/ ret' = "error" /\ pc' = "return" /\ next' = 1
  <2> DEFINE word == IF t \notin errs THEN "SUCCESSFUL" ELSE "ERROR"
  <2>1. /\ ends' = [ends EXCEPT ![t] = Append(@, word)]
        /\ UNCHANGED <<items, to_download>>
        /\ \/ next' = t + 1 /\ UNCHANGED <<ret, pc>>
           \/ ret' = "error" /\ pc' = "return" /\ next' = 1
        /\ \A u \in Targets : u # t => (u \in refused' <=> u \in refused)
    BY <1>6
  <2>2. ends'[t] = <<word>>
    BY <1>2, <2>1, FirstWord DEF Reports, CountType
  <2>3. Len(ends'[t]) = 1 /\ Len(ends'[t]) <= 1
    BY <2>2, OneWord
  <2>4. ends' \in [Targets -> Seq(Outcomes)]
    <3>1. <<word>> \in Seq(Outcomes)
      BY DEF Outcomes
    <3>2. ends' = [ends EXCEPT ![t] = <<word>>]
      BY <1>2, <2>1, FirstWord
    <3> QED
      BY <3>1, <3>2 DEF Reports, CountType
  <2>5. CountType'
    BY <1>1, <2>1, <2>4 DEF Reports, CountType
  <2>6. \A u \in Targets : u # t => ends'[u] = ends[u]
    BY <2>1 DEF Reports, CountType
  <2>7. t \notin errs => ends'[t] = <<"SUCCESSFUL">>
    BY <2>2
  <2> HIDE DEF word
  <2>8. Mine(t)' = {} /\ Pend(t)' = {} /\ Files(t)' = {}
    BY <1>1, <1>2, <1>6, <2>1 DEF Mine, Pend, Files, RecordItems
  <2>9. Tally(t)'
    BY <1>1, <1>2, <2>1, <2>3, <2>7, <2>8, FS_EmptySet DEF Tally
  <2>10. \A u \in Targets : u # t /\ Tally(u) => Tally(u)'
    BY <1>1, <2>1, <2>6 DEF Tally, Mine, Pend, Files, RecordItems
  <2>11. \A u \in Targets : Len(ends'[u]) <= 1
    BY <2>3, <2>6 DEF Reports, Counting
  <2>12. CASE next' = t + 1 /\ UNCHANGED <<ret, pc>>
    <3>2. ASSUME NEW u \in Targets, u >= next' PROVE u # t /\ u >= next
      BY <1>1, <1>2, <2>12, <3>2, MetadataAssumption DEF Targets, MetadataAssumption
    <3>3. \A u \in Targets : u >= next' =>
             ends'[u] = <<>> /\ to_download'[u] = downloaded'[u] /\ Mine(u)' = {} /\ u \notin refused'
      BY <1>1, <2>1, <2>6, <3>2 DEF Reports, Counting, Uncollected, Mine
    <3>4. \A u \in Targets : u < next' => Tally(u)'
      BY <1>1, <1>4, <2>9, <2>10, <2>12 DEF Reports, Counting, Collected
    <3>5. Counting'
      BY <1>1, <2>11, <2>12, <3>3, <3>4 DEF Counting, Uncollected, Collected, Early
    <3>6. Flow' /\ Blaming' /\ Completing'
      BY <1>1, <1>2, <2>12 DEF Reports, Flow, Blaming, Completing, Done
    <3> QED
      BY <2>5, <3>5, <3>6 DEF Reports
  <2>13. CASE ret' = "error" /\ pc' = "return" /\ next' = 1
    BY <1>1, <2>5, <2>11, <2>13 DEF Reports, Counting, Uncollected, Collected, Early, Flow, Blaming,
                                   Completing, Done, Places
  <2> QED
    BY <2>1, <2>12, <2>13
<1> QED
  BY <1>5, <1>6 DEF Collect, Loop

LEMMA LoopEndsReports ==
    ASSUME Reports, PrepareEnds \/ RepomdEnds \/ ProcessEnds \/ CollectEnds
    PROVE  Reports'
<1>1. /\ UNCHANGED <<handle, config, update, wanted, errs, repomd, complete, to_download, downloaded,
                     ends, refused, ret, calls>>
      /\ next' = 1
  BY DEF PrepareEnds, RepomdEnds, ProcessEnds, CollectEnds, Loop, sourceVars, repoVars, countVars
<1>2. CASE PrepareEnds
  <2>1. /\ pc = "prepare" /\ pc' = "repomd" /\ items' = items
        /\ \A t \in Targets : t < next
    BY <1>2, MetadataAssumption DEF PrepareEnds, Loop, Targets, Reports, Flow, MetadataAssumption
  <2> QED
    BY <1>1, <2>1 DEF Reports, CountType, Flow, Counting, Blaming, Completing, Uncollected, Collected,
                      Early, Done, Asked, Places
<1>3. CASE RepomdEnds
  <2>1. /\ pc = "repomd" /\ pc' = "process" /\ items' = items /\ With("pending") = {}
        /\ \A t \in Targets : t >= 1
    BY <1>3, MetadataAssumption DEF RepomdEnds, Loop, Targets, MetadataAssumption
  <2> QED
    BY <1>1, <2>1 DEF Reports, CountType, Flow, Counting, Blaming, Completing, Uncollected, Collected,
                      Early, Done, Asked, Places, With
<1>4. CASE ProcessEnds
  <2>1. /\ pc = "process" /\ pc' = "collect" /\ DOMAIN items' = {}
        /\ \A t \in Targets : t < next /\ ~(t >= next) /\ ~(t < 1)
    BY <1>4, MetadataAssumption DEF ProcessEnds, Loop, Nothing, Targets, Reports, Flow, MetadataAssumption
  <2>2. \A t \in Targets : Mine(t)' = {}
    BY <2>1 DEF Mine
  <2>3. Completing'
    BY <1>1, <2>1 DEF Reports, Completing, Done
  <2>4. CountType' /\ Flow' /\ Blaming'
    BY <1>1, <2>1, FS_EmptySet DEF Reports, CountType, Flow, Blaming, Places
  <2>5. Counting'
    BY <1>1, <2>1, <2>2 DEF Reports, Counting, Uncollected, Collected, Early
  <2> QED
    BY <2>3, <2>4, <2>5 DEF Reports
<1>5. CASE CollectEnds
  <2>1. /\ pc = "collect" /\ pc' = "records" /\ items' = items
        /\ \A t \in Targets : t < next
    BY <1>5, MetadataAssumption DEF CollectEnds, Loop, Targets, Reports, Flow, MetadataAssumption
  <2>2. ASSUME NEW t \in Targets PROVE Tally(t)'
    <3>1. Mine(t)' = Mine(t) /\ Pend(t)' = Pend(t) /\ Files(t)' = Files(t)
      BY <1>1, <2>1 DEF Mine, Pend, Files, RecordItems
    <3>2. Tally(t)
      BY <2>1 DEF Reports, Counting, Collected
    <3> QED
      BY <1>1, <2>1, <3>1, <3>2 DEF Tally
  <2>3. Counting'
    BY <1>1, <2>1, <2>2 DEF Reports, Counting, Uncollected, Collected, Early
  <2>4. CountType' /\ Flow' /\ Blaming' /\ Completing'
    BY <1>1, <2>1 DEF Reports, CountType, Flow, Blaming, Completing, Done, Places
  <2> QED
    BY <2>3, <2>4 DEF Reports
<1> QED
  BY <1>2, <1>3, <1>4, <1>5

LEMMA AbortsReports == Reports /\ Aborts => Reports'
<1> SUFFICES ASSUME Reports, Aborts PROVE Reports'
  OBVIOUS
<1>1. /\ pc = "collect" /\ pc' = "aborted" /\ next' = 1
      /\ UNCHANGED <<handle, config, update, wanted, items, errs, repomd, complete, to_download,
                     downloaded, ends, refused, ret, calls>>
  BY DEF Aborts, Loop, sourceVars, repoVars, countVars
<1>2. CountType' /\ Flow' /\ Blaming' /\ Completing'
  BY <1>1 DEF Reports, CountType, Flow, Blaming, Completing, Done, Places
<1>3. Counting'
  BY <1>1 DEF Reports, Counting, Uncollected, Collected, Early
<1> QED
  BY <1>2, <1>3 DEF Reports

LEMMA RecordsEndReports == Reports /\ RecordsEnd => Reports'
<1> SUFFICES ASSUME Reports, RecordsEnd PROVE Reports'
  OBVIOUS
<1>1. /\ pc = "records" /\ With("pending") = {} /\ pc' = "return" /\ next' = 1 /\ ret' \in {"ok", "error"}
      /\ errs' = errs \cup {i.target : i \in With("failed")}
      /\ UNCHANGED <<handle, config, update, wanted, items, repomd, complete, to_download, downloaded,
                     ends, refused, calls>>
  BY DEF RecordsEnd, Loop, Blamed, sourceVars, countVars
<1>2. CountType' /\ Flow'
  BY <1>1 DEF Reports, CountType, Flow, Places
<1>3. Blaming'
  BY <1>1 DEF Reports, CountType, Blaming, With
<1>4. Completing'
  BY <1>1 DEF Reports, Completing, Done
<1>5. \A t \in Targets : Tally(t)'
  BY <1>1 DEF Reports, Counting, Collected, Tally, Mine, Pend, Files, RecordItems
<1>6. Counting'
  BY <1>1, <1>5 DEF Reports, Counting, Uncollected, Collected, Early
<1> QED
  BY <1>2, <1>3, <1>4, <1>6 DEF Reports

LEMMA ReportsNext == Reports /\ [Next]_vars => Reports'
<1> SUFFICES ASSUME Reports, [Next]_vars PROVE Reports'
  OBVIOUS
<1>1. CASE DownloadMetadata
  BY <1>1, CallStartsReports
<1>2. CASE Return
  BY <1>2, ReturnReports
<1>3. ASSUME NEW i \in DOMAIN items, NEW fate \in {"ok", "failed"}, Decide(i, fate) PROVE Reports'
  BY <1>3, DecideReports
<1>4. ASSUME NEW S \in SUBSET DOMAIN items, FatalError(S) PROVE Reports'
  <2> DEFINE new == [i \in S |-> "failed"]
  <2>1. Downloading /\ S \subseteq With("pending") /\ Fails(new)
    BY <1>4 DEF FatalError
  <2>2. DOMAIN new \subseteq With("pending") /\ \A i \in DOMAIN new : new[i] \in {"ok", "failed"}
    BY <2>1
  <2> HIDE DEF new
  <2> QED
    BY <2>1, <2>2, FailsReports
<1>5. ASSUME NEW i \in DOMAIN items, NEW fate \in {"ok", "failed"}, NEW S \in SUBSET DOMAIN items,
             CallbackFails(i, fate, S)
      PROVE  Reports'
  <2> DEFINE new == [j \in {i} \cup S |-> IF j = i THEN fate ELSE "failed"]
  <2>1. Downloading /\ {i} \cup S \subseteq With("pending") /\ Fails(new)
    BY <1>5 DEF CallbackFails, Downloading
  <2>2. DOMAIN new \subseteq With("pending") /\ \A j \in DOMAIN new : new[j] \in {"ok", "failed"}
    BY <2>1
  <2> HIDE DEF new
  <2> QED
    BY <2>1, <2>2, FailsReports
<1>6. CASE ListsEnd
  BY <1>6, ListsEndReports
<1>7. ASSUME NEW t \in Targets, Prepare(t) \/ Process(t) \/ Collect(t) PROVE Reports'
  BY <1>7, PrepareReports, ProcessReports, CollectReports
<1>8. CASE PrepareEnds \/ RepomdEnds \/ ProcessEnds \/ CollectEnds \/ Aborts
  BY <1>8, LoopEndsReports, AbortsReports
<1>9. CASE RecordsEnd
  BY <1>9, RecordsEndReports
<1>10. CASE Finished \/ UNCHANGED vars
  <2>1. UNCHANGED vars
    BY <1>10 DEF Finished
  <2> QED
    <3>1. UNCHANGED <<handle, config, update, wanted, items, errs, repomd, complete, to_download,
                      downloaded, ends, refused, ret, calls, next, pc>>
      BY <2>1 DEF vars, sourceVars, repoVars, countVars, flowVars
    <3>2. CountType' /\ Flow' /\ Blaming' /\ Completing'
      BY <3>1 DEF Reports, CountType, Flow, Blaming, Completing, Done, Asked, With
    <3>3. \A t \in Targets : Tally(t) => Tally(t)'
      BY <3>1 DEF Tally, Mine, Pend, Files, RecordItems
    <3>4. Counting'
      BY <3>1, <3>3 DEF Reports, Counting, Uncollected, Collected, Early, Mine
    <3> QED
      BY <3>2, <3>4 DEF Reports
<1> QED
  BY <1>1, <1>2, <1>3, <1>4, <1>5, <1>6, <1>7, <1>8, <1>9, <1>10 DEF Next

\* The counters of lr_metadata_target_end_func(), the files to come and the calls of the
\* end callbacks agree in every state of a call.
THEOREM ReportInvariant == Spec => []Reports
BY ReportsInit, ReportsNext, PTL DEF Spec

\* The end callback of a repository is called at most once, and exactly once when the
\* call returns TRUE: when the numbers of files become equal, or at once without files.
THEOREM EndReportedOnceHolds == Spec => []EndReportedOnce
<1>1. Reports => EndReportedOnce
  <2> SUFFICES ASSUME Reports PROVE EndReportedOnce
    OBVIOUS
  <2>1. ASSUME pc = "return", ret = "ok", NEW t \in Targets PROVE Len(ends[t]) = 1
    <3>1. Tally(t) /\ Pend(t) = {}
      BY <2>1 DEF Reports, Counting, Collected, Blaming, Pend, Mine
    <3> QED
      BY <3>1 DEF Tally
  <2> QED
    BY <2>1 DEF Reports, Counting, EndReportedOnce
<1> QED
  BY <1>1, ReportInvariant, PTL

\* A repository that a successful call leaves without an error was reported as
\* successful and has its repomd.xml and every file that was asked for, unless its files
\* were refused for a path outside the destination in a build without assertions.
THEOREM NoErrorMeansCompleteHolds == Spec => []NoErrorMeansComplete
<1>1. Reports => NoErrorMeansComplete
  <2> SUFFICES ASSUME Reports, pc = "return", ret = "ok", NEW t \in Targets,
                      t \notin errs, t \notin refused
               PROVE  /\ ends[t] = <<"SUCCESSFUL">>
                      /\ config[handle[t]].fetchmirrors \/ t \in complete
                      /\ RecordItems(t) \subseteq With("ok")
    BY DEF NoErrorMeansComplete
  <2>1. Tally(t) /\ Done(t)
    BY DEF Reports, Counting, Collected, Completing
  <2>2. \A i \in Mine(t) : items[i] = "ok"
    BY DEF Reports, Blaming, Mine
  <2>3. Pend(t) = {}
    BY <2>2 DEF Pend
  <2> QED
    BY <2>1, <2>2, <2>3 DEF Tally, Done, Mine, With, Files
<1> QED
  BY <1>1, ReportInvariant, PTL
===============================================================================
