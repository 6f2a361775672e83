-------------------------- MODULE MetadataDownloader --------------------------
(***************************************************************************)
(* lr_download_metadata() of metadata_downloader.c: the mirrorlists, the   *)
(* repomd.xml and the records of several repositories, in three calls of   *)
(* lr_download(), and the end callbacks of the repositories.               *)
(*                                                                         *)
(* lr_download() is what DownloadSpec, which Downloader implements,        *)
(* promises: every target is decided once, or the call fails as a whole.   *)
(* A handle is prepared as in Handle, of which its lists are kept here.    *)
(*                                                                         *)
(* pc is "lists", "repomd" and "records" in lr_download(), "prepare",      *)
(* "process" and "collect" in the loops over the repositories, "return" at *)
(* the end, "idle" between two calls and "aborted" when an assertion ended *)
(* the process.                                                            *)
(***************************************************************************)
EXTENDS Integers, Sequences, FiniteSets, SequencesExt

CONSTANTS
    NumTargets,
    Handles,
    Configs,     \* what the application may have set of a handle
    AllRecords,  \* the records a repomd.xml lists
    Faults,      \* "io", "parse", "path", "fatal", "callback"
    Asserted,    \* whether assert() is compiled in: the builds there are
    MaxCalls     \* bound: calls; those after the first are updates

Targets == 1 .. NumTargets
Lists == {"metalink", "mirrorlist"}

\* A repository without any URL has no repo and no repomd, which the code goes on to
\* use all the same: left out.
ASSUME MetadataAssumption ==
    /\ NumTargets \in Nat \ {0}
    /\ Configs \subseteq [lists : SUBSET Lists, urls : BOOLEAN, offline : BOOLEAN,
                          fetchmirrors : BOOLEAN]
    /\ \A c \in Configs : c.urls \/ c.lists # {}
    /\ IsFiniteSet(AllRecords)
    /\ Asserted \subseteq BOOLEAN
    /\ MaxCalls \in Nat

VARIABLES
    handle,      \* the handle of each target
    config,
    update,      \* LRO_UPDATE
    callbacks,   \* whose callbacks each handle has: a target, or 0 for the application
    backups,     \* handle_callbacks_backups
    tries,       \* the factor of LRO_ALLOWEDMIRRORFAILURES
    fd,          \* the text behind metalink_fd and mirrorlist_fd: "none" is -1
    parsed,      \* the lists with mirrors
    prepared,    \* the handles with an internal mirrorlist
    items,       \* download targets of the lr_download() at hand, and their fates
    errs,        \* the targets with messages in LrMetadataTarget.err
    repomd,      \* the records of LrMetadataTarget.repomd
    complete,    \* repomd.xml was downloaded and parsed
    to_download, downloaded,    \* repomd_records_to_download, repomd_records_downloaded
    refused,     \* the targets whose files were refused: behind download_error
    wanted,      \* the records enabled by LRO_YUMDLIST
    ends,        \* the end callbacks of the repositories in this call
    ret, calls, next, pc

sourceVars == <<handle, config, update, wanted>>
handleVars == <<fd, parsed, prepared>>
scopeVars  == <<callbacks, backups, tries>>
repoVars   == <<errs, repomd, complete>>
countVars  == <<to_download, downloaded, ends, refused>>
flowVars   == <<ret, calls, next, pc>>
vars == <<sourceVars, handleVars, scopeVars, items, repoVars, countVars, flowVars>>

Item == [target : Targets, what : Lists \cup {"repomd"} \cup AllRecords]

TypeOK ==
    /\ handle \in [Targets -> Handles] /\ config \in [Handles -> Configs]
    /\ update \in BOOLEAN /\ wanted \subseteq AllRecords
    /\ callbacks \in [Handles -> 0 .. NumTargets] /\ backups \in [Targets -> 0 .. NumTargets]
    /\ tries \in [Handles -> {1, 3}]
    /\ fd \in [Handles -> [Lists -> Lists \cup {"none", "empty"}]]
    /\ parsed \in [Handles -> SUBSET Lists] /\ prepared \subseteq Handles
    /\ DOMAIN items \subseteq Item /\ Range(items) \subseteq {"pending", "ok", "failed"}
    /\ errs \subseteq Targets
    /\ repomd \in [Targets -> SUBSET AllRecords] /\ complete \subseteq Targets
    /\ \A t \in Targets : downloaded[t] \in 0 .. to_download[t]
    /\ ends \in [Targets -> Seq({"SUCCESSFUL", "ERROR"})] /\ refused \subseteq Targets
    /\ ret \in {"ok", "error"} /\ calls \in 0 .. MaxCalls /\ next \in 1 .. NumTargets + 1

Each(x) == [t \in Targets |-> x]
Nothing == [i \in {} |-> "pending"]

Init ==
    /\ handle \in [Targets -> Handles] /\ config \in [Handles -> Configs]
    /\ update = FALSE /\ wanted = AllRecords
    /\ callbacks = [h \in Handles |-> 0] /\ backups = Each(0)
    /\ tries = [h \in Handles |-> 1]
    /\ fd = [h \in Handles |-> [l \in Lists |-> "none"]]
    /\ parsed = [h \in Handles |-> {}] /\ prepared = {}
    /\ items = Nothing
    /\ errs = {} /\ repomd = Each({}) /\ complete = {}
    /\ to_download = Each(0) /\ downloaded = Each(0) /\ ends = Each(<<>>)
    /\ refused = {}
    /\ ret = "ok" /\ calls = 0 /\ next = 1 /\ pc = "idle"

Loop(place) == pc' = place /\ next' = 1
-------------------------------------------------------------------------------
(* The call, and the handles' callbacks                                    *)

\* The targets of a handle, of which the last one's callbacks stay in place.
Users(h) == {t \in Targets : handle[t] = h}
MaxOf(S) == CHOOSE t \in S : \A u \in S : u <= t
Before(t) == {u \in Users(handle[t]) : u < t}

\* What the handle had when its turn came: the wrapper of an earlier target.
Saved(t) == IF Before(t) = {} THEN callbacks[handle[t]] ELSE MaxOf(Before(t))

\* Mutant: one of the returns does not put the callbacks back.
RestoredIfOk == [h \in Handles |-> IF Users(h) = {} \/ ret # "ok" THEN callbacks[h]
                                   ELSE backups[MaxOf(Users(h))]]

Restored == [h \in Handles |-> IF Users(h) = {} THEN callbacks[h] ELSE backups[MaxOf(Users(h))]]

\* create_metalink_and_mirrorlist_download_targets()
ListItems == {i \in [target : Targets, what : Lists] :
                 LET h == handle[i.target] IN
                 i.what \in config[h].lists /\ i.what \notin parsed[h] /\ ~config[h].offline}

\* lr_download_metadata() up to its first lr_download(), which takes its settings
\* from the handle of the first of its own targets, if it has one.
\* After a call that failed the application starts over with new targets.
DownloadMetadata ==
    /\ pc = "idle" /\ calls < MaxCalls /\ ret = "ok"
    /\ calls' = calls + 1 /\ Loop("lists")
    /\ \/ calls = 0 /\ UNCHANGED <<update, wanted>>
       \/ calls > 0 /\ update' = TRUE /\ wanted' \in SUBSET AllRecords
    /\ backups' = [t \in Targets |-> Saved(t)]
    /\ callbacks' = [h \in Handles |-> IF Users(h) = {} THEN callbacks[h] ELSE MaxOf(Users(h))]
    /\ items' = [i \in ListItems |-> "pending"]
    /\ tries' = [tries EXCEPT ![handle[1]] = @ * 3]
    /\ ends' = Each(<<>>) /\ refused' = {}
    /\ UNCHANGED <<handle, config, handleVars, repoVars, to_download, downloaded, ret>>

\* cleanup() and the callbacks put back at every return.
Return ==
    /\ pc = "return" /\ Loop("idle")
    /\ callbacks' = Restored /\ backups' = Each(0)
    /\ items' = Nothing
    /\ UNCHANGED <<sourceVars, handleVars, tries, repoVars, countVars, ret, calls>>
-------------------------------------------------------------------------------
(* lr_download()                                                           *)

Downloading == pc \in {"lists", "repomd", "records"}
With(s) == {i \in DOMAIN items : items[i] = s}

\* The items with these fates, or with these new ones.
Updated(new) == [i \in DOMAIN items \cup DOMAIN new |->
                   IF i \in DOMAIN new THEN new[i] ELSE items[i]]

\* The repositories that some of these items belong to get their errors; those of a
\* failed download of a list or of repomd.xml in the cleanup.
Blamed(S) == errs \cup {i.target : i \in S}

\* Mutant: the end callback is called with every file.
EndsOfAll(new) ==
    LET mine(t) == {i \in DOMAIN new : i.target = t} IN
    [t \in Targets |-> IF mine(t) = {} THEN ends[t] ELSE Append(ends[t], "SUCCESSFUL")]

\* lr_metadata_target_end_func(), for the fates of some files: the callback of a
\* repository is called with the status of the file that makes the numbers equal.
EndsOf(new) ==
    LET mine(t) == {i \in DOMAIN new : i.target = t} IN
    [t \in Targets |->
        IF mine(t) # {} /\ downloaded[t] + Cardinality(mine(t)) = to_download[t]
        THEN Append(ends[t], IF \A i \in mine(t) : new[i] = "ok" THEN "SUCCESSFUL" ELSE "ERROR")
        ELSE ends[t]]

\* Only records have an end callback.
Told(new) ==
    IF pc # "records" THEN UNCHANGED countVars
    ELSE /\ ends' = EndsOf(new)
         /\ downloaded' = [t \in Targets |->
                downloaded[t] + Cardinality({i \in DOMAIN new : i.target = t})]
         /\ UNCHANGED <<to_download, refused>>

Decide(i, fate) ==
    /\ Downloading /\ i \in With("pending")
    /\ items' = Updated([j \in {i} |-> fate])
    /\ Told([j \in {i} |-> fate])
    /\ UNCHANGED <<sourceVars, handleVars, scopeVars, repoVars, flowVars>>

\* Mutant: a failed call leaves the factor in place.
RestoredTriesIfOk == IF pc = "lists" /\ ret' = "ok" THEN [tries EXCEPT ![handle[1]] = 1] ELSE tries

\* The factor is taken back after the first lr_download(), however it ended.
RestoredTries == IF pc = "lists" THEN [tries EXCEPT ![handle[1]] = 1] ELSE tries

\* The call fails: what was running is told, what waits is not.
Fails(new) ==
    /\ items' = Updated(new)
    /\ Told(new)
    /\ errs' = Blamed({i \in DOMAIN items : items'[i] = "failed"})
    /\ ret' = "error"
    /\ tries' = RestoredTries
    /\ Loop("return")
    /\ UNCHANGED <<sourceVars, handleVars, callbacks, backups, repomd, complete, calls>>

FatalError(S) ==
    /\ "fatal" \in Faults
    /\ Downloading /\ S # {} /\ S \subseteq With("pending")
    /\ Fails([i \in S |-> "failed"])

\* The end callback called for i returns LR_CB_ERROR while those of S are running.
CallbackFails(i, fate, S) ==
    /\ "callback" \in Faults
    /\ pc = "records" /\ {i} \cup S \subseteq With("pending") /\ i \notin S
    /\ EndsOf([j \in {i} |-> fate]) # ends
    /\ Fails([j \in {i} \cup S |-> IF j = i THEN fate ELSE "failed"])

\* propagate_metalink_or_mirrorlist_download_targets(): with a metalink every
\* descriptor is taken for the metalink's, the mirrorlist's after it.
Propagated(h) ==
    LET mine == {i \in DOMAIN items : handle[i.target] = h}
        text(l) == IF \E i \in mine : i.what = l /\ i.target = MaxOf(Users(h)) /\ items[i] = "ok"
                   THEN l ELSE "empty"
        last == IF \E i \in mine : i.what = "mirrorlist" THEN "mirrorlist" ELSE "metalink"
    IN IF mine = {} THEN fd[h]
       ELSE [fd[h] EXCEPT ![IF "metalink" \in config[h].lists THEN "metalink" ELSE "mirrorlist"]
                 = text(last)]

ListsEnd ==
    /\ pc = "lists" /\ With("pending") = {}
    /\ ret' = "ok"
    /\ fd' = [h \in Handles |-> Propagated(h)]
    /\ errs' = Blamed(With("failed"))
    /\ tries' = RestoredTries
    /\ items' = Nothing
    /\ Loop("prepare")
    /\ UNCHANGED <<sourceVars, parsed, prepared, callbacks, backups, repomd, complete, countVars, calls>>
-------------------------------------------------------------------------------
(* repomd.xml                                                              *)

\* lr_handle_prepare_internal_mirrorlist(): a list without a descriptor is fetched by
\* the handle itself; another text, or none, cannot be parsed, nor can a broken one.
MayParse(h, l) == l \notin parsed[h] /\ l \in config[h].lists /\ fd[h][l] \in {"none", l}
                  /\ ~config[h].offline
MustParse(h, l) == MayParse(h, l) /\ fd[h][l] = l /\ "parse" \notin Faults

PrepareHandle(h, ok) ==
    IF h \in prepared THEN ok /\ UNCHANGED handleVars
    ELSE \E new \in SUBSET {l \in Lists : MayParse(h, l)} :
            /\ {l \in Lists : MustParse(h, l)} \subseteq new
            /\ parsed' = [parsed EXCEPT ![h] = @ \cup new]
            /\ ok = (config[h].urls \/ new # {} \/ (config[h].offline /\ config[h].lists # {}))
            /\ prepared' = IF ok THEN prepared \cup {h} ELSE prepared
            /\ UNCHANGED fd

\* One round of create_repomd_xml_download_targets().
Prepare(t) ==
    LET h == handle[t] IN
    /\ pc = "prepare" /\ next = t /\ next' = t + 1
    /\ \/ /\ PrepareHandle(h, FALSE)
          /\ errs' = errs \cup {t}
          /\ UNCHANGED items
       \/ /\ PrepareHandle(h, TRUE)
          /\ \/ /\ config[h].fetchmirrors \/ update
                /\ UNCHANGED <<errs, items>>
             \/ /\ ~config[h].fetchmirrors /\ "io" \in Faults
                /\ errs' = errs \cup {t}
                /\ UNCHANGED items
             \/ /\ ~config[h].fetchmirrors /\ ~update
                /\ items' = Updated([i \in {[target |-> t, what |-> "repomd"]} |-> "pending"])
                /\ UNCHANGED errs
    /\ UNCHANGED <<sourceVars, scopeVars, repomd, complete, countVars, ret, calls, pc>>

PrepareEnds ==
    /\ pc = "prepare" /\ next > NumTargets /\ Loop("repomd")
    /\ UNCHANGED <<sourceVars, handleVars, scopeVars, items, repoVars, countVars, ret, calls>>

RepomdEnds ==
    /\ pc = "repomd" /\ With("pending") = {} /\ Loop("process")
    /\ UNCHANGED <<sourceVars, handleVars, scopeVars, items, repoVars, countVars, ret, calls>>

\* Mutant: a repomd.xml that cannot be parsed leaves no error.
ProcessSilently(t) ==
    LET i == [target |-> t, what |-> "repomd"] IN
    /\ pc = "process" /\ next = t /\ next' = t + 1
    /\ \/ /\ i \notin DOMAIN items /\ UNCHANGED repoVars
       \/ /\ i \in With("failed") /\ errs' = errs \cup {t} /\ UNCHANGED <<repomd, complete>>
       \/ /\ i \in With("ok") /\ "parse" \in Faults /\ UNCHANGED repoVars
       \/ /\ i \in With("ok")
          /\ repomd' = [repomd EXCEPT ![t] = AllRecords] /\ complete' = complete \cup {t}
          /\ UNCHANGED errs
    /\ UNCHANGED <<sourceVars, handleVars, scopeVars, items, countVars, ret, calls, pc>>

\* One round of process_repomd_xml(): the signature may be bad, or the text, of which
\* the records before the error stay in repomd.
Process(t) ==
    LET i == [target |-> t, what |-> "repomd"] IN
    /\ pc = "process" /\ next = t /\ next' = t + 1
    /\ \/ /\ i \notin DOMAIN items
          /\ UNCHANGED repoVars
       \/ /\ i \in With("failed")
          /\ errs' = errs \cup {t}
          /\ UNCHANGED <<repomd, complete>>
       \/ /\ i \in With("ok") /\ "parse" \in Faults
          /\ errs' = errs \cup {t}
          /\ \E R \in SUBSET AllRecords : repomd' = [repomd EXCEPT ![t] = R]
          /\ UNCHANGED complete
       \/ /\ i \in With("ok")
          /\ repomd' = [repomd EXCEPT ![t] = AllRecords] /\ complete' = complete \cup {t}
          /\ UNCHANGED errs
    /\ UNCHANGED <<sourceVars, handleVars, scopeVars, items, countVars, ret, calls, pc>>

ProcessEnds ==
    /\ pc = "process" /\ next > NumTargets /\ Loop("collect")
    /\ items' = Nothing
    /\ UNCHANGED <<sourceVars, handleVars, scopeVars, repoVars, countVars, ret, calls>>
-------------------------------------------------------------------------------
(* lr_yum_download_repos()                                                 *)

RecordItems(t) == [target : {t}, what : repomd[t] \cap wanted]

\* assert(!err || *err == NULL) of prepare_repo_download_targets() and lr_download(),
\* which are given the error of a repository that was refused before.
AssertionHolds == refused = {} \/ FALSE \in Asserted

\* One round of the loop: the files of a repository are collected.  One without files
\* is at its end, and its callback may end the call; so is one whose first file lies
\* outside the destination ("Invalid path"), of which its errors know nothing.
Collect(t) ==
    /\ pc = "collect" /\ next = t /\ AssertionHolds
    /\ \/ /\ RecordItems(t) # {}
          /\ items' = Updated([i \in RecordItems(t) |-> "pending"])
          /\ to_download' = [to_download EXCEPT ![t] = @ + Cardinality(RecordItems(t))]
          /\ next' = t + 1
          /\ UNCHANGED <<ends, refused, ret, pc>>
       \/ /\ \/ RecordItems(t) = {} /\ UNCHANGED refused
             \/ RecordItems(t) # {} /\ "path" \in Faults /\ refused' = refused \cup {t}
          /\ ends' = [ends EXCEPT ![t] =
                 Append(@, IF t \notin errs THEN "SUCCESSFUL" ELSE "ERROR")]
          /\ \/ next' = t + 1 /\ UNCHANGED <<ret, pc>>
             \/ "callback" \in Faults /\ ret' = "error" /\ Loop("return")
          /\ UNCHANGED <<items, to_download>>
    /\ UNCHANGED <<sourceVars, handleVars, scopeVars, repoVars, downloaded, calls>>

\* The assertion fails, in the next round or at the files of another repository; or a
\* later file of a repository lies outside, and the list of those before it, which was
\* freed, is used: taken for a crash.
Aborts ==
    /\ pc = "collect"
    /\ \/ /\ refused # {} /\ TRUE \in Asserted
          /\ next <= NumTargets \/ DOMAIN items # {}
       \/ /\ AssertionHolds /\ "path" \in Faults
          /\ \E t \in Targets : next = t /\ Cardinality(RecordItems(t)) > 1
    /\ Loop("aborted")
    /\ UNCHANGED <<sourceVars, handleVars, scopeVars, items, repoVars, countVars, ret, calls>>

CollectEnds ==
    /\ pc = "collect" /\ next > NumTargets /\ Loop("records")
    /\ DOMAIN items # {} => AssertionHolds
    /\ UNCHANGED <<sourceVars, handleVars, scopeVars, items, repoVars, countVars, ret, calls>>

\* The error of a refused repository is passed on only when nothing was downloaded.
RecordsEnd ==
    /\ pc = "records" /\ With("pending") = {} /\ Loop("return")
    /\ ret' = IF DOMAIN items = {} /\ refused # {} THEN "error" ELSE "ok"
    /\ errs' = Blamed(With("failed"))
    /\ UNCHANGED <<sourceVars, handleVars, scopeVars, items, repomd, complete, countVars, calls>>
-------------------------------------------------------------------------------
Finished == /\ pc = "aborted" \/ (pc = "idle" /\ (calls = MaxCalls \/ ret = "error"))
            /\ UNCHANGED vars

Next == \/ DownloadMetadata \/ Return
        \/ \E i \in DOMAIN items, fate \in {"ok", "failed"} : Decide(i, fate)
        \/ \E S \in SUBSET DOMAIN items : FatalError(S)
        \/ \E i \in DOMAIN items, fate \in {"ok", "failed"}, S \in SUBSET DOMAIN items :
              CallbackFails(i, fate, S)
        \/ ListsEnd
        \/ \E t \in Targets : Prepare(t) \/ Process(t) \/ Collect(t)
        \/ Aborts
        \/ PrepareEnds \/ RepomdEnds \/ ProcessEnds \/ CollectEnds \/ RecordsEnd
        \/ Finished

Spec == Init /\ [][Next]_vars
-------------------------------------------------------------------------------
(* Properties                                                              *)

\* "We want to call the endcb only once per repo" (downloader.c:2971): never twice,
\* and exactly once for every repository when the call returns TRUE, whatever failed.
EndReportedOnce ==
    \A t \in Targets : /\ Len(ends[t]) <= 1
                       /\ pc = "return" /\ ret = "ok" => Len(ends[t]) = 1

\* "NULL means no error" (metadata_downloader.h:66): a repository without an error has
\* its repomd.xml parsed to the end and all its files, and was reported as successful,
\* whatever became of the repositories downloaded with it.  But for one: where assertions
\* are left out, a repository with a file outside the destination has no error and was
\* reported as successful without any of its files (yum.c:756, 913, 948).
NoErrorMeansComplete ==
    pc = "return" /\ ret = "ok" =>
        \A t \in Targets : t \notin errs \cup refused =>
            /\ ends[t] = <<"SUCCESSFUL">>
            /\ config[handle[t]].fetchmirrors \/ t \in complete
            /\ RecordItems(t) \subseteq With("ok")

\* "Store them so we can put them back once finished" (metadata_downloader.c:569): for
\* a handle of one target, between calls its callbacks are the application's.
CallbacksRestored ==
    pc = "idle" => \A h \in Handles : Cardinality(Users(h)) <= 1 => callbacks[h] = 0

\* LRO_ALLOWEDMIRRORFAILURES is changed for the download of the lists only, and for it
\* if the first repository has one to download.
TriesScoped ==
    /\ pc # "lists" => \A h \in Handles : tries[h] = 1
    /\ pc = "lists" /\ (\E i \in DOMAIN items : i.target = 1) => tries[handle[1]] = 3
===============================================================================
