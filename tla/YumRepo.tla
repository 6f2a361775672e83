-------------------------------- MODULE YumRepo --------------------------------
(***************************************************************************)
(* lr_yum_perform() of yum.c: a repository is downloaded into a directory, *)
(* or located there, from scratch or as an update of an earlier result,    *)
(* while the server moves on to other versions of it, transfers fail and   *)
(* the process is killed.                                                  *)
(*                                                                         *)
(* Files are told apart by the version of the repository they belong to.   *)
(* lr_download() decides every file once, as DownloadSpec promises, or     *)
(* fails as a whole and removes what was not decided.                      *)
(*                                                                         *)
(* pc is "repomd", "asc" and "parse" in                                   *)
(* lr_yum_download_remote(), "prepare" and "records" in                    *)
(* lr_yum_download_repo(), "returned" at the end and "idle" between calls. *)
(***************************************************************************)
EXTENDS Integers, FiniteSets

CONSTANTS
    NULL,
    RecordsOf,     \* the records in the repomd.xml of each version
    NoSum, OddSum, \* types whose records have no checksum, or one of an unknown type
    Plain, Zck,    \* a type of record, and the type of its zchunk version
    TheOptions,    \* the options the application sets
    Hashes,        \* the versions whose repomd.xml the metalink knows; {} without one
    Faults,        \* "transfer", "garbage", "path" (a record outside the directory), "abort", "crash"
    MaxSets,       \* bound: times the application changes the options or the result
    MaxCalls       \* bound: calls of lr_yum_perform()

Versions == DOMAIN RecordsOf
Types == (UNION {RecordsOf[v] : v \in Versions})
         \cup (UNION {o.yumdlist : o \in {p \in TheOptions : p.yumdlist # NULL}})
Summed == Types \ (NoSum \cup OddSum)
Absent == 0
Garbage == -1
Files == {"repomd", "asc"} \cup Types

ASSUME YumAssumption ==
    /\ 1 \in Versions /\ Versions \subseteq Nat \ {0}
    /\ Plain # Zck /\ {Plain, Zck} \subseteq Types
    /\ TheOptions \subseteq [local : BOOLEAN, update : BOOLEAN, checksum : BOOLEAN,
                             gpg : BOOLEAN, ignoremissing : BOOLEAN, cachedir : BOOLEAN,
                             yumdlist : {NULL} \cup SUBSET Types, yumblist : SUBSET Types,
                             yumslist : UNION {[S -> Types] : S \in SUBSET Types}]
    /\ Hashes \subseteq Versions
    /\ Types \cap {"repomd", "asc"} = {}    \* repomd.xml and repomd.xml.asc are no records
    /\ MaxSets \in Nat /\ MaxCalls \in Nat

VARIABLES
    opt,        \* the options of the handle
    asked,      \* LRO_YUMDLIST as the application set it
    result,     \* LrResult: the repo's paths, its repomd, use_zchunk and signature
    disk,       \* the files in the directory
    server,     \* the version the server has
    targets,    \* the records being downloaded, and their fates
    ret, sets, calls,
    clean,      \* see Returns
    inherited,  \* LRO_YUMDLIST was changed by a call before this one
    pc

vars == <<opt, asked, result, disk, server, targets, ret, sets, calls, clean, inherited, pc>>

EmptyResult == [used |-> FALSE, paths |-> {}, repomd |-> 0, zchunk |-> FALSE, signature |-> FALSE]
NoTargets == [t \in {} |-> "pending"]

TypeOK ==
    /\ \E o \in TheOptions, b \in BOOLEAN, d \in {NULL} \cup SUBSET Types :
          opt = [o EXCEPT !.update = b, !.yumdlist = d]
    /\ result.paths \subseteq Types /\ result.repomd \in {0} \cup Versions
    /\ disk \in [Files -> {Garbage, Absent} \cup Versions]
    /\ server \in Versions
    /\ DOMAIN targets \subseteq RecordsOf[IF result.repomd = 0 THEN server ELSE result.repomd]
    /\ ret \in {"ok", "error"} /\ sets \in 0 .. MaxSets /\ calls \in 0 .. MaxCalls

Init ==
    /\ opt \in TheOptions /\ asked = opt.yumdlist
    /\ result = EmptyResult
    /\ disk = [f \in Files |-> Absent] /\ server = 1
    /\ targets = NoTargets
    /\ ret = "ok" /\ sets = 0 /\ calls = 0 /\ clean = TRUE /\ inherited = FALSE /\ pc = "idle"
-------------------------------------------------------------------------------
(* Which records are wanted                                                *)

\* Mutant: the list is changed although the repository has no zchunk version.
SwitchedAlways(dlist, repomd) ==
    IF dlist # NULL /\ Plain \in dlist THEN (dlist \ {Plain}) \cup {Zck} ELSE dlist

\* lr_yum_switch_to_zchunk(): in LRO_YUMDLIST itself a type is replaced by its zchunk
\* version if the repository has that and the list does not.
Switched(dlist, repomd) ==
    IF dlist = NULL THEN NULL
    ELSE IF Plain \in dlist /\ Zck \notin dlist /\ Zck \in RecordsOf[repomd]
         THEN (dlist \ {Plain}) \cup {Zck} ELSE dlist

\* lr_yum_repomd_record_enabled(): a record that is not in LRO_YUMDLIST may stand in
\* for one that is and that the repository does not have, the one that the first entry of
\* LRO_YUMSLIST for it names.
Enabled(o, type, records) ==
    /\ type \notin o.yumblist
    /\ \/ o.yumdlist = NULL
       \/ type \in o.yumdlist
       \/ /\ type \in DOMAIN o.yumslist
          /\ o.yumslist[type] \in o.yumdlist /\ o.yumslist[type] \notin records

\* An incomplete repomd.xml was never parsed: it has no records.
Records == IF result.repomd = 0 THEN {} ELSE RecordsOf[result.repomd]
SwitchedOpt == IF opt.cachedir /\ result.repomd # 0
               THEN [opt EXCEPT !.yumdlist = Switched(@, result.repomd)] ELSE opt
Wanted(o) == {t \in Records : Enabled(o, t, Records)}
-------------------------------------------------------------------------------
(* The application and the server                                          *)

SetOptions ==
    /\ pc = "idle" /\ sets < MaxSets /\ sets' = sets + 1
    /\ opt' \in TheOptions /\ asked' = opt'.yumdlist
    /\ UNCHANGED <<result, disk, server, targets, ret, calls, clean, inherited, pc>>

\* The next repository is performed with the handle as it is, into a new result.
SetUpdate(b) ==
    /\ pc = "idle" /\ sets < MaxSets /\ sets' = sets + 1
    /\ opt' = [opt EXCEPT !.update = b]
    /\ UNCHANGED <<asked, result, disk, server, targets, ret, calls, clean, inherited, pc>>

ClearResult ==
    /\ pc = "idle" /\ result.used
    /\ result' = EmptyResult /\ clean' = TRUE
    /\ UNCHANGED <<opt, asked, disk, server, targets, ret, sets, calls, inherited, pc>>

ServerMoves ==
    /\ server + 1 \in Versions /\ server' = server + 1
    /\ UNCHANGED <<opt, asked, result, disk, targets, ret, sets, calls, clean, inherited, pc>>

\* A call returns; clean tells whether every call with the result succeeded and
\* checked checksums.
Returns(r) == pc' = "returned" /\ ret' = r /\ clean' = (clean /\ r = "ok" /\ opt.checksum)
Fails == Returns("error")

BackToApplication ==
    /\ pc = "returned" /\ pc' = "idle"
    /\ UNCHANGED <<opt, asked, result, disk, server, targets, ret, sets, calls, clean, inherited>>
-------------------------------------------------------------------------------
(* lr_yum_perform()                                                        *)

Usable == IF opt.update THEN result.used ELSE ~result.used

Refused ==
    /\ pc = "idle" /\ calls < MaxCalls /\ ~Usable
    /\ calls' = calls + 1 /\ Fails
    /\ UNCHANGED <<opt, asked, result, disk, server, targets, sets, inherited>>

\* The records of the result's repomd are looked for, with the paths found so far.
\* One that is missing ends the search when some were found.  A record without checksum is
\* taken as it is, one with a checksum of an unknown type is not.
Locate(r, o, records) ==
    LET wanted == {t \in records : Enabled(o, t, records)}
        found == {t \in wanted : disk[t] # Absent}
        paths == r.paths \cup found
        good == \A t \in (paths \cap records) \ NoSum : t \in Summed /\ disk[t] = r.repomd
    IN \/ /\ wanted \subseteq paths \/ o.ignoremissing
          /\ result' = [r EXCEPT !.paths = paths]
          /\ IF o.checksum /\ ~good THEN Fails ELSE Returns("ok")
       \/ /\ ~(wanted \subseteq paths) /\ ~o.ignoremissing /\ Fails
          /\ \E some \in SUBSET found : result' = [r EXCEPT !.paths = @ \cup some]

\* lr_gpg_check_signature() of the files in the directory.
LocalSigned == disk["asc"] = disk["repomd"]

\* lr_yum_use_local() and lr_yum_check_repo_checksums(): nothing else changes the
\* directory meanwhile, so that this is one step.
UseLocal ==
    /\ pc = "idle" /\ calls < MaxCalls /\ opt.local /\ Usable
    /\ calls' = calls + 1 /\ inherited' = (opt.yumdlist # asked)
    /\ LET found == disk["repomd"] \in Versions
           base == [result EXCEPT !.used = TRUE,
                                  !.repomd = IF found THEN disk["repomd"] ELSE 0,
                                  !.signature = found /\ disk["asc"] # Absent]
           r == [(IF opt.update THEN result ELSE base) EXCEPT !.zchunk = opt.cachedir]
           o == IF opt.cachedir /\ r.repomd # 0
                THEN [opt EXCEPT !.yumdlist = Switched(@, r.repomd)] ELSE opt
       IN IF ~opt.update /\ (~found \/ (opt.gpg /\ ~LocalSigned))
          THEN result' = base /\ Fails /\ UNCHANGED opt
          ELSE /\ opt' = o
               /\ Locate(r, o, IF r.repomd = 0 THEN {} ELSE RecordsOf[r.repomd])
    /\ UNCHANGED <<asked, disk, server, targets, sets>>

\* lr_yum_download_remote(): from scratch repomd.xml is opened and emptied first.
DownloadRemote ==
    /\ pc = "idle" /\ calls < MaxCalls /\ ~opt.local /\ Usable
    /\ calls' = calls + 1 /\ inherited' = (opt.yumdlist # asked)
    /\ result' = [result EXCEPT !.used = TRUE]
    /\ IF opt.update THEN pc' = "prepare" /\ UNCHANGED disk
       ELSE pc' = "repomd" /\ disk' = [disk EXCEPT !["repomd"] = Garbage]
    /\ UNCHANGED <<opt, asked, server, targets, ret, sets, clean>>

\* What a transfer brings.
Served == {server} \cup (IF "garbage" \in Faults THEN {Garbage} ELSE {})
TransferMayFail == "transfer" \in Faults

\* lr_yum_download_repomd(): the checksums are those of the metalink, if there is one.
DownloadRepomd ==
    /\ pc = "repomd"
    /\ \/ \E v \in Served :
             /\ opt.checksum /\ Hashes # {} => v \in Hashes
             /\ disk' = [disk EXCEPT !["repomd"] = v]
             /\ pc' = "asc" /\ UNCHANGED <<ret, clean>>
       \/ (TransferMayFail \/ (opt.checksum /\ Hashes # {})) /\ Fails /\ UNCHANGED disk
    /\ UNCHANGED <<opt, asked, result, server, targets, sets, calls, inherited>>

\* Mutant: a bad signature is reported but not heeded.
RemoteSignedAny == TRUE

RemoteSigned == disk'["asc"] = disk["repomd"] /\ disk["repomd"] # Garbage

\* lr_check_repomd_xml_asc_availability(): a signature that cannot be had is removed.
CheckAsc ==
    /\ pc = "asc"
    /\ IF ~opt.gpg THEN pc' = "parse" /\ UNCHANGED <<disk, result, ret, clean>>
       ELSE \/ /\ TransferMayFail /\ Fails
               /\ disk' = [disk EXCEPT !["asc"] = Absent]
               /\ UNCHANGED result
            \/ \E v \in Served :
                  /\ disk' = [disk EXCEPT !["asc"] = v]
                  /\ result' = [result EXCEPT !.signature = TRUE]
                  /\ IF RemoteSigned THEN pc' = "parse" /\ UNCHANGED <<ret, clean>> ELSE Fails
    /\ UNCHANGED <<opt, asked, server, targets, sets, calls, inherited>>

ParseRepomd ==
    /\ pc = "parse"
    /\ IF disk["repomd"] = Garbage THEN Fails /\ UNCHANGED result
       ELSE /\ result' = [result EXCEPT !.repomd = disk["repomd"]]
            /\ pc' = "prepare" /\ UNCHANGED <<ret, clean>>
    /\ UNCHANGED <<opt, asked, disk, server, targets, sets, calls, inherited>>

\* prepare_repo_download_targets(): the paths are in the result before the files are
\* in the directory, those too that come before a record that is outside of it.
PrepareTargets ==
    /\ pc = "prepare" /\ opt' = SwitchedOpt
    /\ \E some \in SUBSET Wanted(SwitchedOpt) :
          /\ result' = [result EXCEPT !.zchunk = opt.cachedir, !.paths = @ \cup some]
          /\ \/ /\ some = Wanted(SwitchedOpt) /\ pc' = "records"
                /\ targets' = [t \in some |-> "pending"] /\ UNCHANGED <<ret, clean>>
             \/ /\ "path" \in Faults /\ some # Wanted(SwitchedOpt) /\ Fails
                /\ UNCHANGED targets
    /\ UNCHANGED <<asked, disk, server, sets, calls, inherited>>

With(fate) == {t \in DOMAIN targets : targets[t] = fate}

\* Mutant: a record is compared with the checksum of another repomd.xml.
MatchesServer(t, v) == opt.checksum /\ t \in Summed => v = server

\* check_finished_transfer_checksum() passes over a checksum that is not there or unknown.
Matches(t, v) == opt.checksum /\ t \in Summed => v = result.repomd

\* A record is decided; the file of a failed one is removed.
DownloadRecord(t) ==
    /\ pc = "records" /\ t \in With("pending")
    /\ \/ \E v \in Served : /\ Matches(t, v)
                            /\ disk' = [disk EXCEPT ![t] = v]
                            /\ targets' = [targets EXCEPT ![t] = "ok"]
       \/ /\ TransferMayFail \/ \E v \in Served : ~Matches(t, v)
          /\ disk' = [disk EXCEPT ![t] = Absent]
          /\ targets' = [targets EXCEPT ![t] = "failed"]
    /\ UNCHANGED <<opt, asked, result, server, ret, sets, calls, clean, inherited, pc>>

\* Mutant: the errors of single files are overlooked.
ErrorsOverlooked == FALSE

SomeFailed == With("failed") # {}

\* error_handling(), and the end of lr_yum_perform().
RecordsEnd ==
    /\ pc = "records" /\ With("pending") = {}
    /\ IF SomeFailed THEN Fails ELSE Returns("ok")
    /\ targets' = NoTargets
    /\ UNCHANGED <<opt, asked, result, disk, server, sets, calls, inherited>>

\* lr_download() stops, by SIGINT or a callback.
Abort ==
    /\ "abort" \in Faults
    /\ pc = "records" /\ With("pending") # {} /\ Fails
    /\ disk' = [f \in Files |-> IF f \in With("pending") THEN Absent ELSE disk[f]]
    /\ targets' = NoTargets
    /\ UNCHANGED <<opt, asked, result, server, sets, calls, inherited>>

\* The process is killed: files that were being written are left as they are.
Crash ==
    /\ "crash" \in Faults /\ pc # "idle"
    /\ \E S \in SUBSET (With("pending") \cup (IF pc = "asc" THEN {"asc"} ELSE {})) :
          disk' = [f \in Files |-> IF f \in S THEN Garbage ELSE disk[f]]
    /\ result' = EmptyResult /\ targets' = NoTargets /\ clean' = TRUE
    /\ pc' = "idle" /\ ret' = "error"
    /\ opt' = [opt EXCEPT !.yumdlist = asked]
    /\ UNCHANGED <<asked, server, sets, calls, inherited>>

Finished == pc = "idle" /\ calls = MaxCalls /\ UNCHANGED vars

Next == \/ SetOptions \/ (\E b \in BOOLEAN : SetUpdate(b)) \/ ClearResult \/ ServerMoves
        \/ Refused \/ UseLocal \/ DownloadRemote
        \/ DownloadRepomd \/ CheckAsc \/ ParseRepomd \/ PrepareTargets
        \/ (\E t \in DOMAIN targets : DownloadRecord(t))
        \/ RecordsEnd \/ Abort \/ Crash \/ BackToApplication
        \/ Finished

Spec == Init /\ [][Next]_vars
-------------------------------------------------------------------------------
(* Properties.  They speak of results whose repomd.xml was read, and, of   *)
(* versions, for records with a checksum that librepo knows.               *)

Succeeded == pc = "returned" /\ ret = "ok" /\ result.repomd # 0

\* A call that returned TRUE found every record that is wanted, or it was told to
\* ignore missing ones; with LRO_CHECKSUM the files are those of the result's
\* repomd.xml, whatever the server, earlier calls and kills put into the directory.
WantedDelivered ==
    Succeeded =>
        \A t \in Wanted(opt) :
            /\ t \in result.paths \/ (opt.local /\ opt.ignoremissing)
            /\ t \in result.paths \cap Summed /\ opt.checksum => disk[t] = result.repomd

\* lr_yum_repo_path(): with LRO_CACHEDIR the zchunk version is preferred.
RepoPath(type) == type \in result.paths \/ (result.zchunk /\ type = Plain /\ Zck \in result.paths)

\* LRO_YUMDLIST is changed by the call, but what the application asked for can still
\* be had under the name it used.  Not when the call found the list as a call for a
\* repository with zchunk had left it, or LRO_YUMBLIST has the zchunk version (see the
\* hazards).
AskedDelivered ==
    Succeeded /\ asked # NULL /\ ~opt.ignoremissing /\ ~inherited =>
        \A t \in asked \cap Records : {t, Zck} \cap opt.yumblist = {} => RepoPath(t)

\* What an accepted repomd.xml was checked against belongs to it: the signature in the
\* directory, and the metalink of a download.
RepomdAuthentic ==
    Succeeded /\ ~opt.update =>
        /\ opt.gpg => result.signature /\ disk["asc"] = result.repomd
        /\ opt.checksum /\ ~opt.local /\ Hashes # {} => result.repomd \in Hashes

\* A result whose calls all succeeded, over updates with other lists of records while
\* the server moves on, names files of one version only.
ResultConsistent ==
    pc = "returned" /\ clean /\ result.repomd # 0 =>
        \A t \in result.paths \cap Summed : disk[t] = result.repomd
===============================================================================
