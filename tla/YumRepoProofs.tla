----------------------------- MODULE YumRepoProofs -----------------------------
(***************************************************************************)
(* Theorems about YumRepo for any repositories, options, metalinks and     *)
(* faults: a success has the wanted files, under the names that were       *)
(* asked for, of an authentic repomd.xml, and the files of a result whose  *)
(* calls all succeeded belong together.                                    *)
(***************************************************************************)
EXTENDS YumRepo, TLAPS

-------------------------------------------------------------------------------
(* The invariant.                                                          *)

Lists == {NULL} \cup SUBSET Types
OptionType == [local : BOOLEAN, update : BOOLEAN, checksum : BOOLEAN,
               gpg : BOOLEAN, ignoremissing : BOOLEAN, cachedir : BOOLEAN,
               yumdlist : Lists, yumblist : SUBSET Types, yumslist : UNION {[S -> Types] : S \in SUBSET Types}]
ResultType == [used : BOOLEAN, paths : SUBSET Types, repomd : {0} \cup Versions,
               zchunk : BOOLEAN, signature : BOOLEAN]
Fates == {"pending", "ok", "failed"}
Pcs == {"idle", "repomd", "asc", "parse", "prepare", "records", "returned"}

\* The types, and that repomd.xml is not without a version where it is parsed.
Typed ==
    /\ opt \in OptionType /\ asked \in Lists
    /\ result \in ResultType
    /\ disk \in [Files -> {Garbage, Absent} \cup Versions]
    /\ server \in Versions
    /\ targets \in [DOMAIN targets -> Fates]
    /\ ret \in {"ok", "error"} /\ clean \in BOOLEAN /\ inherited \in BOOLEAN
    /\ pc \in Pcs

\* A result that was not used is empty, and one that is filled from scratch has no files
\* before repomd.xml was parsed.
Scratch ==
    /\ ~result.used => result = EmptyResult
    /\ pc \in {"repomd", "asc", "parse"} => ~opt.update /\ result.paths = {}
    /\ pc \in {"asc", "parse"} => disk["repomd"] # Absent
    /\ pc \in {"repomd", "asc", "parse", "prepare", "records"} => result.used /\ ~opt.local

\* What a repomd.xml of version v was checked against belongs to it.
Signed(v) == opt.gpg => result.signature /\ disk["asc"] = v
Known(v) == opt.checksum /\ ~opt.local /\ Hashes # {} => v \in Hashes

\* Where a call from scratch is told which of the two.
Checked ==
    ~opt.update =>
        /\ pc \in {"asc", "parse"} /\ disk["repomd"] # Garbage => Known(disk["repomd"])
        /\ pc = "parse" => Signed(disk["repomd"])
        /\ pc \in {"prepare", "records"} => Signed(result.repomd) /\ Known(result.repomd)

\* The records that are downloaded are those wanted, and each has its fate.
Downloading ==
    /\ pc # "records" => targets = NoTargets
    /\ pc = "records" =>
          /\ DOMAIN targets = Wanted(opt) /\ Wanted(opt) \subseteq result.paths
          /\ \A t \in DOMAIN targets :
                targets[t] = "ok" /\ opt.checksum /\ t \in Summed => disk[t] = result.repomd

\* LRO_YUMDLIST is what the application set, or the call put the zchunk version into it.
Switch ==
    \/ opt.yumdlist = asked
    \/ /\ result.zchunk /\ asked # NULL
       /\ opt.yumdlist = (asked \ {Plain}) \cup {Zck} /\ Zck \in Records
Listed ==
    ~inherited =>
        /\ pc \in {"repomd", "asc", "parse", "prepare"} => opt.yumdlist = asked
        /\ pc = "records" \/ Succeeded => Switch

\* The files of a result whose calls all succeeded are of its version, but for those that
\* are being downloaded.
Consistent ==
    clean /\ result.repomd # 0 =>
        \A t \in (result.paths \ DOMAIN targets) \cap Summed : disk[t] = result.repomd

YInv == /\ Typed /\ Scratch /\ Checked /\ Downloading /\ Listed /\ Consistent
        /\ WantedDelivered /\ RepomdAuthentic

-------------------------------------------------------------------------------
(* Records and lists.                                                      *)

\* The records of a version are types, and their files are neither repomd.xml nor its
\* signature.
LEMMA RecordTypes ==
    /\ \A v \in Versions : RecordsOf[v] \subseteq Types
    /\ Types \subseteq Files /\ "repomd" \in Files /\ "asc" \in Files
    /\ \A t \in Types : t # "repomd" /\ t # "asc"
    /\ 0 \notin Versions /\ Garbage \notin Versions /\ Absent \notin Versions
<1>1. \A v \in Versions : RecordsOf[v] \subseteq Types
  BY Zenon DEF Types
<1>2. Types \subseteq Files /\ "repomd" \in Files /\ "asc" \in Files
  BY DEF Files
<1>3. \A t \in Types : t # "repomd" /\ t # "asc"
  BY YumAssumption
<1>4. 0 \notin Versions /\ Garbage \notin Versions /\ Absent \notin Versions
  <2>1. Versions \subseteq Nat \ {0}
    BY YumAssumption
  <2>. QED
    BY <2>1, SMT DEF Garbage, Absent
<1>. QED
  BY <1>1, <1>2, <1>3, <1>4

LEMMA WantedTypes ==
    ASSUME result \in ResultType
    PROVE  Records \subseteq Types /\ \A o : Wanted(o) \subseteq Types /\ Wanted(o) \subseteq Records
<1>1. Records \subseteq Types
  BY RecordTypes DEF ResultType, Records
<1>. QED
  BY <1>1 DEF Wanted

\* A list stays a list when the zchunk version is put into it.
LEMMA SwitchedType ==
    ASSUME NEW d \in Lists, NEW v
    PROVE  Switched(d, v) \in Lists
<1>1. Zck \in Types
  BY YumAssumption
<1>. QED
  BY <1>1, Zenon DEF Switched, Lists

LEMMA OptionTypes == TheOptions \subseteq OptionType
<1>1. SUFFICES ASSUME NEW o \in TheOptions PROVE o \in OptionType
  OBVIOUS
<1>2. o \in [local : BOOLEAN, update : BOOLEAN, checksum : BOOLEAN,
             gpg : BOOLEAN, ignoremissing : BOOLEAN, cachedir : BOOLEAN,
             yumdlist : {NULL} \cup SUBSET Types, yumblist : SUBSET Types,
             yumslist : UNION {[S -> Types] : S \in SUBSET Types}]
  BY YumAssumption, Zenon
<1>. QED
  BY <1>2, Zenon DEF OptionType, Lists

\* The list of records and update are all that changes in the options.
LEMMA OptionExcept ==
    ASSUME NEW o \in OptionType, NEW d \in Lists, NEW b \in BOOLEAN
    PROVE  /\ [o EXCEPT !.yumdlist = d] \in OptionType
           /\ [o EXCEPT !.update = b] \in OptionType
           /\ o.yumdlist \in Lists
BY DEF OptionType

LEMMA EmptyResultType == EmptyResult \in ResultType /\ NoTargets \in [DOMAIN NoTargets -> Fates]
BY DEF EmptyResult, ResultType, NoTargets, Fates

LEMMA InitInv == Init => YInv
<1>. SUFFICES ASSUME Init PROVE YInv
  OBVIOUS
<1>1. /\ opt \in OptionType /\ opt.yumdlist \in Lists /\ asked = opt.yumdlist
      /\ result = EmptyResult /\ disk = [f \in Files |-> Absent] /\ server = 1
      /\ targets = NoTargets /\ ret = "ok" /\ clean = TRUE /\ inherited = FALSE /\ pc = "idle"
  BY OptionTypes DEF Init, OptionType
<1>2. 1 \in Versions
  BY YumAssumption
<1>3. Typed
  BY <1>1, <1>2, EmptyResultType DEF Typed, Pcs
<1>4. result.repomd = 0 /\ ~Succeeded
  BY <1>1 DEF EmptyResult, Succeeded
<1>5. Scratch /\ Checked /\ Downloading /\ Listed /\ Consistent
  BY <1>1, <1>4 DEF Scratch, Checked, Downloading, Listed, Consistent
<1>. QED
  BY <1>3, <1>4, <1>5 DEF YInv, WantedDelivered, RepomdAuthentic

-------------------------------------------------------------------------------
(* The application and the server.                                         *)

\* A step between the calls.
LEMMA IdleInv ==
    ASSUME YInv, pc = "idle", pc' = "idle",
           opt' \in OptionType, asked' \in Lists, result' \in {result, EmptyResult},
           clean' \in BOOLEAN, result' = EmptyResult \/ clean' = clean,
           UNCHANGED <<disk, server, targets, ret, inherited>>
    PROVE  YInv'
<1>1. Typed'
  BY EmptyResultType DEF YInv, Typed
<1>2. ~Succeeded'
  BY DEF Succeeded
<1>3. Scratch' /\ Checked' /\ Downloading' /\ Listed'
  BY <1>2 DEF YInv, Scratch, Checked, Downloading, Listed
<1>4. Consistent'
  <2>1. CASE result' = result /\ clean' = clean
    BY <2>1 DEF YInv, Consistent
  <2>2. CASE result' = EmptyResult
    <3>1. result'.repomd = 0
      BY <2>2 DEF EmptyResult
    <3>. QED
      BY <3>1 DEF Consistent
  <2>. QED
    BY <2>1, <2>2
<1>. QED
  BY <1>1, <1>2, <1>3, <1>4 DEF YInv, WantedDelivered, RepomdAuthentic

LEMMA ApplicationInv ==
    YInv /\ (SetOptions \/ (\E b \in BOOLEAN : SetUpdate(b)) \/ ClearResult) => YInv'
<1>1. YInv /\ SetOptions => YInv'
  <2>. SUFFICES ASSUME YInv, SetOptions PROVE YInv'
    OBVIOUS
  <2>1. opt' \in OptionType /\ opt'.yumdlist \in Lists
    BY OptionTypes DEF SetOptions, OptionType
  <2>. QED
    BY <2>1, IdleInv DEF SetOptions, YInv, Typed
<1>2. ASSUME NEW b \in BOOLEAN, YInv, SetUpdate(b) PROVE YInv'
  <2>1. opt' \in OptionType
    BY <1>2, OptionExcept DEF SetUpdate, YInv, Typed, OptionType
  <2>. QED
    BY <1>2, <2>1, IdleInv DEF SetUpdate, YInv, Typed
<1>3. YInv /\ ClearResult => YInv'
  <2>. SUFFICES ASSUME YInv, ClearResult PROVE YInv'
    OBVIOUS
  <2>1. opt' = opt /\ opt \in OptionType /\ asked' = asked /\ asked \in Lists /\ clean' = TRUE
    BY DEF ClearResult, YInv, Typed
  <2>. QED
    BY <2>1, IdleInv DEF ClearResult
<1>. QED
  BY <1>1, <1>2, <1>3

\* What the invariant says does not depend on the version the server has.
LEMMA SameInv ==
    ASSUME YInv, server' \in Versions,
           UNCHANGED <<opt, asked, result, disk, targets, ret, clean, inherited, pc>>
    PROVE  YInv'
<1>1. Records' = Records /\ Succeeded' = Succeeded /\ \A o : Wanted(o)' = Wanted(o)
  BY DEF Records, Succeeded, Wanted
<1>2. Typed' /\ Scratch'
  BY DEF YInv, Typed, Scratch
<1>3. Checked'
  BY DEF YInv, Checked, Signed, Known
<1>4. Downloading'
  BY <1>1 DEF YInv, Downloading, Wanted, Records
<1>5. Listed'
  BY <1>1 DEF YInv, Listed, Switch
<1>6. Consistent'
  BY DEF YInv, Consistent
<1>7. WantedDelivered'
  BY <1>1 DEF YInv, WantedDelivered, Wanted, Records
<1>8. RepomdAuthentic'
  BY <1>1 DEF YInv, RepomdAuthentic
<1>. QED
  BY <1>2, <1>3, <1>4, <1>5, <1>6, <1>7, <1>8 DEF YInv

\* A call that fails leaves nothing to show but what its result is.
LEMMA FailsInv ==
    ASSUME YInv, Fails, Typed', targets' = NoTargets,
           ~result'.used => result' = EmptyResult
    PROVE  YInv'
<1>1. pc' = "returned" /\ ret' = "error" /\ clean' = FALSE
  BY DEF Fails, Returns
<1>2. ~Succeeded'
  BY <1>1 DEF Succeeded
<1>3. Scratch' /\ Checked' /\ Downloading' /\ Listed' /\ Consistent'
  BY <1>1, <1>2 DEF Scratch, Checked, Downloading, Listed, Consistent
<1>. QED
  BY <1>2, <1>3 DEF YInv, WantedDelivered, RepomdAuthentic

LEMMA RefusedInv == YInv /\ (Refused \/ BackToApplication) => YInv'
<1>1. YInv /\ Refused => YInv'
  <2>. SUFFICES ASSUME YInv, Refused PROVE YInv'
    OBVIOUS
  <2>1. /\ pc = "idle" /\ Fails
        /\ UNCHANGED <<opt, asked, result, disk, server, targets, inherited>>
        /\ pc' = "returned" /\ ret' = "error" /\ clean' = FALSE
    BY DEF Refused, Fails, Returns
  <2>2. Typed'
    BY <2>1 DEF YInv, Typed, Pcs
  <2>3. targets' = NoTargets /\ (~result'.used => result' = EmptyResult)
    BY <2>1 DEF YInv, Downloading, Scratch
  <2>. QED
    BY <2>1, <2>2, <2>3, FailsInv
<1>2. YInv /\ BackToApplication => YInv'
  <2>. SUFFICES ASSUME YInv, BackToApplication PROVE YInv'
    OBVIOUS
  <2>1. /\ pc = "returned" /\ pc' = "idle"
        /\ UNCHANGED <<opt, asked, result, disk, server, targets, ret, clean, inherited>>
    BY DEF BackToApplication
  <2>2. ~Succeeded'
    BY <2>1 DEF Succeeded
  <2>3. Typed' /\ Scratch' /\ Checked' /\ Downloading' /\ Listed' /\ Consistent'
    BY <2>1, <2>2 DEF YInv, Typed, Pcs, Scratch, Checked, Downloading, Listed, Consistent
  <2>. QED
    BY <2>2, <2>3 DEF YInv, WantedDelivered, RepomdAuthentic
<1>. QED
  BY <1>1, <1>2

-------------------------------------------------------------------------------
(* lr_yum_download_remote().                                               *)

LEMMA RemoteInv == YInv /\ DownloadRemote => YInv'
<1>. SUFFICES ASSUME YInv, DownloadRemote PROVE YInv'
  OBVIOUS
<1>1. /\ pc = "idle" /\ ~opt.local /\ Usable
      /\ inherited' = (opt.yumdlist # asked) /\ result' = [result EXCEPT !.used = TRUE]
      /\ UNCHANGED <<opt, asked, server, targets, ret, clean>>
      /\ IF opt.update THEN pc' = "prepare" /\ disk' = disk
         ELSE pc' = "repomd" /\ disk' = [disk EXCEPT !["repomd"] = Garbage]
  BY DEF DownloadRemote
<1>2. result \in ResultType /\ targets = NoTargets
  BY <1>1 DEF YInv, Typed, Downloading
<1>3. /\ result'.used = TRUE /\ result'.paths = result.paths /\ result'.repomd = result.repomd
      /\ result' \in ResultType
  BY <1>1, <1>2 DEF ResultType
<1>4. Typed'
  <2>1. disk' \in [Files -> {Garbage, Absent} \cup Versions]
    BY <1>1 DEF YInv, Typed
  <2>. QED
    BY <1>1, <1>3, <2>1 DEF YInv, Typed, Pcs
<1>5. ~opt.update => result = EmptyResult
  BY <1>1 DEF YInv, Scratch, Usable
<1>6. ~Succeeded' /\ pc' \in {"repomd", "prepare"}
  BY <1>1 DEF Succeeded
<1>7. Scratch'
  <2>1. ~opt.update => result.paths = {}
    BY <1>5 DEF EmptyResult
  <2>. QED
    BY <1>1, <1>3, <2>1 DEF Scratch
<1>8. Checked' /\ Downloading' /\ Listed'
  BY <1>1, <1>2, <1>6 DEF Checked, Downloading, Listed
<1>9. Consistent'
  <2>1. CASE opt.update
    BY <1>1, <1>3, <2>1 DEF YInv, Consistent
  <2>2. CASE ~opt.update
    <3>1. result'.repomd = 0
      BY <1>3, <1>5, <2>2 DEF EmptyResult
    <3>. QED
      BY <3>1 DEF Consistent
  <2>. QED
    BY <2>1, <2>2
<1>. QED
  BY <1>4, <1>6, <1>7, <1>8, <1>9 DEF YInv, WantedDelivered, RepomdAuthentic

LEMMA RepomdInv == YInv /\ DownloadRepomd => YInv'
<1>. SUFFICES ASSUME YInv, DownloadRepomd PROVE YInv'
  OBVIOUS
<1>1. /\ pc = "repomd" /\ UNCHANGED <<opt, asked, result, server, targets, inherited>>
      /\ targets = NoTargets /\ ~opt.update /\ ~opt.local /\ result.paths = {}
  BY DEF DownloadRepomd, YInv, Scratch, Downloading
<1>2. ASSUME NEW v \in Served, opt.checksum /\ Hashes # {} => v \in Hashes,
             disk' = [disk EXCEPT !["repomd"] = v], pc' = "asc", UNCHANGED <<ret, clean>>
      PROVE  YInv'
  <2>1. v \in Versions \cup {Garbage}
    BY DEF Served, YInv, Typed
  <2>2. disk'["repomd"] = v /\ disk' \in [Files -> {Garbage, Absent} \cup Versions]
    BY <1>2, <2>1, RecordTypes DEF YInv, Typed
  <2>3. Typed'
    BY <1>1, <1>2, <2>2 DEF YInv, Typed, Pcs
  <2>4. v # Absent
    BY <2>1, RecordTypes, SMT DEF Garbage, Absent
  <2>5. ~Succeeded' /\ Scratch'
    BY <1>1, <1>2, <2>2, <2>4 DEF YInv, Scratch, Succeeded
  <2>6. Checked'
    BY <1>1, <1>2, <2>2 DEF Checked, Known
  <2>7. Downloading' /\ Listed' /\ Consistent'
    BY <1>1, <1>2, <2>5 DEF YInv, Downloading, Listed, Consistent
  <2>. QED
    BY <2>3, <2>5, <2>6, <2>7 DEF YInv, WantedDelivered, RepomdAuthentic
<1>3. CASE Fails /\ UNCHANGED disk
  <2>1. Typed'
    BY <1>1, <1>3 DEF Fails, Returns, YInv, Typed, Pcs
  <2>2. targets' = NoTargets /\ (~result'.used => result' = EmptyResult)
    BY <1>1 DEF YInv, Scratch
  <2>. QED
    BY <1>3, <2>1, <2>2, FailsInv
<1>. QED
  BY <1>2, <1>3 DEF DownloadRepomd

LEMMA AscInv == YInv /\ CheckAsc => YInv'
<1>. SUFFICES ASSUME YInv, CheckAsc PROVE YInv'
  OBVIOUS
<1>1. /\ pc = "asc" /\ UNCHANGED <<opt, asked, server, targets, inherited>>
      /\ targets = NoTargets /\ ~opt.update /\ ~opt.local /\ result.paths = {}
      /\ disk["repomd"] # Absent /\ result \in ResultType
      /\ disk["repomd"] # Garbage => Known(disk["repomd"])
  BY DEF CheckAsc, YInv, Typed, Scratch, Downloading, Checked
<1>2. /\ \A v \in Served : v \in {Garbage, Absent} \cup Versions
      /\ "asc" \in Files /\ "repomd" \in Files /\ "asc" # "repomd"
  BY RecordTypes DEF Served, YInv, Typed
<1>3. CASE ~opt.gpg
  <2>1. pc' = "parse" /\ UNCHANGED <<disk, result, ret, clean>>
    BY <1>3 DEF CheckAsc
  <2>2. Typed'
    BY <1>1, <2>1 DEF YInv, Typed, Pcs
  <2>3. ~Succeeded' /\ Scratch'
    BY <1>1, <2>1 DEF YInv, Scratch, Succeeded
  <2>4. Checked'
    BY <1>1, <1>3, <2>1 DEF Checked, Known, Signed
  <2>5. Downloading' /\ Listed' /\ Consistent'
    BY <1>1, <2>1, <2>3 DEF YInv, Downloading, Listed, Consistent
  <2>. QED
    BY <2>2, <2>3, <2>4, <2>5 DEF YInv, WantedDelivered, RepomdAuthentic
<1>4. ASSUME opt.gpg, Fails, disk' = [disk EXCEPT !["asc"] = Absent], UNCHANGED result
      PROVE  YInv'
  <2>1. disk' \in [Files -> {Garbage, Absent} \cup Versions]
    BY <1>4 DEF YInv, Typed
  <2>2. Typed'
    BY <1>1, <1>4, <2>1 DEF Fails, Returns, YInv, Typed, Pcs
  <2>3. targets' = NoTargets /\ (~result'.used => result' = EmptyResult)
    BY <1>1, <1>4 DEF YInv, Scratch
  <2>. QED
    BY <1>4, <2>2, <2>3, FailsInv
<1>5. ASSUME opt.gpg, NEW v \in Served, disk' = [disk EXCEPT !["asc"] = v],
             result' = [result EXCEPT !.signature = TRUE],
             IF RemoteSigned THEN pc' = "parse" /\ UNCHANGED <<ret, clean>> ELSE Fails
      PROVE  YInv'
  <2>1. /\ disk' \in [Files -> {Garbage, Absent} \cup Versions]
        /\ disk'["asc"] = v /\ disk'["repomd"] = disk["repomd"]
    BY <1>2, <1>5 DEF YInv, Typed
  <2>2. /\ result' \in ResultType /\ result'.signature = TRUE /\ result'.used = result.used
        /\ result'.paths = {} /\ result'.repomd = result.repomd
    BY <1>1, <1>5 DEF ResultType
  <2>3. result.used
    BY <1>1 DEF YInv, Scratch
  <2>4. CASE ~RemoteSigned
    <3>1. Fails
      BY <1>5, <2>4
    <3>2. Typed'
      BY <1>1, <2>1, <2>2, <3>1 DEF Fails, Returns, YInv, Typed, Pcs
    <3>. QED
      BY <1>1, <2>2, <2>3, <3>1, <3>2, FailsInv
  <2>5. CASE RemoteSigned
    <3>1. pc' = "parse" /\ UNCHANGED <<ret, clean>>
      BY <1>5, <2>5
    <3>2. Typed'
      BY <1>1, <2>1, <2>2, <3>1 DEF YInv, Typed, Pcs
    <3>3. ~Succeeded' /\ Scratch'
      BY <1>1, <2>1, <2>2, <2>3, <3>1 DEF YInv, Scratch, Succeeded
    <3>4. Checked'
      BY <1>1, <2>1, <2>2, <2>5, <3>1 DEF Checked, Known, Signed, RemoteSigned
    <3>5. Downloading' /\ Listed' /\ Consistent'
      BY <1>1, <2>2, <3>1, <3>3 DEF YInv, Downloading, Listed, Consistent
    <3>. QED
      BY <3>2, <3>3, <3>4, <3>5 DEF YInv, WantedDelivered, RepomdAuthentic
  <2>. QED
    BY <2>4, <2>5
<1>. QED
  BY <1>3, <1>4, <1>5 DEF CheckAsc

LEMMA ParseInv == YInv /\ ParseRepomd => YInv'
<1>. SUFFICES ASSUME YInv, ParseRepomd PROVE YInv'
  OBVIOUS
<1>1. /\ pc = "parse" /\ UNCHANGED <<opt, asked, disk, server, targets, inherited>>
      /\ targets = NoTargets /\ ~opt.update /\ ~opt.local /\ result.paths = {}
      /\ disk["repomd"] # Absent /\ result \in ResultType
      /\ disk["repomd"] # Garbage => Known(disk["repomd"])
      /\ Signed(disk["repomd"])
  BY DEF ParseRepomd, YInv, Typed, Scratch, Downloading, Checked
<1>2. CASE disk["repomd"] = Garbage
  <2>1. Fails /\ UNCHANGED result
    BY <1>2 DEF ParseRepomd
  <2>2. Typed'
    BY <1>1, <2>1 DEF Fails, Returns, YInv, Typed, Pcs
  <2>3. targets' = NoTargets /\ (~result'.used => result' = EmptyResult)
    BY <1>1, <2>1 DEF YInv, Scratch
  <2>. QED
    BY <2>1, <2>2, <2>3, FailsInv
<1>3. CASE disk["repomd"] # Garbage
  <2>1. /\ result' = [result EXCEPT !.repomd = disk["repomd"]] /\ pc' = "prepare"
        /\ UNCHANGED <<ret, clean>>
    BY <1>3 DEF ParseRepomd
  <2>2. disk["repomd"] \in Versions
    BY <1>1, <1>3, RecordTypes DEF YInv, Typed
  <2>3. /\ result' \in ResultType /\ result'.repomd = disk["repomd"] /\ result'.paths = {}
        /\ result'.signature = result.signature /\ result'.used = result.used
    BY <1>1, <2>1, <2>2 DEF ResultType
  <2>4. Typed'
    BY <1>1, <2>1, <2>3 DEF YInv, Typed, Pcs
  <2>5. result.used
    BY <1>1 DEF YInv, Scratch
  <2>6. ~Succeeded' /\ Scratch'
    BY <1>1, <2>1, <2>3, <2>5 DEF YInv, Scratch, Succeeded
  <2>7. Checked'
    BY <1>1, <1>3, <2>1, <2>3 DEF Checked, Known, Signed
  <2>8. Downloading' /\ Listed' /\ Consistent'
    BY <1>1, <2>1, <2>3, <2>6 DEF YInv, Downloading, Listed, Consistent
  <2>. QED
    BY <2>4, <2>6, <2>7, <2>8 DEF YInv, WantedDelivered, RepomdAuthentic
<1>. QED
  BY <1>2, <1>3

-------------------------------------------------------------------------------
(* lr_yum_download_repo().                                                 *)

LEMMA NoTargetsDomain == DOMAIN NoTargets = {}
BY DEF NoTargets

\* What becomes of the options when the zchunk version is preferred, in a repository of
\* version v.
SwitchedFor(v) == IF opt.cachedir /\ v # 0
                  THEN [opt EXCEPT !.yumdlist = Switched(@, v)] ELSE opt
RecordsFor(v) == IF v = 0 THEN {} ELSE RecordsOf[v]

LEMMA SwitchedOptions ==
    ASSUME NEW v, opt \in OptionType
    PROVE  /\ SwitchedFor(v) \in OptionType
           /\ SwitchedFor(v).local = opt.local /\ SwitchedFor(v).update = opt.update
           /\ SwitchedFor(v).checksum = opt.checksum /\ SwitchedFor(v).gpg = opt.gpg
           /\ SwitchedFor(v).ignoremissing = opt.ignoremissing
           /\ \/ SwitchedFor(v).yumdlist = opt.yumdlist
              \/ /\ opt.cachedir /\ opt.yumdlist # NULL /\ Zck \in RecordsFor(v)
                 /\ SwitchedFor(v).yumdlist = (opt.yumdlist \ {Plain}) \cup {Zck}
<1>1. CASE opt.cachedir /\ v # 0
  <2>1. SwitchedFor(v) = [opt EXCEPT !.yumdlist = Switched(opt.yumdlist, v)]
    BY <1>1 DEF SwitchedFor
  <2>2. opt.yumdlist \in Lists
    BY DEF OptionType
  <2>3. Switched(opt.yumdlist, v) \in Lists
    BY <2>2, SwitchedType
  <2>4. SwitchedFor(v) \in OptionType
    BY <2>1, <2>3, OptionExcept
  <2>5. SwitchedFor(v).yumdlist = Switched(opt.yumdlist, v)
    BY <2>1 DEF OptionType
  <2>6. \/ Switched(opt.yumdlist, v) = opt.yumdlist
        \/ /\ opt.yumdlist # NULL /\ Zck \in RecordsOf[v]
           /\ Switched(opt.yumdlist, v) = (opt.yumdlist \ {Plain}) \cup {Zck}
    BY Zenon DEF Switched
  <2>7. RecordsFor(v) = RecordsOf[v]
    BY <1>1 DEF RecordsFor
  <2>8. /\ SwitchedFor(v).local = opt.local /\ SwitchedFor(v).update = opt.update
        /\ SwitchedFor(v).checksum = opt.checksum /\ SwitchedFor(v).gpg = opt.gpg
        /\ SwitchedFor(v).ignoremissing = opt.ignoremissing
    BY <2>1 DEF OptionType
  <2>. QED
    BY <1>1, <2>4, <2>5, <2>6, <2>7, <2>8
<1>2. CASE ~(opt.cachedir /\ v # 0)
  BY <1>2 DEF SwitchedFor
<1>. QED
  BY <1>1, <1>2

LEMMA PrepareInv == YInv /\ PrepareTargets => YInv'
<1>. SUFFICES ASSUME YInv, PrepareTargets PROVE YInv'
  OBVIOUS
<1>. DEFINE W == Wanted(SwitchedOpt)
<1>1. PICK some \in SUBSET W :
         /\ result' = [result EXCEPT !.zchunk = opt.cachedir, !.paths = result.paths \cup some]
         /\ \/ /\ some = W /\ pc' = "records" /\ targets' = [t \in W |-> "pending"]
               /\ UNCHANGED <<ret, clean>>
            \/ Fails /\ UNCHANGED targets
  BY DEF PrepareTargets
<1>1a. pc = "prepare" /\ opt' = SwitchedOpt /\ UNCHANGED <<asked, disk, server, inherited>>
  BY DEF PrepareTargets
<1>2. /\ opt \in OptionType /\ result \in ResultType
      /\ result.used /\ ~opt.local /\ targets = NoTargets
  BY <1>1a DEF YInv, Typed, Scratch, Downloading
<1>3. W \subseteq Types /\ opt.cachedir \in BOOLEAN
  BY <1>2, WantedTypes DEF OptionType
<1>4. /\ result'.zchunk = opt.cachedir /\ result'.paths = result.paths \cup some
      /\ result'.used = result.used /\ result'.repomd = result.repomd
      /\ result'.signature = result.signature /\ result' \in ResultType
  <2>. HIDE DEF W
  <2>1. result.paths \cup some \in SUBSET Types
    BY <1>2, <1>3 DEF ResultType
  <2>. QED
    BY <1>1, <1>2, <1>3, <2>1 DEF ResultType
<1>5. Records' = Records /\ Wanted(opt)' = W
  BY <1>1a, <1>4 DEF Records, Wanted
<1>6. /\ opt' \in OptionType /\ opt'.local = opt.local /\ opt'.update = opt.update
      /\ opt'.checksum = opt.checksum /\ opt'.gpg = opt.gpg
      /\ \/ opt'.yumdlist = opt.yumdlist
         \/ /\ opt.cachedir /\ opt.yumdlist # NULL /\ Zck \in Records
            /\ opt'.yumdlist = (opt.yumdlist \ {Plain}) \cup {Zck}
  <2>1. opt' = SwitchedFor(result.repomd) /\ Records = RecordsFor(result.repomd)
    BY <1>1a, Zenon DEF SwitchedOpt, SwitchedFor, Records, RecordsFor
  <2>. QED
    BY <1>2, <2>1, SwitchedOptions
<1>. HIDE DEF W
<1>7. CASE /\ some = W /\ pc' = "records" /\ targets' = [t \in W |-> "pending"]
           /\ UNCHANGED <<ret, clean>>
  <2>1. targets' \in [W -> Fates] /\ DOMAIN targets' = W /\ \A t \in W : targets'[t] = "pending"
    BY <1>7 DEF Fates
  <2>2. Typed'
    BY <1>1a, <1>4, <1>6, <1>7, <2>1 DEF YInv, Typed, Pcs
  <2>3. ~Succeeded' /\ Scratch'
    BY <1>2, <1>4, <1>6, <1>7 DEF Scratch, Succeeded
  <2>4. Checked'
    BY <1>1a, <1>4, <1>6, <1>7 DEF YInv, Checked, Signed, Known
  <2>5. Downloading'
    BY <1>4, <1>5, <1>7, <2>1 DEF Downloading
  <2>6. Listed'
    BY <1>1a, <1>4, <1>5, <1>6, <1>7 DEF YInv, Listed, Switch
  <2>7. Consistent'
    <3>1. result'.paths \ DOMAIN targets' \subseteq result.paths \ DOMAIN targets
      BY <1>2, <1>4, <1>7, <2>1, NoTargetsDomain
    <3>. QED
      BY <1>1a, <1>4, <1>7, <3>1 DEF YInv, Consistent
  <2>. QED
    BY <2>2, <2>3, <2>4, <2>5, <2>6, <2>7 DEF YInv, WantedDelivered, RepomdAuthentic
<1>8. CASE Fails /\ UNCHANGED targets
  <2>1. Typed'
    BY <1>1a, <1>2, <1>4, <1>6, <1>8 DEF Fails, Returns, YInv, Typed, Pcs
  <2>2. targets' = NoTargets /\ (~result'.used => result' = EmptyResult)
    BY <1>2, <1>4, <1>8
  <2>. QED
    BY <1>8, <2>1, <2>2, FailsInv
<1>. QED
  BY <1>1, <1>7, <1>8

LEMMA RecordInv == \A t \in DOMAIN targets : YInv /\ DownloadRecord(t) => YInv'
<1>. SUFFICES ASSUME NEW t \in DOMAIN targets, YInv, DownloadRecord(t) PROVE YInv'
  OBVIOUS
<1>1. /\ pc = "records"
      /\ UNCHANGED <<opt, asked, result, server, ret, clean, inherited, pc>>
      /\ DOMAIN targets = Wanted(opt) /\ result \in ResultType
  BY DEF DownloadRecord, YInv, Typed, Downloading
<1>2. t \in Types /\ t # "asc" /\ t # "repomd" /\ t \in Files
  <2>1. t \in Wanted(opt)
    BY <1>1
  <2>. QED
    BY <1>1, <2>1, WantedTypes, RecordTypes
<1>3. PICK v \in {Garbage, Absent} \cup Versions, f \in Fates :
          /\ disk' = [disk EXCEPT ![t] = v] /\ targets' = [targets EXCEPT ![t] = f]
          /\ f = "ok" /\ opt.checksum /\ t \in Summed => v = result.repomd
  <2>1. \A v \in Served : v \in {Garbage, Absent} \cup Versions
    BY DEF Served, YInv, Typed
  <2>. QED
    BY <2>1, Zenon DEF DownloadRecord, Matches, Fates
<1>4. /\ disk' \in [Files -> {Garbage, Absent} \cup Versions]
      /\ disk'[t] = v /\ \A u \in Files : u # t => disk'[u] = disk[u]
      /\ DOMAIN targets' = DOMAIN targets /\ targets' \in [DOMAIN targets -> Fates]
      /\ targets'[t] = f /\ \A u \in DOMAIN targets : u # t => targets'[u] = targets[u]
  BY <1>2, <1>3 DEF YInv, Typed
<1>5. disk'["asc"] = disk["asc"] /\ disk'["repomd"] = disk["repomd"]
  BY <1>2, <1>4, RecordTypes
<1>6. Records' = Records /\ Wanted(opt)' = Wanted(opt) /\ DOMAIN targets \subseteq Files
  BY <1>1, WantedTypes, RecordTypes DEF Records, Wanted
<1>7. Typed'
  BY <1>1, <1>4 DEF YInv, Typed
<1>8. ~Succeeded' /\ Scratch'
  BY <1>1, <1>5 DEF YInv, Scratch, Succeeded
<1>9. Checked'
  BY <1>1, <1>5 DEF YInv, Checked, Signed, Known
<1>10. Downloading'
  <2>1. ASSUME NEW u \in DOMAIN targets', targets'[u] = "ok" /\ opt'.checksum, u \in Summed
        PROVE  disk'[u] = result'.repomd
    <3>1. CASE u = t
      BY <1>1, <1>3, <1>4, <2>1, <3>1
    <3>2. CASE u # t
      <4>1. disk'[u] = disk[u] /\ targets'[u] = targets[u] /\ u \in DOMAIN targets
        BY <1>4, <1>6, <2>1, <3>2
      <4>. QED
        BY <1>1, <2>1, <4>1 DEF YInv, Downloading
    <3>. QED
      BY <3>1, <3>2
  <2>2. Wanted(opt) \subseteq result.paths
    BY <1>1 DEF YInv, Downloading
  <2>. QED
    BY <1>1, <1>4, <1>6, <2>1, <2>2 DEF Downloading
<1>11. Listed'
  BY <1>1, <1>6, <1>8 DEF YInv, Listed, Switch
<1>12. Consistent'
  <2>1. \A u \in result.paths \ DOMAIN targets : disk'[u] = disk[u]
    BY <1>1, <1>4, RecordTypes DEF ResultType
  <2>. QED
    BY <1>1, <1>4, <2>1 DEF YInv, Consistent
<1>. QED
  BY <1>7, <1>8, <1>9, <1>10, <1>11, <1>12 DEF YInv, WantedDelivered, RepomdAuthentic

LEMMA EndInv == YInv /\ RecordsEnd => YInv'
<1>. SUFFICES ASSUME YInv, RecordsEnd PROVE YInv'
  OBVIOUS
<1>1. /\ pc = "records" /\ With("pending") = {} /\ targets' = NoTargets
      /\ UNCHANGED <<opt, asked, result, disk, server, inherited>>
      /\ result.used /\ ~opt.local
      /\ IF SomeFailed THEN Fails ELSE Returns("ok")
  BY DEF RecordsEnd, YInv, Scratch
<1>2. CASE SomeFailed
  <2>1. Typed'
    BY <1>1, <1>2, EmptyResultType DEF Fails, Returns, YInv, Typed, Pcs
  <2>. QED
    BY <1>1, <1>2, <2>1, FailsInv
<1>3. CASE ~SomeFailed
  <2>1. pc' = "returned" /\ ret' = "ok" /\ clean' = (clean /\ opt.checksum)
    BY <1>1, <1>3 DEF Returns
  <2>2. opt.checksum \in BOOLEAN
    BY DEF YInv, Typed, OptionType
  <2>3. Typed'
    BY <1>1, <2>1, <2>2, EmptyResultType DEF YInv, Typed, Pcs
  <2>4. \A t \in DOMAIN targets : targets[t] = "ok"
    BY <1>1, <1>3 DEF YInv, Typed, Fates, With, SomeFailed
  <2>5. /\ DOMAIN targets = Wanted(opt) /\ Wanted(opt) \subseteq result.paths
        /\ opt.checksum => \A t \in Wanted(opt) \cap Summed : disk[t] = result.repomd
    BY <1>1, <2>4 DEF YInv, Downloading
  <2>6. Records' = Records /\ Wanted(opt)' = Wanted(opt)
    BY <1>1 DEF Records, Wanted
  <2>7. WantedDelivered'
    BY <1>1, <2>5, <2>6 DEF WantedDelivered
  <2>8. RepomdAuthentic'
    BY <1>1 DEF YInv, Checked, Signed, Known, RepomdAuthentic
  <2>9. Scratch' /\ Checked' /\ Downloading'
    BY <1>1, <2>1 DEF Scratch, Checked, Downloading
  <2>10. Listed'
    BY <1>1, <2>1, <2>6 DEF YInv, Listed, Switch
  <2>11. Consistent'
    <3>1. ASSUME clean', result.repomd # 0, NEW t \in result.paths \cap Summed
          PROVE  disk[t] = result.repomd
      <4>1. clean /\ opt.checksum
        BY <2>1, <3>1
      <4>2. CASE t \in DOMAIN targets
        BY <2>5, <4>1, <4>2
      <4>3. CASE t \notin DOMAIN targets
        BY <3>1, <4>1, <4>3 DEF YInv, Consistent
      <4>. QED
        BY <4>2, <4>3
    <3>. QED
      BY <1>1, <3>1 DEF Consistent
  <2>. QED
    BY <2>3, <2>7, <2>8, <2>9, <2>10, <2>11 DEF YInv
<1>. QED
  BY <1>2, <1>3

LEMMA AbortInv == YInv /\ Abort => YInv'
<1>. SUFFICES ASSUME YInv, Abort PROVE YInv'
  OBVIOUS
<1>1. /\ pc = "records" /\ Fails /\ targets' = NoTargets /\ result.used
      /\ disk' = [f \in Files |-> IF f \in With("pending") THEN Absent ELSE disk[f]]
      /\ UNCHANGED <<opt, asked, result, server, inherited>>
  BY DEF Abort, YInv, Scratch
<1>2. disk' \in [Files -> {Garbage, Absent} \cup Versions]
  BY <1>1 DEF YInv, Typed
<1>3. Typed'
  BY <1>1, <1>2, EmptyResultType DEF Fails, Returns, YInv, Typed, Pcs
<1>. QED
  BY <1>1, <1>3, FailsInv

LEMMA CrashInv == YInv /\ Crash => YInv'
<1>. SUFFICES ASSUME YInv, Crash PROVE YInv'
  OBVIOUS
<1>1. PICK S : disk' = [f \in Files |-> IF f \in S THEN Garbage ELSE disk[f]]
  BY Zenon DEF Crash
<1>2. /\ result' = EmptyResult /\ targets' = NoTargets /\ clean' = TRUE
      /\ pc' = "idle" /\ ret' = "error" /\ opt' = [opt EXCEPT !.yumdlist = asked]
      /\ UNCHANGED <<asked, server, inherited>>
  BY DEF Crash
<1>3. disk' \in [Files -> {Garbage, Absent} \cup Versions]
  BY <1>1 DEF YInv, Typed
<1>4. opt' \in OptionType
  BY <1>2, OptionExcept DEF YInv, Typed
<1>5. Typed'
  BY <1>2, <1>3, <1>4, EmptyResultType DEF YInv, Typed, Pcs
<1>6. ~Succeeded' /\ result'.repomd = 0
  BY <1>2 DEF Succeeded, EmptyResult
<1>7. Scratch' /\ Checked' /\ Downloading' /\ Listed' /\ Consistent'
  BY <1>2, <1>6 DEF Scratch, Checked, Downloading, Listed, Consistent
<1>. QED
  BY <1>5, <1>6, <1>7 DEF YInv, WantedDelivered, RepomdAuthentic
-------------------------------------------------------------------------------
(* lr_yum_use_local().                                                     *)

\* What the records of r are looked for with; see UseLocal.
LocalBase == LET found == disk["repomd"] \in Versions
             IN [result EXCEPT !.used = TRUE,
                               !.repomd = IF found THEN disk["repomd"] ELSE 0,
                               !.signature = found /\ disk["asc"] # Absent]
LocalResult == [(IF opt.update THEN result ELSE LocalBase) EXCEPT !.zchunk = opt.cachedir]

LEMMA LocalBaseType ==
    ASSUME result \in ResultType
    PROVE  /\ LocalBase \in ResultType /\ LocalBase.used = TRUE
           /\ LocalBase.paths = result.paths
           /\ LocalBase.repomd = (IF disk["repomd"] \in Versions THEN disk["repomd"] ELSE 0)
           /\ LocalBase.signature = (disk["repomd"] \in Versions /\ disk["asc"] # Absent)
<1>. DEFINE v == IF disk["repomd"] \in Versions THEN disk["repomd"] ELSE 0
            s == disk["repomd"] \in Versions /\ disk["asc"] # Absent
<1>1. v \in {0} \cup Versions /\ s \in BOOLEAN
  OBVIOUS
<1>2. LocalBase = [result EXCEPT !.used = TRUE, !.repomd = v, !.signature = s]
  BY Zenon DEF LocalBase
<1>. HIDE DEF v, s
<1>3. /\ LocalBase \in ResultType /\ LocalBase.used = TRUE /\ LocalBase.paths = result.paths
      /\ LocalBase.repomd = v
  BY <1>1, <1>2 DEF ResultType
<1>4. LocalBase.signature = s
  BY <1>2, Zenon DEF ResultType
<1>. QED
  BY <1>3, <1>4, Zenon DEF v, s

LEMMA LocalInv == YInv /\ UseLocal => YInv'
<1>. SUFFICES ASSUME YInv, UseLocal PROVE YInv'
  OBVIOUS
<1>. DEFINE found == disk["repomd"] \in Versions
            r == LocalResult
            o == SwitchedFor(r.repomd)
            records == RecordsFor(r.repomd)
            wanted == {t \in records : Enabled(o, t, records)}
            there == {t \in wanted : disk[t] # Absent}
            paths == r.paths \cup there
            good == \A t \in (paths \cap records) \ NoSum : t \in Summed /\ disk[t] = r.repomd
<1>1. /\ pc = "idle" /\ opt.local /\ Usable /\ inherited' = (opt.yumdlist # asked)
      /\ UNCHANGED <<asked, disk, server, targets>>
      /\ IF ~opt.update /\ (~found \/ (opt.gpg /\ ~LocalSigned))
         THEN result' = LocalBase /\ Fails /\ opt' = opt
         ELSE opt' = o /\ Locate(r, o, records)
  BY Zenon DEF UseLocal, LocalBase, LocalResult, SwitchedFor, RecordsFor
<1>2. /\ opt \in OptionType /\ result \in ResultType /\ targets = NoTargets
      /\ opt.update \in BOOLEAN /\ opt.cachedir \in BOOLEAN /\ opt.checksum \in BOOLEAN
  BY <1>1 DEF YInv, Typed, Downloading, OptionType
<1>3. /\ LocalBase \in ResultType /\ LocalBase.used = TRUE /\ LocalBase.paths = result.paths
      /\ LocalBase.repomd = (IF disk["repomd"] \in Versions THEN disk["repomd"] ELSE 0)
      /\ LocalBase.signature = (disk["repomd"] \in Versions /\ disk["asc"] # Absent)
  BY <1>2, LocalBaseType
<1>4. CASE ~opt.update /\ (~found \/ (opt.gpg /\ ~LocalSigned))
  <2>1. result' = LocalBase /\ Fails /\ opt' = opt
    BY <1>1, <1>4
  <2>2. Typed'
    BY <1>1, <1>3, <2>1 DEF Fails, Returns, YInv, Typed, Pcs
  <2>. QED
    BY <1>1, <1>2, <1>3, <2>1, <2>2, FailsInv
<1>5. CASE ~(~opt.update /\ (~found \/ (opt.gpg /\ ~LocalSigned)))
  <2>1. opt' = o /\ Locate(r, o, records)
    BY <1>1, <1>5
  \* The result the records are looked for with.
  <2>2. /\ r \in ResultType /\ r.used = TRUE /\ r.paths = result.paths
        /\ r.zchunk = opt.cachedir
        /\ opt.update => r.repomd = result.repomd
        /\ ~opt.update => r.repomd = LocalBase.repomd /\ r.signature = LocalBase.signature
    <3>1. CASE opt.update
      <4>1. r = [result EXCEPT !.zchunk = opt.cachedir] /\ result.used
        BY <1>1, <3>1 DEF LocalResult, Usable
      <4>. QED
        BY <1>2, <3>1, <4>1 DEF ResultType
    <3>2. CASE ~opt.update
      <4>1. r = [LocalBase EXCEPT !.zchunk = opt.cachedir]
        BY <3>2 DEF LocalResult
      <4>. QED
        BY <1>2, <1>3, <3>2, <4>1 DEF ResultType
    <3>. QED
      BY <3>1, <3>2
  <2>3. ~opt.update => result.paths = {}
    BY <1>1 DEF Usable, YInv, Scratch, EmptyResult
  <2>. HIDE DEF r
  <2>4. /\ o \in OptionType /\ o.local = opt.local /\ o.update = opt.update
        /\ o.checksum = opt.checksum /\ o.gpg = opt.gpg
        /\ o.ignoremissing = opt.ignoremissing
        /\ \/ o.yumdlist = opt.yumdlist
           \/ /\ opt.cachedir /\ opt.yumdlist # NULL /\ Zck \in RecordsFor(r.repomd)
              /\ o.yumdlist = (opt.yumdlist \ {Plain}) \cup {Zck}
    BY <1>2, SwitchedOptions
  <2>5. records \subseteq Types /\ wanted \subseteq records /\ there \subseteq wanted
    BY <2>2, RecordTypes DEF RecordsFor, ResultType
  <2>. HIDE DEF o, records
  <2>6. there \subseteq Types /\ r.paths \subseteq Types
    BY <2>2, <2>5 DEF ResultType
  <2>7. CASE \E some \in SUBSET there : result' = [r EXCEPT !.paths = @ \cup some] /\ Fails
    <3>1. PICK some \in SUBSET there : result' = [r EXCEPT !.paths = r.paths \cup some] /\ Fails
      BY <2>7
    <3>2. r.paths \cup some \in SUBSET Types
      BY <2>6
    <3>3. result' \in ResultType /\ result'.used = TRUE
      BY <2>2, <3>1, <3>2 DEF ResultType
    <3>4. Typed'
      BY <1>1, <2>1, <2>4, <3>1, <3>3 DEF Fails, Returns, YInv, Typed, Pcs
    <3>. QED
      BY <1>1, <1>2, <3>1, <3>3, <3>4, FailsInv
  <2>8. CASE /\ wanted \subseteq paths \/ o.ignoremissing
             /\ result' = [r EXCEPT !.paths = paths]
             /\ IF o.checksum /\ ~good THEN Fails ELSE Returns("ok")
    <3>1. paths \in SUBSET Types
      BY <2>6
    <3>. HIDE DEF paths, good
    <3>2. /\ result' \in ResultType /\ result'.used = TRUE /\ result'.paths = paths
          /\ result'.repomd = r.repomd /\ result'.zchunk = opt.cachedir
          /\ result'.signature = r.signature
      BY <2>2, <2>8, <3>1 DEF ResultType
    <3>3. CASE o.checksum /\ ~good
      <4>1. Fails
        BY <2>8, <3>3
      <4>2. Typed'
        BY <1>1, <2>1, <2>4, <3>2, <4>1 DEF Fails, Returns, YInv, Typed, Pcs
      <4>. QED
        BY <1>1, <1>2, <3>2, <4>1, <4>2, FailsInv
    <3>4. CASE o.checksum => good
      <4>1. pc' = "returned" /\ ret' = "ok" /\ clean' = (clean /\ opt.checksum)
        BY <2>8, <3>4 DEF Returns
      <4>2. Typed'
        BY <1>1, <1>2, <2>1, <2>4, <3>2, <4>1 DEF YInv, Typed, Pcs
      <4>3. Records' = records /\ Wanted(opt)' = wanted
        BY <2>1, <3>2 DEF Records, records, RecordsFor, Wanted
      <4>4. \A t \in paths \cap records : opt.checksum /\ t \in Summed => disk[t] = r.repomd
        BY <2>4, <3>4 DEF good, Summed
      <4>5. WantedDelivered'
        <5>1. ASSUME NEW t \in wanted
              PROVE  /\ t \in paths \/ o.ignoremissing
                     /\ t \in paths \cap Summed /\ opt.checksum => disk[t] = r.repomd
          BY <2>5, <2>8, <4>4 DEF paths
        <5>. QED
          BY <1>1, <2>1, <2>4, <3>2, <4>3, <5>1 DEF WantedDelivered
      <4>6. RepomdAuthentic'
        <5>1. ASSUME ~opt.update, opt.gpg
              PROVE  result'.signature /\ disk'["asc"] = result'.repomd
          <6>1. disk["repomd"] \in Versions /\ disk["asc"] = disk["repomd"]
            BY <1>5, <5>1 DEF LocalSigned
          <6>. QED
            BY <1>1, <1>3, <2>2, <3>2, <5>1, <6>1, RecordTypes
        <5>. QED
          BY <1>1, <2>1, <2>4, <5>1 DEF RepomdAuthentic
      <4>7. Scratch' /\ Checked' /\ Downloading'
        BY <1>1, <1>2, <3>2, <4>1 DEF Scratch, Checked, Downloading
      <4>8. Listed'
        BY <1>1, <2>1, <2>4, <3>2, <4>1, <4>3 DEF Listed, Switch, records
      <4>9. Consistent'
        <5>1. ASSUME clean', r.repomd # 0, NEW t \in paths \cap Summed
              PROVE  disk[t] = r.repomd
          <6>1. clean /\ opt.checksum
            BY <4>1, <5>1
          <6>2. CASE t \in records
            BY <4>4, <6>1, <6>2
          <6>3. CASE t \notin records
            <7>1. t \in result.paths /\ opt.update /\ r.repomd = result.repomd
              BY <2>2, <2>3, <2>5, <5>1, <6>3 DEF paths
            <7>. QED
              BY <1>2, <5>1, <6>1, <7>1, NoTargetsDomain DEF YInv, Consistent
          <6>. QED
            BY <6>2, <6>3
        <5>. QED
          BY <1>1, <3>2, <5>1 DEF Consistent
      <4>. QED
        BY <4>2, <4>5, <4>6, <4>7, <4>8, <4>9 DEF YInv
    <3>. QED
      BY <3>3, <3>4
  <2>. QED
    BY <2>1, <2>7, <2>8, Zenon DEF Locate
<1>. QED
  BY <1>4, <1>5

-------------------------------------------------------------------------------
(* Every step.                                                             *)

LEMMA StepInv == YInv /\ [Next]_vars => YInv'
<1>1. YInv /\ (ServerMoves \/ Finished \/ UNCHANGED vars) => YInv'
  <2>. SUFFICES ASSUME YInv, ServerMoves \/ Finished \/ UNCHANGED vars PROVE YInv'
    OBVIOUS
  <2>1. /\ server' \in Versions
        /\ UNCHANGED <<opt, asked, result, disk, targets, ret, clean, inherited, pc>>
    BY DEF ServerMoves, Finished, vars, YInv, Typed
  <2>. QED
    BY <2>1, SameInv
<1>. QED
  BY <1>1, ApplicationInv, RefusedInv, LocalInv, RemoteInv, RepomdInv, AscInv, ParseInv,
     PrepareInv, RecordInv, EndInv, AbortInv, CrashInv DEF Next

THEOREM Invariance == Spec => []YInv
<1>. QED
  BY InitInv, StepInv, PTL DEF Spec

-------------------------------------------------------------------------------
(* The theorems.                                                           *)

\* A call that returned TRUE found every record that is wanted, and the files are those
\* of the result's repomd.xml (RecordsEnd, Locate).
THEOREM WantedDeliveredHolds == Spec => []WantedDelivered
<1>1. YInv => WantedDelivered
  BY DEF YInv
<1>. QED
  BY <1>1, Invariance, PTL

\* What an accepted repomd.xml was checked against belongs to it (CheckAsc,
\* DownloadRepomd, UseLocal).
THEOREM RepomdAuthenticHolds == Spec => []RepomdAuthentic
<1>1. YInv => RepomdAuthentic
  BY DEF YInv
<1>. QED
  BY <1>1, Invariance, PTL

\* What the application asked for can be had under the name it used, although the call
\* puts the zchunk version into the list (Switched).
THEOREM AskedDeliveredHolds == Spec => []AskedDelivered
<1>1. ASSUME YInv, Succeeded, asked # NULL, ~opt.ignoremissing, ~inherited,
             NEW t \in asked \cap Records, {t, Zck} \cap opt.yumblist = {}
      PROVE  RepoPath(t)
  <2>1. Switch /\ WantedDelivered
    BY <1>1 DEF YInv, Listed
  <2>2. \A u \in Wanted(opt) : u \in result.paths
    BY <1>1, <2>1 DEF WantedDelivered
  <2>3. CASE t \in opt.yumdlist
    <3>1. t \in Wanted(opt)
      BY <1>1, <2>3 DEF Wanted, Enabled
    <3>. QED
      BY <2>2, <3>1 DEF RepoPath
  <2>4. CASE t \notin opt.yumdlist
    <3>1. result.zchunk /\ t = Plain /\ Zck \in opt.yumdlist /\ Zck \in Records
      BY <1>1, <2>1, <2>4 DEF Switch
    <3>2. Zck \in Wanted(opt)
      BY <1>1, <3>1 DEF Wanted, Enabled
    <3>. QED
      BY <2>2, <3>1, <3>2 DEF RepoPath
  <2>. QED
    BY <2>3, <2>4
<1>2. YInv => AskedDelivered
  BY <1>1 DEF AskedDelivered
<1>. QED
  BY <1>2, Invariance, PTL

\* A result whose calls all succeeded names files of one version only, over updates with
\* other lists of records while the server moves on (Locate, DownloadRecord, Returns).
THEOREM ResultConsistentHolds == Spec => []ResultConsistent
<1>1. YInv => ResultConsistent
  <2>. SUFFICES ASSUME YInv, pc = "returned", clean, result.repomd # 0,
                       NEW t \in result.paths \cap Summed
                PROVE  disk[t] = result.repomd
    BY DEF ResultConsistent
  <2>1. DOMAIN targets = {}
    BY NoTargetsDomain DEF YInv, Downloading
  <2>. QED
    BY <2>1 DEF YInv, Consistent
<1>. QED
  BY <1>1, Invariance, PTL
===============================================================================
