--------------------------- MODULE PackageDownloader ---------------------------
(***************************************************************************)
(* lr_download_packages() and lr_check_packages() of package_downloader.c, *)
(* together with the handle they use: a process that sets options,         *)
(* performs, downloads and checks the same packages with one handle, and   *)
(* is sent SIGINT.                                                         *)
(*                                                                         *)
(* Values of pc beside those of Handle: "examine" and "sort" before the    *)
(* download, "download" in lr_download(), "cleanup" at the label of that   *)
(* name, "checked" at the end of lr_check_packages().                      *)
(***************************************************************************)
EXTENDS Handle

CONSTANTS NumPackages, PackageKinds, Files, FailFastArgs, PackageFaults

Packages == 1 .. NumPackages

VARIABLES
    kind,      \* resume, and whether checksum and expectedsize are given
    disk,      \* the file at local_path
    err,       \* LrPackageTarget.err: "none" is NULL
    ends,      \* what the end callbacks were called with in this call
    resumed,   \* the packages whose LrDownloadTarget has resume set
    queue,     \* the packages with an LrDownloadTarget
    status,    \* what lr_download() decided of them
    failfast,
    next       \* the package the loop is at

packageVars == <<kind, disk, err, ends, resumed, queue, status, failfast, next>>
vars == <<handleVars, packageVars>>

\* A file may be smaller than the package, of its size with other contents,
\* bigger, or the package itself.
FileStates == {"absent", "partial", "other", "bigger", "package"}

ASSUME PackageAssumption ==
    /\ NumPackages \in Nat \ {0}
    /\ PackageKinds \subseteq [resume : BOOLEAN, checksum : BOOLEAN, sized : BOOLEAN]
    /\ Files \subseteq FileStates
    /\ FailFastArgs \subseteq BOOLEAN

PackageTypeOK ==
    /\ kind \in [Packages -> PackageKinds] /\ disk \in [Packages -> FileStates]
    /\ err \in [Packages -> {"none", "already", "failed", "bad checksum", "missing"}]
    /\ ends \in [Packages -> Seq({"SUCCESSFUL", "ALREADYEXISTS", "ERROR"})]
    /\ resumed \subseteq Packages /\ queue \subseteq Packages
    /\ status \in [Packages -> {"pending", "ok", "failed", "unfinished"}]
    /\ failfast \in BOOLEAN
    /\ next \in 1 .. NumPackages + 1

TypeOK == HandleTypeOK /\ PackageTypeOK

Init ==
    /\ HandleInit
    /\ kind \in [Packages -> PackageKinds]
    /\ disk \in [Packages -> Files]
    /\ err = [p \in Packages |-> "none"]
    /\ ends = [p \in Packages |-> <<>>]
    /\ resumed = {} /\ queue = {}
    /\ status = [p \in Packages |-> "pending"]
    /\ failfast \in FailFastArgs
    /\ next = 1

Exists(p) == disk[p] # "absent"
Result(p, e, how) == /\ err' = [err EXCEPT ![p] = e]
                     /\ ends' = [ends EXCEPT ![p] = Append(@, how)]
-------------------------------------------------------------------------------
(* lr_download_packages()                                                  *)

DownloadPackages ==
    /\ pc = "idle" /\ calls < MaxCalls
    /\ calls' = calls + 1
    /\ InstallHandler(opt.interruptible)
    /\ ends' = [p \in Packages |-> <<>>]
    /\ queue' = {} /\ resumed' = {} /\ next' = 1
    /\ status' = [p \in Packages |-> "pending"]
    /\ caller' = "packages" /\ pc' = "examine"
    /\ UNCHANGED <<optionVars, listVars, prepVars, ret, kind, disk, err, failfast>>

\* What is known of the file: its size is looked at only to resume.
SizeSeen(p) == kind[p].resume /\ kind[p].sized /\ Exists(p)
SizeMatches(p) == SizeSeen(p) /\ disk[p] \in {"other", "package"}

\* Checksums cannot be computed of a file that fails to be read.
Verdicts(p) ==
    IF ~Exists(p) \/ ~kind[p].checksum THEN {"unknown"}
    ELSE {IF disk[p] = "package" THEN "match" ELSE "mismatch"}
         \cup (IF "read" \in PackageFaults THEN {"unknown"} ELSE {})

\* Mutant: a file of another origin but of the right size is resumed.
ResumesAnySize(p, verdict) == kind[p].resume /\ ~(SizeSeen(p) /\ disk[p] = "bigger")

Resumes(p, verdict) ==
    /\ kind[p].resume
    /\ ~(SizeSeen(p) /\ disk[p] = "bigger")
    /\ ~(verdict = "mismatch" /\ SizeMatches(p))

AlreadyThere(p, verdict) ==
    verdict = "match" \/ (Resumes(p, verdict) /\ SizeMatches(p))

\* One round of the loop up to the preparation of the handle.
Examine ==
    /\ pc = "examine" /\ next \in Packages
    /\ \E verdict \in Verdicts(next) :
          IF AlreadyThere(next, verdict)
          THEN /\ Result(next, "already", "ALREADYEXISTS")
               /\ next' = next + 1
               /\ UNCHANGED <<resumed, prepVars, caller, ret, pc>>
          ELSE /\ err' = [err EXCEPT ![next] = "none"]
               /\ resumed' = IF Resumes(next, verdict) THEN resumed \cup {next} ELSE resumed
               /\ EnterPrepare("packages")
               /\ UNCHANGED <<ends, next>>
    /\ UNCHANGED <<optionVars, listVars, signalVars, calls, kind, disk, queue, status, failfast>>

\* The handle is prepared: the package gets its LrDownloadTarget, or the loop is
\* left for the cleanup.
Queue ==
    /\ pc = "prepared" /\ caller = "packages"
    /\ IF ret = "ok"
       THEN queue' = queue \cup {next} /\ next' = next + 1 /\ pc' = "examine"
       ELSE pc' = "cleanup" /\ UNCHANGED <<queue, next>>
    /\ UNCHANGED <<optionVars, listVars, prepVars, signalVars, caller, ret, calls,
                   kind, disk, err, ends, resumed, status, failfast>>

\* The end of the loop: the mirrors of the handles that packages were queued for
\* are sorted.  When that fails the call returns without any cleanup.
Sort ==
    /\ pc = "examine" /\ next > NumPackages
    /\ \/ pc' = "download" /\ UNCHANGED ret
       \/ /\ opt.fastestmirror /\ queue # {} /\ "sort" \in HandleFaults
          /\ pc' = "idle" /\ ret' = "error"
    /\ UNCHANGED <<optionVars, listVars, prepVars, signalVars, caller, calls, packageVars>>

Unfinished == {p \in queue : status[p] = "pending"}
Failed == {p \in queue : status[p] = "failed"}

\* Files of downloads that did not finish are kept to be resumed, or removed.
Leftover(p) == IF p \in resumed /\ Exists(p) THEN disk[p] ELSE "absent"

\* lr_download() decides a package.
Decide(p, ok) ==
    /\ pc = "download" /\ p \in Unfinished
    /\ failfast => Failed = {}
    /\ status' = [status EXCEPT ![p] = IF ok THEN "ok" ELSE "failed"]
    /\ ends' = [ends EXCEPT ![p] = Append(@, IF ok THEN "SUCCESSFUL" ELSE "ERROR")]
    /\ disk' = [disk EXCEPT ![p] = IF ok THEN "package" ELSE Leftover(p)]
    /\ UNCHANGED <<handleVars, kind, err, resumed, queue, failfast, next>>

DownloadReturnsTrue ==
    /\ pc = "download" /\ Unfinished = {} /\ (failfast => Failed = {})
    /\ pc' = "cleanup" /\ ret' = "ok"
    /\ UNCHANGED <<optionVars, listVars, prepVars, signalVars, caller, calls, packageVars>>

\* lr_download() fails as a whole; the packages of S were running and are told.
DownloadReturnsFalse(S) ==
    /\ pc = "download" /\ S \subseteq Unfinished
    /\ interrupt \/ (failfast /\ Failed # {})
    /\ pc' = "cleanup" /\ ret' = "error"
    /\ status' = [p \in Packages |-> IF p \in S THEN "unfinished" ELSE status[p]]
    /\ ends' = [p \in Packages |-> IF p \in S THEN Append(ends[p], "ERROR") ELSE ends[p]]
    /\ disk' = [p \in Packages |-> IF p \in Unfinished THEN Leftover(p) ELSE disk[p]]
    /\ UNCHANGED <<optionVars, listVars, prepVars, signalVars, caller, calls,
                   kind, err, resumed, queue, failfast, next>>

\* Mutant: only the packages that were decided get their error.
CleanupDecidedOnly ==
    /\ pc = "cleanup"
    /\ err' = [p \in Packages |-> IF p \in queue /\ status[p] = "unfinished" THEN "failed" ELSE err[p]]
    /\ RestoreHandler(opt.interruptible, ret)
    /\ UNCHANGED <<optionVars, listVars, prepVars, caller, calls,
                   kind, disk, ends, resumed, queue, status, failfast, next>>

\* The label cleanup: errors are copied from the LrDownloadTargets.
Cleanup ==
    /\ pc = "cleanup"
    /\ err' = [p \in Packages |->
                 IF p \in queue /\ status[p] \in {"failed", "unfinished"} THEN "failed" ELSE err[p]]
    /\ RestoreHandler(opt.interruptible, ret)
    /\ UNCHANGED <<optionVars, listVars, prepVars, caller, calls,
                   kind, disk, ends, resumed, queue, status, failfast, next>>
-------------------------------------------------------------------------------
(* lr_check_packages()                                                     *)

Verdict(p) == IF ~Exists(p) THEN "missing"
              ELSE IF disk[p] = "package" THEN "none" ELSE "bad checksum"

\* Mutant: the first bad file itself is not marked.
LookedBefore == {p \in Packages : ~failfast \/ \A q \in Packages : q <= p => Verdict(q) = "none"}

\* With failfast nothing after the first bad file is looked at.
Looked == {p \in Packages : ~failfast \/ \A q \in Packages : q < p => Verdict(q) = "none"}

CheckPackages ==
    /\ pc = "idle" /\ calls < MaxCalls
    /\ \A p \in Packages : kind[p].checksum
    /\ calls' = calls + 1
    /\ InstallHandler(opt.interruptible)
    /\ err' = [p \in Packages |-> IF p \in Looked THEN Verdict(p) ELSE err[p]]
    /\ ret' = IF failfast /\ \E p \in Packages : Verdict(p) # "none" THEN "error" ELSE "ok"
    /\ caller' = "check" /\ pc' = "checked"
    /\ UNCHANGED <<optionVars, listVars, prepVars, kind, disk, ends, resumed, queue, status, failfast, next>>

CheckReturns ==
    /\ pc = "checked"
    /\ RestoreHandler(opt.interruptible, ret)
    /\ UNCHANGED <<optionVars, listVars, prepVars, caller, calls, packageVars>>
-------------------------------------------------------------------------------
HandleSteps == HandleNext /\ UNCHANGED packageVars

Finished == /\ pc = "idle" /\ calls = MaxCalls /\ UNCHANGED vars

Next == \/ HandleSteps
        \/ DownloadPackages \/ Examine \/ Queue \/ Sort
        \/ \E p \in Packages, ok \in BOOLEAN : Decide(p, ok)
        \/ DownloadReturnsTrue \/ (\E S \in SUBSET Packages : DownloadReturnsFalse(S))
        \/ Cleanup
        \/ CheckPackages \/ CheckReturns
        \/ Finished

Spec == Init /\ [][Next]_vars
-------------------------------------------------------------------------------
(* Properties                                                              *)

\* The mirrors used for transfers are those of the options as they are now: each
\* list only if its URL is set, from that URL, then the base URLs in their order
\* up to one without a path.  Nothing an earlier value of an option, a local
\* repository or a failed preparation left behind may be among them.
PreparedFromOptions ==
    internal # <<>> =>
        \E used \in SUBSET {l \in Lists : opt[l] # NULL} :
            [i \in DOMAIN internal |-> <<internal[i].source, internal[i].from>>] =
                (IF "mirrorlist" \in used THEN <<<<"mirrorlist", opt.mirrorlist>>>> ELSE <<>>)
                \o (IF "metalink" \in used THEN <<<<"metalink", opt.metalink>>>> ELSE <<>>)
                \o [i \in DOMAIN UpToLost |-> <<"urls", UpToLost[i]>>]

\* A list that was parsed has its descriptor, which the repository's copy of
\* the list is made from (lr_store_mirrorlist_files(), lr_copy_metalink_content()).
ParsedListHasDescriptor ==
    \A l \in Lists : mirrors[l] # <<>> => fd[l] = "open"

\* What lr_download_packages() says of the packages, by the error it leaves and by
\* the end callbacks, agrees with what is on the disk when it returns TRUE, and no
\* package's end is reported twice in a call however it returns.
PackagesReported ==
    /\ \A p \in Packages : Len(ends[p]) <= 1
    /\ pc = "idle" /\ caller = "packages" /\ ret = "ok" =>
         \A p \in Packages :
            \/ err[p] = "none" /\ ends[p] = <<"SUCCESSFUL">> /\ disk[p] = "package"
            \/ err[p] = "already" /\ ends[p] = <<"ALREADYEXISTS">>
            \/ err[p] = "failed" /\ ends[p] = <<"ERROR">>

\* A package with a checksum is not taken for downloaded unless it is (a file whose
\* checksum cannot be computed is left out: see the hazards).
AlreadyMeansVerified ==
    \A p \in Packages :
        ends[p] = <<"ALREADYEXISTS">> /\ kind[p].checksum => disk[p] = "package"

\* A check has marked exactly the bad files: all of them, or those up to the first
\* one when it fails fast.  Marks of earlier calls do not survive it.
CheckMarksBadFiles ==
    pc = "checked" =>
        LET bad == {p \in Packages : disk[p] # "package"}
            seen == IF ret = "ok" THEN Packages
                    ELSE {p \in Packages : \A q \in bad : q >= p}
        IN /\ ret = "error" => bad \cap seen # {}
           /\ \A p \in seen : err[p] = "none" <=> p \notin bad
===============================================================================
