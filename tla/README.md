# librepo in TLA+

librepo downloads the metadata and the packages of RPM repositories with libcurl.
This directory models what its code decides over time: which file is fetched
from which mirror, what is kept of a broken download, what a call leaves behind
for the next one, and what it reports. TLC checks the models on small instances;
TLAPS proves the main properties for every value of the constants.

## 1. The system

### Components

| component | state it keeps | correct if | module |
|---|---|---|---|
| **Transfer scheduler**, `lr_download()` in downloader.c | running transfers, an `LrTarget` per target, an `LrMirror` per mirror, the order of the mirrors | limits hold, counters agree with what runs, every target is reported as it ended, none waits forever, every call returns | `Downloader` |
| **File of a target**, same file | the file, its attribute `user.librepo.downloadinprogress`, the position, `resume`, `original_offset`, the byte range | a finished file holds exactly what was asked for | `TransferFile` |
| **Zchunk transfers**, same file | `zck_state`, the zchunk context, `max_ranges` | finished only when complete and valid, nothing fetched twice or lost, the phases end | `Zchunk` |
| **Combined callbacks**, same file | `repomd_records_to_download`, `..._downloaded` | one end callback per repository | `MetadataDownloader` |
| **Package downloader** | the packages' files, errors and queue | each package is reported once, as it is on the disk | `PackageDownloader` |
| **Metadata downloader** | download targets of three phases, errors, `LrYumRepoMd` | repositories are independent, what is changed in the handles is put back | `MetadataDownloader` |
| **Yum repository** | `LrResult`, the directory, `LRO_YUMDLIST` | the result names only what was obtained, checked, and of one version | `YumRepo` |
| **Handle** | options, the lists made of them, descriptors, the SIGINT handler | the lists are those of the options | `Handle` |
| **Fastest mirror** | connection times, the cache file | a permutation of each list in the order of the times; no old time is used | `FastestMirror` |
| **Repomd, metalink and XML** | the state machine of the parser, the document | the document built is what the elements mean | `XmlParser`, `Repomd`, `Metalink`, `Documents` |
| **Repository configuration** | key files, their modified marks, the disk | what was set is read, lists are read however their lines break | `RepoConf` |
| Mirror lists, checksums, URL substitution, signatures, utilities, Python bindings | parsed data | see "Not modelled" | |

The handle calls the yum repository or is given to one of the two downloaders;
each prepares the handle's internal mirrorlist, makes a list of
`LrDownloadTarget` and calls `lr_download()`, which calls back for progress, for a
mirror that failed and for a target that ended. `lr_interrupt`, set by the SIGINT
handler, is the only state shared beyond these calls.

### What is hard

The code is single threaded, but libcurl ends transfers in any order and several
at a time, callbacks can stop the call in the middle of the messages, and what a
transfer's end does to a mirror is read by every other target. Retries, second
chances and reuse of mirrors form loops whose end depends on counters changed
elsewhere. A file is shared by several attempts with different rules on what is
kept, by several calls, and survives a killed process; the server moves on
between two calls, and other processes write the caches and the configuration.
Most functions have many early returns, and what they put back differs between
them. `hazards` in PROJECT.json lists the places.

## 2. Modules

`DownloadSpec` is the interface of the composition: it says what `lr_download()`
promises. Every target is decided at most once and reported once when it is; `TRUE`
only when all are decided; nothing is decided after a failure with failfast.
`Downloader` implements it for the targets `lr_download()` does not refuse as offline
(checked and proved), and the modules of its callers
(`PackageDownloader`, `MetadataDownloader`, `YumRepo`) take their downloads to be
what it allows: `Decide` for one file, `FatalError`, `CallbackFails` or `DownloadReturnsFalse`
for a call that ends with some of them open. `PackageDownloader` extends `Handle`:
one process sets options, performs, downloads and checks packages, and is sent
SIGINT. `Documents` extends `Repomd` and `Metalink`, which share `XmlParser` as the C
files share xmlparser.c.

Definitions after a comment "Mutant:" are wrong variants of the definition that
follows; nothing refers to them. Replacing the definition by the variant makes the
property PROJECT.json names fail.

### Downloader

`pc` is the place in the code between two calls out of it. One action is one of: an
exit of `select_next_target()` with the start of the transfer it chose
(`EmptyMirrorlist`, `MirrorsExhausted`, `StartFromMirror`, `StartFromUrl`,
`OfflineUrl`), the end of `prepare_next_transfers()` (`EndPrepare`), libcurl ending
a transfer (`CurlFinishes`), the return of `curl_multi_perform()` (`PerformReturns`,
`CurlmFails`), one message of `check_transfer_statuses()` (`TransferSucceeds`,
`TransferIsRetried`, `TransferFails`, `ChecksumFails`), the end of its loop
(`EndCheck`), and the clean up (`Cleanup`).

| variable | code |
|---|---|
| `state`, `mirror`, `tried` | `LrTarget.state`, `.mirror`, `.tried_mirrors` (a bag: only membership and length are read) |
| `rcode`, `ends` | `LrDownloadTarget.rcode`; the calls of its end callback |
| `file`, `outcome` | whether the file from before the call was written to or removed; libcurl's message |
| `stat`, `lrmirrors` | the `LrMirror` counters; the handle's list |
| `active`, `free_slots`, `interrupt`, `err`, `failfast` | `LrDownload.running_transfers` and the same names in the code |

An outcome stands for all that `check_finished_transfer_status()` and the checksum
can say: `ok`, `error`, `serious` (a timeout), `fatal`, `cb_error`. A mirror's limit is
set when it is first used instead of first looked at: one that is passed over has
running transfers, so was used before. The scan of the targets is the predicate
`NextTarget(t)`. Rounds of `lr_perform()` in which nothing ended are left out.
`CurlmFails` also stands for failures to set speed limits, `OpenFails` for failures to
make a curl handle. Ranks of mirrors are compared as fractions instead of doubles.
Targets have an end callback and are given by name; resuming and zchunk are the
business of the next two modules.

### TransferFile

A file is a sequence of bytes: `i > 0` is the i-th byte of what the target should
be, wherever it is; `Page`, `Stale`, `Hole` and `Foreign` tell the origin of others. So
misplaced, missing and foreign bytes are seen without contents. `Open` is
`prepare_next_transfer()`; `Write(k)` a call of `lr_writecb()` with `k` bytes;
`Finish`, `Retry` and `Fail` are `check_transfer_statuses()`, with
`truncate_transfer_file()` or the data that is kept; `Return` is the clean up of
`lr_download()`; `Crash` kills the process and `Call` starts the next call, for which the
callers give an empty file where they give a descriptor. `Wanted` is the target
from the start to the end of the range that was asked for. Whether a
failed attempt is retried is `Downloader`'s business and free here.

### Zchunk

The fields of a target and its zchunk context are one record, which each stage of
`check_zck()` (`FindLocalHeader`, `PrepHeader`, `CheckBody`, `PrepBody`, ...) takes and
returns, so that a start of an attempt is the composition of the stages in the order of
the code. The header and each chunk are `none`, `good` or `bad`; a request asks for the
header, for some chunks as at most `max_ranges` runs of neighbours, or for the whole
file. Mirrors refuse too many ranges (the limit is halved), break off, or deliver bad
chunks; the cache holds a file with the same header, some chunks, or nothing. libzck
is modelled by its documented contract and marked external.

### Handle and PackageDownloader

`opt` are the options; `mirrors`, `fd`, `internal` are what `lr_handle_setopt()` must drop
and `lr_handle_prepare_internal_mirrorlist()` makes: a step for each source (`"urls"`,
`"mirrorlist"`, `"metalink"`) and one that joins them. A mirror remembers the URL, the
list and the substitutions it came from. `sigaction`, `old_sigact` and `interrupt` are the
SIGINT handling of `lr_handle_perform()`, which the package downloader repeats.
`Examine` is a round of the loop that recognises complete files, `Queue`, `Sort`,
`Decide`, `DownloadReturnsTrue` or `...False`, `Cleanup` the rest of `lr_download_packages()`,
`CheckPackages` and `CheckReturns` the loop of `lr_check_packages()`. The state of a file
(`absent`, `partial`, `other`, `bigger`, `package`) is what sizes and checksums tell apart.

### MetadataDownloader

`items` are the download targets of the `lr_download()` at hand and their fates. The loops
over the repositories (`Prepare`, `Process`, `Collect`) take one at a time, since their
early exits and callbacks differ; `Told` is `lr_metadata_target_end_func()` with its two
counters. `callbacks` and `backups` are the end callbacks that are replaced in the handles
for the call, `tries` the factor of `LRO_ALLOWEDMIRRORFAILURES`, `fd`, `parsed` and
`prepared` the part of `Handle` that the propagated descriptors go to. `refused` are the
repositories with a file outside the destination (yum.c:756): their failure is ignored, so
they are told a success, and the error they set is behind the next assertion that there
is none. `Asserted` says which builds are there: with `assert()` the call ends in `Aborts`,
without it goes on. `Aborts` stands as well for the use of the targets that were freed when
a later file of a repository is refused; what that does is undefined.

### YumRepo

A file is the version of the repository it belongs to, `Absent` or `Garbage`, so that a
mixture of versions is seen. The server moves on between any two steps; `disk` survives
kills; `result` is the `LrResult` that an update goes on with. `opt.yumdlist` is rewritten by
`lr_yum_switch_to_zchunk()`, so `asked` keeps what the application set and `inherited`
whether a call found a list rewritten by an earlier one; `clean` says whether all calls
that filled the result succeeded. Records without a checksum (`NoSum`) and with one of an
unknown type (`OddSum`) are not checked when they are downloaded; a local repository with one
of an unknown type is refused. `PrepareTargets` may refuse a record outside the
destination, with the paths of those before it left in the result.

### FastestMirror, Documents, RepoConf

`FastestMirror`: loading the cache, measuring, storing and applying the order are steps of
their own, between which the clock, the network and other processes (`OtherProcess`)
move. `measured` is a history of all measurements and of their time, of this process and of
others, since what is stored with a record need not be when it was measured. `Shuffled`
is the set of orders the shuffling can give; `Applied` says where the
nested loops that move mirrors from the old list to the new one leave each: a mirror's
rank is the place of its host, or comes after all hosts, and the list is in the order
of the ranks. `Documents`: libxml2 delivers a well formed document element by element and may break
off; `pd` is the parser, `ctx` and `doc` what the handlers keep and build, and `meant` the
document by the paths of the elements, computed without the state machine. `RepoConf`: a
value is a sequence of words, separators and line breaks (`Tokens`); `files` are the loaded
`LrYumRepoFile`s, `disk` the files, and `given` what the application set last. `Joined` and
`Stripped` are what loading makes of a text, token by token: the ';' between two lines is
left out after anything that ends in '=' (`EndInEquals` are the words that do). `ReadAs`
and `WrittenAs` are the conversions of
`lr_yum_repoconf_getinfo()` and `lr_yum_repoconf_setopt()`. Of options of the same type one
stands for all. The key file's escapes are not modelled: `Settable` leaves out the values
that would need one (white space at the start, line ends, elements with separators), and a tab
inside a value, which is read back as a blank (repoconf.c:188).

## 3. Model checking

| run | instance | shows |
|---|---|---|
| `mirrors` | 4 targets, 2 mirrors of one handle, 2 slots, 2 connections per mirror, 2 tries, 2 allowed failures; timeouts and errors; with and without failfast | typing, `Bookkeeping`, `MirrorLimit`, `NothingStranded`, `FailuresAreContained`, `MirrorTryBudget`, `BadMirrorSkipped`; `Termination` |
| `mixed` | 5 targets: two from a local and a remote mirror, one with a complete local URL, one with a remote URL and an offline handle, one with an empty mirrorlist; 2 connections per mirror, 2 allowed failures; all outcomes, callback answers and failing calls, SIGINT at any time | every target is reported as it ended (`ReportedOnce`), no URL is tried too often (`UrlTryBudget`); `Downloader` implements `DownloadSpec` |
| `usual` | a target of 4 bytes; new, partial, complete and foreign files; whole and resumed downloads, ranges; 3 attempts, 2 calls | `SuccessIsExact`, `Aligned`, `GoodTransferAccepted` |
| `zchunk` | 6 chunks, mirrors that answer 1 and 2 ranges or a local one, 3 old files, 3 caches, 3 tries, 2 faults | `FinishedIsValid`, `RangesSurvive`, `NothingTwice`, `ProgressKept`; `Decided` |
| `calls` | 2 packages, one handle, 2 calls of perform, download or check with one change of an option and one SIGINT between any two steps; local and remote URLs with both lists | `PreparedFromOptions`, `ParsedListHasDescriptor`, `PackagesReported`, `AlreadyMeansVerified`, `CheckMarksBadFiles` |
| `repositories` | 2 repositories over 1 or 2 handles with 3 kinds of configuration, 2 records, all faults (files outside the destination among them), builds with and without assertions, a download and an update | `EndReportedOnce`, `NoErrorMeansComplete`, `CallbacksRestored`, `TriesScoped` |
| `yum` | 3 versions, one with a record without a checksum and one with a record of an unknown type, 5 sets of options, up to 4 calls and 4 changes, transfers that fail or bring garbage, refused records, kills | `WantedDelivered`, `AskedDelivered`, `RepomdAuthentic`, `ResultConsistent` |
| `fastest` | lists of 4 and 3 mirrors over 4 hosts, 5 latencies, 2 sortings, one event by the network or another process | `MirrorsKept`, `BestFirst`, `CachedIsRecent` |
| `documents` | every repomd.xml of 4 and metalink of 7 elements, with 2 elements out of place, attributes present or missing | `ParsedIsMeant`, `AssertionsHold` |
| `conf` | 2 files, 2 repositories, an option of each kind that matters, lines that end in '=', 2 settings, one edit from outside, saves that fail | `SetIsRead`, `ListsAreRead` |
| `foreign`, `unranged` | | a disagreement of the code with its comments each, see 5 |

Bounds. In `mirrors` four targets over two slots let two wait while two run, and two
mirrors with limit 2 let both transfers share a mirror and a timeout lower the limit
under a running transfer; two allowed failures make mirrors bad and reused. In `mixed` two
targets can use the local mirror at once, so that the one that times out while the other
runs gets a second chance there. Adaptive sorting judges a mirror
after three transfers, which four targets with retries reach. In `usual` three
attempts are one more than resuming is tried, and two calls show what a kill leaves.
In `zchunk` six chunks give up to three runs of neighbours, more than either mirror
answers at once, from 8 ranges the limit is halved down to 1, and two faults let a retry
fail too. In `calls` two calls with a change between them are the shortest history in
which a stale list can be used, and two packages let one be decided while the other
is not. In `repositories` two records per repository tell the last file from the
others, and two repositories on one handle share its callbacks. In `yum` three
versions and four calls let an update see a server that moved twice, the third
version being one the metalink does not know. In `fastest` a record can be younger than
`MaxAge`, older, and older than the cache keeps it, and a record that was used can be stored
and loaded again by the second sorting. In `documents` seven elements reach a
url of a second file. Every bound is a guard; no run has a state constraint. The
systems of `fastest`, `documents`, `conf` and `zchunk` really stop, and these runs do not
check for deadlock; the others do, with a step of their own for a finished system.

`usual` leaves out by named constants (`UsualCase`, `CutDirty`): files of another origin
where a download should be resumed, resuming through a descriptor or with an end;
ranges that end before they start, and pages longer than a range; connections that
break inside a page with a bad status, and kills while the file holds bytes of one or
a hole. In these `SuccessIsExact` or `Aligned` does not hold of the code, see 5.
Likewise `calls` leaves out files that cannot be read.

Fairness. `FairSpec` of `Downloader`, for `Termination`: the loops of the code go on as long
as a step is enabled, hence weak fairness of their steps taken together; the handle
gives libcurl a connection timeout and a low speed limit, so it ends every transfer:
weak fairness of `CurlFinishes(t, _)` for every target. Nothing is assumed of outcomes,
SIGINT or failures. `Zchunk`, for `Decided`: weak fairness of `Next`, since `lr_perform()`
goes on while its target waits or runs; faults are bounded by `MaxFaults`, because a
mirror that serves a bad chunk forever does keep the real call from ending.

## 4. Proofs

The proofs hold for all values of the constants that satisfy the named assumptions of
the modules, none of which says more than the code ensures: what the handle enforces of
its options, that lists and sets of mirrors and records are finite, that repomd.xml and
its signature are not records of the repository, that a metalink is searched for a name
(metalink.c:480), that a mirror structure belongs to one place of one list
(`lr_prepare_lrmirrors()` allocates each), that a caller of `lr_yum_repoconf_setopt()` sets
values of the option's type that need no escapes in a key file, and numbers that a double
holds (`ConfAssumption`: `lr_convert_interval_to_seconds()` and its like read doubles).

| module | theorems |
|---|---|
| `DownloaderProofs` | `Invariant`, `Typing`, `MirrorLimitHolds`, `ParallelLimitHolds`, `BookkeepingHolds`, `MirrorsKeptHolds`, `LimitOnlyLoweredHolds`, `BadMirrorSkippedHolds`, `NothingStrandedHolds`, `ReportedOnceHolds`, `FailuresAreContainedHolds`, `Refinement`, `MirrorTryBudgetHolds`, `UrlTryBudgetHolds` |
| `TransferFileProofs` | `Typing`, `SuccessIsExactHolds`, `AlignedHolds`, `GoodTransferAcceptedHolds` |
| `ZchunkProofs` | `Invariant`, `FinishedIsValidHolds`, `RangesSurviveHolds`, `NothingTwiceHolds`, `ProgressKeptHolds` |
| `PackageDownloaderProofs` | `Invariant`, `PreparedFromOptionsHolds`, `ParsedListHasDescriptorHolds`, `PackagesReportedHolds`, `AlreadyMeansVerifiedHolds`, `CheckMarksBadFilesHolds` |
| `MetadataDownloaderProofs` | `ScopeInvariant`, `ReportInvariant`, `EndReportedOnceHolds`, `NoErrorMeansCompleteHolds`, `CallbacksRestoredHolds`, `TriesScopedHolds` |
| `YumRepoProofs` | `Invariance`, `WantedDeliveredHolds`, `AskedDeliveredHolds`, `RepomdAuthenticHolds`, `ResultConsistentHolds` |
| `FastestMirrorProofs` | `CachedIsRecentHolds`, `Sorting`, `MirrorsKeptHolds`, `BestFirstHolds` |
| `DocumentsProofs` | `ParsedIsMeantHolds`, `AssertionsHoldHolds`; of `RepoConf` `ConfInvariant`, `WhatIsSetIsRead`, `ListsInFilesAreRead` |

**DownloaderProofs.** `MirrorLimit` alone is not inductive: that the running transfers
of a mirror do not become negative needs that each running target is counted at its
mirror (`Counts`), that every target with a message runs and has a mirror of its own
handle's list (`Known`, `Lists`); that a lowered limit stays at or above what runs needs
that it is initialised before the first transfer (`Limits`); and that `free_slots`
stays natural needs that it and the running transfers add up while transfers are
started (`Slots`). `IInv` is the conjunction. There is a lemma for each kind of step,
with the cardinality of a mirror's running transfers as the measure; the action
properties follow from `MirrorSteps`, which says what a step may do to one mirror.

Its second part, on top of `IInv`, is about the outcome of a call. `OInv` says that an error ends the loops
(`Stops`), that they end without one only when every target is decided (`Settled`), what
may be the reason of an error (`FailsFast`, `Reasons`), and the code and the callbacks of a
target in each state (`Reported`). `Settled` is the part that needs an argument: the
loops are left when nothing runs; then every mirror is below its limit, so the scan
would have started or failed any waiting target. A step is one of a few kinds (it goes
on, decides one target, ends the call, cleans up), the lemmas show of each action which,
and both the invariant and the refinement follow from the kinds. `Refinement` is over
`Accepted`, the targets that are not refused as offline. The budgets need that a new try
of another mirror makes the sum of a bag one larger. That is a fact about a fold, whose
induction theorem the provers cannot use, so it is proved from the definition of the
fold with a minimal counterexample: a set of subsets of a finite set has a minimal
element, and two functions that sum up cannot differ first there.

**TransferFileProofs.** A finished file says nothing of how it came about, so the invariant
follows the attempt: what is left of the reply is what the server sends after the
bytes received (`Replied`), where the attempt began and why (`Offsets`), and what the
file holds, for a request that starts anew (`Fresh`: exactly the bytes of this attempt
within the range) and for one that can be resumed (`Resumed`: bytes of the target or of
an outdated one at their own place, but for pages, which are gone before the file is
resumed). The hypothesis is `Usual`, that all requests are of the kinds the run `usual`
enumerates; without it the statements are false of the code (run `foreign`).
`GoodTransferAcceptedHolds` has a second one, `Short`: no outdated file is longer than the
target and no range starts after its end; the invariant then gets `Fits`.

**ZchunkProofs.** All under `AllRanged`: every mirror the target may have is http and
answers at least one range. Without it `FinishedIsValid` is false (run `unranged`). The
invariant ties the stage to the file: the context calls exactly those chunks valid
that are good (`Agree`), a target at rest is before its header, after it or `Checked`,
and one that runs asked only for chunks that are missing (`Busy`). `CheckBody` and the
validation at the end re-establish `Agree`; `max_ranges` stays positive because halving
takes 1 only from a mirror that refuses a single range.

**PackageDownloaderProofs.** `HandleInv` says of each list that it is empty or is what the
present options make of it, with the conditions at each place in the preparation
(`Pairs` compares lists by source and URL). `PackageInv` says of each package that it was
recognised, waits or is decided, and what its error, callbacks and file are in each
case; in the loop it depends on whether the loop has come to the package.
`AlreadyMeansVerifiedHolds` assumes that files can be read; otherwise a file of the right
size is taken without its checksum, as the code does. `CheckMarksBadFiles` needs that a first bad package exists if any is bad,
which follows from the order of the natural numbers being well founded (`LeastOf`).

**MetadataDownloaderProofs.** `Scoped` says that while a call runs, the backup of a handle
with one repository is the application's callback. `Reports` has the two counters:
for a repository whose files were collected they differ by the cardinality of the files
to come, its callback was not called while there are any and was called once
afterwards (`Tally`). `TellKeeps` is the step: the files that end are a subset of those to
come, and the counters become equal exactly when they are all of them. A call that
returns `TRUE` has none to come, which gives `EndReportedOnce` and, with `Blaming`,
`NoErrorMeansComplete`, for the repositories that were not refused.

**YumRepoProofs.** `YInv` says where the call is told what repomd.xml was checked against
(`Checked`), that the records downloaded are those wanted and what became of each
(`Downloading`), how far `LRO_YUMDLIST` can be from what the application set (`Listed`), and
that the files of a result without a failed call are of its version but for those
being downloaded (`Consistent`). An update does not read repomd.xml again, so `Checked` has
to be carried over by the result, and a kill leaves a directory the next call from
scratch does not trust (`Scratch`).

**FastestMirrorProofs.** `CachedIsRecent` speaks of the measurements that were made, not of the
times stored with the records. The invariant is that each record of the file and of the
loaded cache is one of those measurements (`Backed`), which loading, writing and other
processes keep, since only a mirror that was measured gets the time of the day.
`MirrorsKept`: a host has one first mirror in a list, so the ranks of its mirrors are
different numbers; counting the smaller ones gives each a place of its own
(`PlacesProperties`: an injection of `1 .. n` into itself is a bijection); and a list read
through a bijection has each mirror as often (`ReorderedCount`). `BestFirst`: the hosts'
order never has a better host behind one that is not near the best (`Sortable`), and
the first mirrors of the hosts come to the places of the hosts (`AppliedFirst`). That the
order stays empty until it is made (`SortInv`) is needed because a call that fails
leaves the lists as they were.

**DocumentsProofs.** The paths of the elements are a stack and the parser has a state and two
counters, so `Stack` says how the one is in the other: the elements that are known are the
first ones, as many as `statedepth`; each was found from the state of the one before,
and the last is the state of the parser, with its text. That needs the tables of
switches: a state is reached from one other state only, and one that reads text has no
elements in it (`Tables`). The contexts follow from the state: the record that is begun is
the last of the list, inside of `data` only (`RepomdContextHolds`); an object of a metalink
is in the making exactly inside of its element, unless the file is passed over, which the
third of the open elements decides (`MetalinkContextHolds`, and `Levelled` for the third).
A callback that stops the parser leaves it in the middle of a handler, so the contexts
are claimed without an error only.

Its second half is about `RepoConf`, for any number of files, repositories and options of
every kind, any values a caller may set and any texts in files. The invariant `ConfInv` adds
to `SetIsRead` what it needs to be inductive: the texts in memory are such that saving and
loading them again changes nothing (`Kept`, in `ConfTypeOK`: without line ends, no white
space before them), every repository has a file, and what was given is given for one loaded
file at most (`LoadedOnce`). Then a step has to show for what was given that it is still
read: loading adds files that are as they are on the disk (`ConfsFrom`), saving makes a file
unmodified only when the disk has become what it is (`SavedFrom`), and setting an option
writes a text that is kept and read as the value (`WrittenIsRead`, kind by kind) and
changes no other option. `ConfInv` was an invariant of the instance of `conf` before it was proved.

`Parts`, `WrittenList`, `NotEmpty`, `LoadedInto` and `Saved` are folds. The library's theorem
about folds cannot be used by the provers, and neither can its induction. The value of a
fold is that of a function on sets of positions; `FoldExists` builds it from the
function of one position less, so that it exists for every step that stays in a set;
`FoldTrace` and `TracesAgree` then give the value for a sequence with one element more.
The one induction that is needed, over a set of numbers (`Upwards`), is the least
element of a set of exceptions. So `WrittenListIsRead` and `PartsOf` hold for lists and texts
of any length. `ListsAreRead` compares a text with what is made of it: `Within` says that
one text is a part of the other, with nothing but separators and line ends around it, which
is what `Stripped` does; `SameWords` then goes through both, one token at a time, and finds
the same elements, since a separator after another adds an empty one only (`CutAgain`).
`Joined` is a fold as well: `JoinedWords` cuts the text and what is joined of it token by
token (`JoinedTrace`) and finds the same elements, because a line end is left out
without a ';' only at the beginning, behind the key's '=', if the lines are `LinesApart`.

Only model-checked: `Termination` and `Decided`, which are liveness under fairness and out of
the prover's reach, and the properties of `foreign` and `unranged`, which do not hold.

## 5. Where code and comments disagree

- `foreign`: a file that librepo did not write, found where a download should be
  resumed, is emptied but the stream stays at its end; the finished file begins with
  NUL bytes (downloader.c:1611, against the comment in line 1632).
- `unranged`: with a mirror that knows no ranges a round in phase `BODY` marks the file
  `LR_ZCK_DL_FINISHED` before it is validated, be it the round whose chunks were refused or,
  when the header was refused, the later one that asked for the whole file. A file that
  is broken keeps that state, and the next attempt reports it as already downloaded
  (downloader.c:2339, against the comment in line 99).

The same property fails in four cases that have no run of their own and that `usual`
leaves out. They were seen with the module and other constants: a range whose end is
before its start stops at the first block, and the empty file is a success
(downloader.c:658, against downloadtarget.h.in:210); a page that comes in two blocks and
is longer than the range ends the transfer as a success (1859); a page that breaks off
stays in the file and is resumed after (2485); when resuming is given up the tail of a
longer outdated file is left, and good transfers are refused for it (1574).

Other places where the code does not do what one would expect are hazards with a
note, with the model following the code: a target refused as offline is then
downloaded (downloader.c:934); files of targets that were never opened, or whose
resuming failed, are removed (2865); `original_offset` outlives `resume` (1575); early
returns do not restore the SIGINT handler (handle.c:1448); two targets of one handle
get the first one's wrapper back as callback (metadata_downloader.c:575); a metalink
and a mirrorlist share one descriptor (526); `LRO_YUMDLIST` stays rewritten for later
calls (yum.c:177); a repository downloaded with others whose files are refused as outside
the destination is told a success, and the call aborts on an assertion or, without
assertions, returns `TRUE` (yum.c:913); a read of a local mirror that timed out is taken back
and repeated, although local files are not retried (downloader.c:2460); a line of a key file
that ends in '=' inside a value is merged with the next one, although the comment speaks of
the '=' behind the key (repoconf.c:201).

## 6. Plan

1. (done) the scheduler, its proofs, `DownloadSpec`, the file of a target.
2. (done) zchunk, handle and packages, metadata, yum, fastest mirror, documents,
   configuration; proofs for the four of them that have inductive invariants of their own.
3. (done) theorems about `Downloader`: the outcome of a call, the budgets, the refinement
   of `DownloadSpec`.
4. (done) theorems about `TransferFile`, `YumRepo` and the sorting of `FastestMirror`.
5. (done) theorems about `Documents`.
6. (done) theorems about `RepoConf`: what is set is read, and lists in files are.

### Not modelled

- Checksums: the digests are OpenSSL's, and a checksum matches or does not in the
  modules that use one. Signatures: calls of gpgme or librpm.
- URL substitution and mirrorlist.c: pure functions of strings; `Handle` keeps which
  substitutions a mirror was made with.
- The Python bindings: conversions of arguments.
- `lr_handle_getinfo()`, `lr_handle_network_wait()`, options that are only handed to
  libcurl, the sums of `lr_multi_progress_func()`, construction and freeing of objects.
- Preconditions the models add: a repository given to the metadata downloader has a URL
  or a list (without any the code goes on with objects it did not make); the properties
  of `YumRepo` speak of results whose repomd.xml was read, and of what is in a file only for
  records with a checksum of a known type; `AskedDelivered` leaves out calls that find a list
  rewritten by an earlier one; `TriesScoped` speaks of downloads whose first target is of the
  handle whose tries were raised; a path is loaded once by the configuration; lists in its
  files have no broken lines that end in '='; the clock of the fastest mirror does not go
  back.
