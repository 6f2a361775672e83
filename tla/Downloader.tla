------------------------------ MODULE Downloader ------------------------------
(***************************************************************************)
(* The transfer scheduler of librepo, lr_download() in downloader.c.       *)
(*                                                                         *)
(* One call of lr_download() is given a list of targets.  It starts at     *)
(* most MaxParallel transfers at once, picks a mirror for every target     *)
(* that is waiting, lets libcurl run the transfers, and for every transfer *)
(* that ended decides between success, another try and failure.  The code  *)
(* is single threaded: what is nondeterministic is the order and the       *)
(* result in which libcurl reports transfers, what the user's callbacks    *)
(* return, failing system calls, and the moment SIGINT arrives.            *)
(*                                                                         *)
(* Control is kept in pc:                                                  *)
(*   "entry"          lr_download() has not looked at lr_interrupt yet     *)
(*   "prepare_first"  prepare_next_transfers() called by lr_download()     *)
(*   "perform"        in curl_multi_perform() of lr_perform()'s loop       *)
(*   "check"          in the message loop of check_transfer_statuses()     *)
(*   "prepare"        prepare_next_transfers() called at its end           *)
(*   "cleanup"        at label lr_download_cleanup                         *)
(*   "done"           lr_download() returned; err is what it returned      *)
(*                                                                         *)
(* Targets are plain files given by name, with resume off (the contents of *)
(* a target's file over resumed attempts are in module TransferFile).      *)
(***************************************************************************)
EXTENDS Integers, Sequences, FiniteSets, Functions

CONSTANTS
    NumTargets,       \* length of the list of targets
    Mirrors,          \* the LrMirror objects of all handles
    NoMirror,         \* LrTarget.mirror == NULL
    Handles,          \* the LrHandle objects used by the targets
    HandleOf,         \* the handle of each target
    UrlKind,          \* "mirrors", or the kind of base or complete URL
    MirrorList,       \* the internal mirrorlist of each handle
    Protocol,         \* "http", "file" or "rsync", for each mirror
    OfflineHandles,   \* the handles with LRO_OFFLINE set
    MaxParallel,      \* LRO_MAXPARALLELDOWNLOADS
    MaxPerMirror,     \* LRO_MAXDOWNLOADSPERMIRROR
    MaxMirrorTries,   \* LRO_MAXMIRRORTRIES
    AllowedFailures,  \* LRO_ALLOWEDMIRRORFAILURES
    AdaptiveSorting,  \* LRO_ADAPTIVEMIRRORSORTING
    FailFastArgs,     \* the values of lr_download()'s failfast argument
    Outcomes,         \* the results of a transfer that can happen
    MirrorFailureCb,  \* what the mirror failure callback may return
    EndCb,            \* what the end callback may return
    Faults            \* "io", "curlm", "interrupt": the faults that may happen

Targets == 1 .. NumTargets

UrlKinds == {"mirrors", "remote_url", "file_url", "local_path"}

AllOutcomes == {"ok",        \* CURLE_OK, good status and checksum
                "error",     \* bad status, bad checksum, plain curl error
                "serious",   \* CURLE_OPERATION_TIMEDOUT
                "fatal",     \* a curl error that cannot be recovered
                "cb_error"}  \* the progress callback returned LR_CB_ERROR

ASSUME ConstantsAssumption ==
    /\ NumTargets \in Nat \ {0}
    /\ IsFiniteSet(Mirrors) /\ NoMirror \notin Mirrors
    /\ HandleOf \in [Targets -> Handles]
    /\ UrlKind \in [Targets -> UrlKinds]
    /\ MirrorList \in [Handles -> Seq(Mirrors)]
    /\ Protocol \in [Mirrors -> {"http", "file", "rsync"}]
    /\ OfflineHandles \subseteq Handles
    /\ MaxParallel \in 1 .. 20
    /\ MaxPerMirror \in Nat \ {0}
    /\ MaxMirrorTries \in Nat
    /\ AllowedFailures \in Int
    /\ AdaptiveSorting \in BOOLEAN /\ FailFastArgs \subseteq BOOLEAN
    /\ Outcomes \subseteq AllOutcomes
    /\ MirrorFailureCb \subseteq {"OK", "ABORT", "ERROR"} /\ EndCb \subseteq {"OK", "ERROR"}
    /\ Faults \subseteq {"io", "curlm", "interrupt"}

\* Every mirror structure belongs to one place of one handle's list.
ASSUME MirrorListAssumption ==
    \A g, h \in Handles : \A i \in DOMAIN MirrorList[g], j \in DOMAIN MirrorList[h] :
        MirrorList[g][i] = MirrorList[h][j] => g = h /\ i = j

VARIABLES
    failfast,    \* LrDownload.failfast
    state,       \* LrTarget.state
    mirror,      \* LrTarget.mirror
    tried,       \* LrTarget.tried_mirrors, as a bag
    rcode,       \* LrDownloadTarget.rcode
    ends,        \* the statuses the target's end callback was called with
    file,        \* what became of the file the target had before the call
    outcome,     \* the message libcurl queued for the transfer, or "none"
    stat,        \* the counters of each LrMirror
    lrmirrors,   \* the order of each handle's mirrors
    active,      \* LrDownload.running_transfers
    free_slots,  \* the local variable of prepare_next_transfers()
    interrupt,   \* lr_interrupt
    err,         \* the GError of lr_download(), or "none"
    pc

targetVars == <<state, mirror, tried, rcode, ends, file, outcome>>
mirrorVars == <<stat, lrmirrors>>
loopVars   == <<failfast, active, free_slots, interrupt, err, pc>>
vars       == <<targetVars, mirrorVars, loopVars>>

MirrorStat == [allowed    : Int,   \* allowed_parallel_connections, 0 until first use
               max_tried  : Nat,   \* max_tried_parallel_connections
               running    : Nat,
               successful : Nat,
               failed     : Nat]

TypeOK ==
    /\ failfast \in FailFastArgs
    /\ state \in [Targets -> {"WAITING", "RUNNING", "FINISHED", "FAILED"}]
    /\ mirror \in [Targets -> Mirrors \cup {NoMirror}]
    /\ tried \in [Targets -> [Mirrors \cup {NoMirror} -> Nat]]
    /\ rcode \in [Targets -> {"UNFINISHED", "OK", "NOURL", "TRANSFER", "CBINTERRUPTED"}]
    /\ ends \in [Targets -> Seq({"SUCCESSFUL", "ERROR"})]
    /\ file \in [Targets -> {"original", "written", "removed"}]
    /\ outcome \in [Targets -> Outcomes \cup {"none"}]
    /\ stat \in [Mirrors -> MirrorStat]
    /\ lrmirrors \in [Handles -> Seq(Mirrors)]
    /\ active \subseteq Targets
    /\ free_slots \in Int
    /\ interrupt \in BOOLEAN
    /\ err \in {"none", "NOURL", "CBINTERRUPTED", "TRANSFER", "INTERRUPTED", "CURLM", "IO"}
    /\ pc \in {"entry", "prepare_first", "perform", "check", "prepare", "cleanup", "done"}

Init ==
    /\ failfast \in FailFastArgs
    /\ state = [t \in Targets |-> "WAITING"]
    /\ mirror = [t \in Targets |-> NoMirror]
    /\ tried = [t \in Targets |-> [m \in Mirrors \cup {NoMirror} |-> 0]]
    /\ rcode = [t \in Targets |-> "UNFINISHED"]
    /\ ends = [t \in Targets |-> <<>>]
    /\ file = [t \in Targets |-> "original"]
    /\ outcome = [t \in Targets |-> "none"]
    /\ stat = [m \in Mirrors |-> [allowed |-> 0, max_tried |-> 0, running |-> 0,
                                  successful |-> 0, failed |-> 0]]
    /\ lrmirrors = MirrorList
    /\ active = {}
    /\ free_slots = MaxParallel
    /\ interrupt = FALSE
    /\ err = "none"
    /\ pc = "entry"

\* An interrupt seen on entry stops the call before it touches any target.
Enter ==
    /\ pc = "entry"
    /\ pc' = IF interrupt THEN "done" ELSE "prepare_first"
    /\ err' = IF interrupt THEN "INTERRUPTED" ELSE err
    /\ UNCHANGED <<targetVars, mirrorVars, failfast, active, free_slots, interrupt>>
-------------------------------------------------------------------------------
(* Selection of the next target and of its mirror.                         *)

MirrorsOf(t) == lrmirrors[HandleOf[t]]
UsesMirrors(t) == UrlKind[t] = "mirrors"
IsOffline(t) == HandleOf[t] \in OfflineHandles
RefusedOffline(t) == UrlKind[t] = "remote_url" /\ IsOffline(t)
NumTried(t) == SumFunction(tried[t])

\* allowed_parallel_connections once initialised.  A mirror that is looked at
\* and not taken has running transfers, so it was initialised when it was first
\* taken: initialising it only then is the same.
AllowedNow(m) == IF stat[m].allowed = 0 THEN MaxPerMirror ELSE stat[m].allowed
\* Mutant: one connection too many.
LimitPassed(m) == AllowedNow(m) # -1 /\ stat[m].running > AllowedNow(m)
LimitReached(m) == AllowedNow(m) # -1 /\ stat[m].running >= AllowedNow(m)

BadMirror(m) == /\ AllowedFailures > 0
                /\ stat[m].successful = 0
                /\ stat[m].failed >= AllowedFailures

\* Mutant: the number of failures is ignored when mirrors are reused.
SuitableAgain(t, m, k) ==
    /\ k = 0 => tried[t][m] = 0 /\ ~BadMirror(m)
    /\ k > 0 => Protocol[m] # "file"
    /\ Protocol[m] # "rsync"
    /\ IsOffline(t) => Protocol[m] = "file"

\* The filters mirror m must pass in iteration k over the list of mirrors.
Suitable(t, m, k) ==
    /\ k = 0 => tried[t][m] = 0 /\ ~BadMirror(m)
    /\ k > 0 => Protocol[m] # "file" /\ k >= stat[m].failed
    /\ Protocol[m] # "rsync"
    /\ IsOffline(t) => Protocol[m] = "file"

\* The iterations select_suitable_mirror() makes if no mirror is taken.
Iterations(t) ==
    IF /\ \E i \in DOMAIN MirrorsOf(t) : Protocol[MirrorsOf(t)[i]] # "file"
       /\ NumTried(t) < AllowedFailures
    THEN 0 .. AllowedFailures - 1 ELSE {0}

Usable(t, i, k) == LET m == MirrorsOf(t)[i] IN Suitable(t, m, k) /\ ~LimitReached(m)

AnySuitable(t) == \E k \in Iterations(t), i \in DOMAIN MirrorsOf(t) :
                      Suitable(t, MirrorsOf(t)[i], k)

\* The i-th mirror is the one taken, in iteration k: the first usable one.
Selects(t, i, k) ==
    /\ Usable(t, i, k)
    /\ \A l \in Iterations(t), j \in DOMAIN MirrorsOf(t) :
           l < k \/ (l = k /\ j < i) => ~Usable(t, j, l)

AnyUsable(t) == \E k \in Iterations(t), i \in DOMAIN MirrorsOf(t) : Usable(t, i, k)

\* Mirrors remain for t but each is at its limit: the scan passes over t.
Blocked(t) == UsesMirrors(t) /\ AnySuitable(t) /\ ~AnyUsable(t)

\* t is the target select_next_target() stops at.  Targets marked FAILED on the
\* way are stops of their own: nothing the scan reads of the earlier, blocked
\* targets changes, so starting over from the head of the list is the same.
NextTarget(t) ==
    /\ pc \in {"prepare_first", "prepare"}
    /\ free_slots > 0
    /\ state[t] = "WAITING" /\ ~Blocked(t)
    /\ \A u \in Targets : u < t /\ state[u] = "WAITING" => Blocked(u)

\* Leaves the loops with error e if cond, and stays where it is otherwise.
StopIf(cond, e) == /\ err' = IF cond THEN e ELSE err
                   /\ pc' = IF cond THEN "cleanup" ELSE pc

\* A relative path, no base URL and no mirrors: the whole call fails.
EmptyMirrorlist(t) ==
    /\ NextTarget(t) /\ UsesMirrors(t) /\ MirrorsOf(t) = <<>>
    /\ StopIf(TRUE, "NOURL")
    /\ UNCHANGED <<targetVars, mirrorVars, failfast, active, free_slots, interrupt>>

\* No suitable mirror exists at all: the target failed.
MirrorsExhausted(t, rc) ==
    /\ NextTarget(t) /\ UsesMirrors(t) /\ MirrorsOf(t) # <<>> /\ ~AnySuitable(t)
    /\ state' = [state EXCEPT ![t] = "FAILED"]
    /\ rcode' = [rcode EXCEPT ![t] = "NOURL"]
    /\ ends' = [ends EXCEPT ![t] = Append(@, "ERROR")]
    /\ StopIf(rc = "ERROR" \/ failfast, IF rc = "ERROR" THEN "CBINTERRUPTED" ELSE "NOURL")
    /\ UNCHANGED <<mirror, tried, file, outcome, mirrorVars, failfast, active, free_slots, interrupt>>
-------------------------------------------------------------------------------
(* Starting a transfer.                                                    *)

\* init_once_allowed_parallel_connections() and increase_running_transfers().
Connected(m) ==
    LET s == stat[m]  now == s.running + 1 IN
    [allowed    |-> AllowedNow(m),
     max_tried  |-> IF s.max_tried < now THEN now ELSE s.max_tried,
     running    |-> now,
     successful |-> s.successful,
     failed     |-> s.failed]

\* Mutant: the mirror's running transfers are not increased.
LaunchUncounted(t, m) ==
    /\ state' = [state EXCEPT ![t] = "RUNNING"]
    /\ mirror' = [mirror EXCEPT ![t] = m]
    /\ file' = [file EXCEPT ![t] = "written"]
    /\ stat' = IF m = NoMirror THEN stat ELSE [stat EXCEPT ![m].allowed = AllowedNow(m)]
    /\ active' = active \cup {t}
    /\ free_slots' = free_slots - 1
    /\ UNCHANGED <<tried, outcome, lrmirrors, failfast, interrupt, err, pc>>

\* The tail of prepare_next_transfer(): the file is opened with O_TRUNC, the
\* curl handle is added and the counters are increased.
Launch(t, m) ==
    /\ state' = [state EXCEPT ![t] = "RUNNING"]
    /\ mirror' = [mirror EXCEPT ![t] = m]
    /\ file' = [file EXCEPT ![t] = "written"]
    /\ stat' = IF m = NoMirror THEN stat ELSE [stat EXCEPT ![m] = Connected(m)]
    /\ active' = active \cup {t}
    /\ free_slots' = free_slots - 1
    /\ UNCHANGED <<tried, outcome, lrmirrors, failfast, interrupt, err, pc>>

\* The file cannot be opened: the error is not the target's, the call stops.
OpenFails(t, m) ==
    /\ "io" \in Faults
    /\ mirror' = [mirror EXCEPT ![t] = m]
    /\ StopIf(TRUE, "IO")
    /\ UNCHANGED <<tried, file, outcome, mirrorVars, failfast, active, free_slots, interrupt>>

StartFromMirror(t) ==
    /\ NextTarget(t) /\ UsesMirrors(t)
    /\ \E k \in Iterations(t), i \in DOMAIN MirrorsOf(t) :
          /\ Selects(t, i, k)
          /\ \/ Launch(t, MirrorsOf(t)[i])
             \/ OpenFails(t, MirrorsOf(t)[i]) /\ UNCHANGED state
    /\ UNCHANGED <<rcode, ends>>

\* A base URL or a complete URL: there is no mirror.
StartFromUrl(t) ==
    /\ NextTarget(t) /\ ~UsesMirrors(t) /\ ~RefusedOffline(t)
    /\ \/ Launch(t, NoMirror)
       \/ OpenFails(t, NoMirror) /\ UNCHANGED state
    /\ UNCHANGED <<rcode, ends>>

\* A remote URL with LRO_OFFLINE: the target is marked FAILED and reported, and
\* unless that stops the call it is then selected and started all the same.
OfflineUrl(t, rc) ==
    /\ NextTarget(t) /\ RefusedOffline(t)
    /\ rcode' = [rcode EXCEPT ![t] = "NOURL"]
    /\ ends' = [ends EXCEPT ![t] = Append(@, "ERROR")]
    /\ IF rc = "ERROR" \/ failfast
       THEN /\ state' = [state EXCEPT ![t] = "FAILED"]
            /\ StopIf(TRUE, IF rc = "ERROR" THEN "CBINTERRUPTED" ELSE "NOURL")
            /\ UNCHANGED <<mirror, tried, file, outcome, mirrorVars, failfast, active, free_slots, interrupt>>
       ELSE \/ Launch(t, NoMirror)
            \/ /\ OpenFails(t, NoMirror)
               /\ state' = [state EXCEPT ![t] = "FAILED"]

\* Mutant: the loop is left only when every target is finished.
EndPrepareAllFinished ==
    /\ pc \in {"prepare_first", "prepare"}
    /\ free_slots > 0 => \A t \in Targets : state[t] = "WAITING" => Blocked(t)
    /\ pc' = IF \A t \in Targets : state[t] = "FINISHED" THEN "cleanup" ELSE "perform"
    /\ UNCHANGED <<targetVars, mirrorVars, failfast, active, free_slots, interrupt, err>>

\* No slot is free or no target can be started; lr_perform() is left after the
\* check of the statuses when no transfer is running.
EndPrepare ==
    /\ pc \in {"prepare_first", "prepare"}
    /\ free_slots > 0 => \A t \in Targets : state[t] = "WAITING" => Blocked(t)
    /\ pc' = IF pc = "prepare" /\ active = {} THEN "cleanup" ELSE "perform"
    /\ UNCHANGED <<targetVars, mirrorVars, failfast, active, free_slots, interrupt, err>>
-------------------------------------------------------------------------------
(* libcurl and the signal handler.                                         *)

CurlFinishes(t, o) ==
    /\ pc = "perform" /\ t \in active /\ outcome[t] = "none"
    /\ outcome' = [outcome EXCEPT ![t] = o]
    /\ UNCHANGED <<state, mirror, tried, rcode, ends, file, mirrorVars, loopVars>>

\* A round in which nothing ended changes nothing and is left out.
PerformReturns ==
    /\ pc = "perform"
    /\ active = {} \/ interrupt \/ \E t \in Targets : outcome[t] # "none"
    /\ pc' = IF interrupt THEN "cleanup" ELSE "check"
    /\ err' = IF interrupt THEN "INTERRUPTED" ELSE err
    /\ UNCHANGED <<targetVars, mirrorVars, failfast, active, free_slots, interrupt>>

CurlmFails ==
    /\ "curlm" \in Faults /\ pc = "perform"
    /\ StopIf(TRUE, "CURLM")
    /\ UNCHANGED <<targetVars, mirrorVars, failfast, active, free_slots, interrupt>>

Sigint ==
    /\ "interrupt" \in Faults /\ pc # "done"
    /\ interrupt' = TRUE
    /\ UNCHANGED <<targetVars, mirrorVars, failfast, active, free_slots, err, pc>>
-------------------------------------------------------------------------------
(* The ranking of mirrors.                                                 *)

Swap(list, i, j) == [list EXCEPT ![i] = list[j], ![j] = list[i]]

\* The order after a transfer from mirror m ended; st are the counters with it
\* counted.  The ranks are compared as fractions, successful over finished.
SortMirrors(list, m, st, success, serious) ==
    LET cur == CHOOSE i \in DOMAIN list : list[i] = m
        last == Len(list)
        Finished(x) == st[x].successful + st[x].failed
        Ranked(x) == Finished(x) >= 3
        Above(x, y) == /\ Ranked(x)
                       /\ Ranked(y) => st[x].successful * Finished(y)
                                       > st[y].successful * Finished(x)
        award == success /\ cur > 1 /\ Above(m, list[cur - 1])
        moveToEnd == ~success /\ serious /\ st[m].successful = 0
        penalize == /\ ~success /\ ~moveToEnd /\ cur < last /\ Ranked(m)
                    /\ Ranked(list[cur + 1]) => Above(list[cur + 1], m)
    IN  IF award THEN Swap(list, cur, cur - 1)
        ELSE IF moveToEnd THEN Swap(list, cur, last)
        ELSE IF penalize THEN Swap(list, cur, cur + 1)
        ELSE list
-------------------------------------------------------------------------------
(* check_transfer_statuses(): one message of libcurl at a time.            *)

\* Mutant: the running transfers are not decreased.
DisconnectedLeaky(s, success) ==
    [s EXCEPT !.successful = IF success THEN @ + 1 ELSE @,
              !.failed = IF success THEN @ ELSE @ + 1]

\* mirror_update_statistics().
Disconnected(s, success) ==
    [allowed    |-> s.allowed,
     max_tried  |-> s.max_tried,
     running    |-> s.running - 1,
     successful |-> IF success THEN s.successful + 1 ELSE s.successful,
     failed     |-> IF success THEN s.failed ELSE s.failed + 1]

CountTransfer(m, success) ==
    IF m = NoMirror THEN stat ELSE [stat EXCEPT ![m] = Disconnected(@, success)]

\* What is done for every transfer that ended, whatever its result.
TakeMessage(t, success) ==
    /\ pc = "check" /\ outcome[t] # "none"
    /\ outcome' = [outcome EXCEPT ![t] = "none"]
    /\ active' = active \ {t}
    /\ lrmirrors' = IF mirror[t] = NoMirror \/ ~AdaptiveSorting THEN lrmirrors
                    ELSE [lrmirrors EXCEPT ![HandleOf[t]] =
                             SortMirrors(@, mirror[t], CountTransfer(mirror[t], success),
                                         success, outcome[t] = "serious")]
    /\ UNCHANGED <<mirror, file, failfast, free_slots, interrupt>>

TransferSucceeds(t, rc) ==
    /\ TakeMessage(t, TRUE)
    /\ outcome[t] = "ok"
    /\ state' = [state EXCEPT ![t] = "FINISHED"]
    /\ tried' = [tried EXCEPT ![t][mirror[t]] = @ + 1]
    /\ rcode' = [rcode EXCEPT ![t] = "OK"]
    /\ ends' = [ends EXCEPT ![t] = Append(@, "SUCCESSFUL")]
    /\ stat' = CountTransfer(mirror[t], TRUE)
    /\ StopIf(rc = "ERROR", "CBINTERRUPTED")

Fatal(t, mf) == outcome[t] \in {"fatal", "cb_error"} \/ mf # "OK"

\* After a timeout the mirror may be fine and only accept fewer connections:
\* its limit is lowered and it stays untried for the target.
AnotherChance(t, mf) ==
    LET s == CountTransfer(mirror[t], FALSE)[mirror[t]] IN
    /\ ~Fatal(t, mf) /\ outcome[t] = "serious" /\ mirror[t] # NoMirror
    /\ s.running > 0 \/ (s.successful > 0 /\ s.failed < s.max_tried)

LoweredLimit(s) == IF s.running > 0 THEN s.running ELSE 1

TriedAfter(t, mf) == [tried[t] EXCEPT ![mirror[t]] = IF AnotherChance(t, mf) THEN @ ELSE @ + 1]

\* Mutant: one try too many.
CanRetryOnceMore(t, n) ==
    IF UsesMirrors(t) THEN MaxMirrorTries = 0 \/ n <= MaxMirrorTries
    ELSE UrlKind[t] # "file_url" /\ AllowedFailures >= n

\* Mutant: a local file is tried again as any other URL is.
CanRetryFiles(t, n) ==
    IF UsesMirrors(t) THEN MaxMirrorTries = 0 \/ n < MaxMirrorTries
    ELSE AllowedFailures > n

CanRetry(t, n) ==
    IF UsesMirrors(t) THEN MaxMirrorTries = 0 \/ n < MaxMirrorTries
    ELSE UrlKind[t] # "file_url" /\ AllowedFailures > n

Retries(t, mf) == ~Fatal(t, mf) /\ CanRetry(t, SumFunction(TriedAfter(t, mf)))

\* The counters, the mirror list and the tried mirrors after a failed transfer
\* for which the mirror failure callback returned mf.
CountFailure(t, mf) ==
    /\ TakeMessage(t, FALSE)
    /\ outcome[t] # "ok"
    /\ tried' = [tried EXCEPT ![t] = TriedAfter(t, mf)]
    /\ LET m == mirror[t]
           st == CountTransfer(m, FALSE)
       IN  stat' = IF AnotherChance(t, mf)
                   THEN [st EXCEPT ![m].allowed = LoweredLimit(st[m])]
                   ELSE st

\* The target waits for its next try; its file is truncated.
TransferIsRetried(t, mf) ==
    /\ CountFailure(t, mf)
    /\ Retries(t, mf)
    /\ state' = [state EXCEPT ![t] = "WAITING"]
    /\ UNCHANGED <<rcode, ends>>
    /\ \/ UNCHANGED <<err, pc>>
       \/ "io" \in Faults /\ StopIf(TRUE, "IO")    \* truncate() failed

\* Mutant: failfast is forgotten.
EndsCallOnCallback(t, mf, rc) == outcome[t] = "cb_error" \/ mf = "ERROR" \/ rc = "ERROR"

\* A failed target ends the whole call.
EndsCall(t, mf, rc) == failfast \/ outcome[t] = "cb_error" \/ mf = "ERROR" \/ rc = "ERROR"

TransferFails(t, mf, rc) ==
    /\ CountFailure(t, mf)
    /\ ~Retries(t, mf)
    /\ state' = [state EXCEPT ![t] = "FAILED"]
    /\ ends' = [ends EXCEPT ![t] = Append(@, "ERROR")]
    /\ LET code == IF mf = "ERROR" THEN "CBINTERRUPTED" ELSE "TRANSFER" IN
          /\ rcode' = [rcode EXCEPT ![t] = code]
          /\ StopIf(EndsCall(t, mf, rc), code)

\* The file cannot be read for its checksum: the call stops, t still running.
ChecksumFails(t) ==
    /\ "io" \in Faults
    /\ pc = "check" /\ outcome[t] = "ok"
    /\ StopIf(TRUE, "IO")
    /\ UNCHANGED <<targetVars, mirrorVars, failfast, active, free_slots, interrupt>>

\* Mutant: the loop is left before waiting targets are started.
EndCheckLeaves ==
    /\ pc = "check" /\ \A t \in Targets : outcome[t] = "none"
    /\ free_slots' = MaxParallel - Cardinality(active)
    /\ pc' = IF active = {} THEN "cleanup" ELSE "prepare"
    /\ UNCHANGED <<targetVars, mirrorVars, failfast, active, interrupt, err>>

\* No message is left: prepare_next_transfers() computes the free slots.
EndCheck ==
    /\ pc = "check" /\ \A t \in Targets : outcome[t] = "none"
    /\ free_slots' = MaxParallel - Cardinality(active)
    /\ pc' = "prepare"
    /\ UNCHANGED <<targetVars, mirrorVars, failfast, active, interrupt, err>>
-------------------------------------------------------------------------------
(* lr_download_cleanup: running transfers are stopped and reported if there *)
(* was an error, and the files of unfinished targets are removed.          *)

\* Mutant: every target is reported, not only the running ones.
CleanupReportsAll ==
    /\ pc = "cleanup"
    /\ ends' = [t \in Targets |-> IF err # "none" THEN Append(ends[t], "ERROR") ELSE ends[t]]
    /\ rcode' = [t \in Targets |-> IF err # "none" /\ t \in active
                                   THEN "UNFINISHED" ELSE rcode[t]]
    /\ file' = [t \in Targets |-> IF state[t] # "FINISHED" THEN "removed" ELSE file[t]]
    /\ active' = IF err # "none" THEN {} ELSE active
    /\ pc' = "done"
    /\ UNCHANGED <<state, mirror, tried, outcome, mirrorVars, failfast, free_slots, interrupt, err>>

Cleanup ==
    /\ pc = "cleanup"
    /\ ends' = [t \in Targets |-> IF err # "none" /\ t \in active
                                  THEN Append(ends[t], "ERROR") ELSE ends[t]]
    /\ rcode' = [t \in Targets |-> IF err # "none" /\ t \in active
                                   THEN "UNFINISHED" ELSE rcode[t]]
    /\ file' = [t \in Targets |-> IF state[t] # "FINISHED" THEN "removed" ELSE file[t]]
    /\ active' = IF err # "none" THEN {} ELSE active
    /\ pc' = "done"
    /\ UNCHANGED <<state, mirror, tried, outcome, mirrorVars, failfast, free_slots, interrupt, err>>
-------------------------------------------------------------------------------
Prepare == \/ \E t \in Targets : EmptyMirrorlist(t) \/ StartFromMirror(t) \/ StartFromUrl(t)
           \/ \E t \in Targets, rc \in EndCb : MirrorsExhausted(t, rc) \/ OfflineUrl(t, rc)
           \/ EndPrepare

Check == \/ \E t \in Targets, rc \in EndCb : TransferSucceeds(t, rc)
         \/ \E t \in Targets, mf \in MirrorFailureCb : TransferIsRetried(t, mf)
         \/ \E t \in Targets, mf \in MirrorFailureCb, rc \in EndCb : TransferFails(t, mf, rc)
         \/ \E t \in Targets : ChecksumFails(t)
         \/ EndCheck

Curl == \/ \E t \in Targets, o \in Outcomes : CurlFinishes(t, o)
        \/ CurlmFails

Terminated == pc = "done" /\ UNCHANGED vars

Next == Enter \/ Prepare \/ Curl \/ Sigint \/ PerformReturns \/ Check \/ Cleanup \/ Terminated

Spec == Init /\ [][Next]_vars

\* The loops of the code go on as long as they can, and libcurl ends every
\* transfer (it is given a connection timeout and a low speed limit).
FairSpec == /\ Spec
            /\ WF_vars(Enter \/ Prepare \/ PerformReturns \/ Check \/ Cleanup)
            /\ \A t \in Targets : WF_vars(\E o \in Outcomes : CurlFinishes(t, o))
-------------------------------------------------------------------------------
(* Properties.                                                             *)

Running(m) == {t \in active : mirror[t] = m}

\* LrMirror.running_transfers counts the transfers that run from the mirror, and
\* dd->running_transfers lists exactly the targets in state LR_DS_RUNNING: the two
\* are kept by different functions and every decision on limits reads them.
Bookkeeping ==
    /\ \A m \in Mirrors : stat[m].running = Cardinality(Running(m)) \/ pc = "done"
    /\ pc # "done" => active = {t \in Targets : state[t] = "RUNNING"}
    /\ \A t \in Targets : outcome[t] # "none" /\ pc # "done" => t \in active

\* The assertion in select_suitable_mirror(): no mirror ever serves more transfers
\* than LRO_MAXDOWNLOADSPERMIRROR, nor more than its limit after it was lowered.
MirrorLimit ==
    \A m \in Mirrors : stat[m].running <= MaxPerMirror /\ stat[m].running <= AllowedNow(m)

\* At most LRO_MAXPARALLELDOWNLOADS transfers run, and the unsigned number of free
\* slots that prepare_next_transfers() counts down never wraps around.
ParallelLimit ==
    /\ Cardinality(active) <= MaxParallel
    /\ free_slots >= 0
    /\ pc = "prepare" => free_slots + Cardinality(active) = MaxParallel

\* lr_perform() is left only when nothing is left to do: a call that returns TRUE
\* has finished or failed every target and strands none that still waits.
NothingStranded ==
    pc = "done" /\ err = "none" => \A t \in Targets : state[t] \in {"FINISHED", "FAILED"}

\* When lr_download() returns, every target that was decided or interrupted had its
\* end callback called exactly once, with the status its return code tells, and
\* every other target was never reported and is UNFINISHED.
ReportedOnce ==
    pc = "done" => \A t \in Targets : ~RefusedOffline(t) =>
        CASE state[t] = "FINISHED" -> ends[t] = <<"SUCCESSFUL">> /\ rcode[t] = "OK"
          [] state[t] = "FAILED"   -> ends[t] = <<"ERROR">> /\ rcode[t] \notin {"OK", "UNFINISHED"}
          [] state[t] = "RUNNING"  -> ends[t] = <<"ERROR">> /\ rcode[t] = "UNFINISHED"
          [] state[t] = "WAITING"  -> ends[t] = <<>> /\ rcode[t] = "UNFINISHED"

\* With failfast one failed target makes the call fail; without it, and when no
\* callback, signal or system call interferes, one target's failure never ends the
\* call or the transfers of the others.
FailuresAreContained ==
    /\ pc = "done" /\ failfast /\ (\E t \in Targets : state[t] = "FAILED") => err # "none"
    /\ err = "TRANSFER" /\ ~failfast => "ERROR" \in EndCb \/ "cb_error" \in Outcomes
    /\ err = "NOURL" /\ ~failfast => \E t \in Targets : UsesMirrors(t) /\ MirrorsOf(t) = <<>>

\* LRO_MAXMIRRORTRIES bounds the mirrors tried for a target, whatever second chances
\* and reuse of mirrors it had.
MirrorTryBudget ==
    \A t \in Targets : UsesMirrors(t) /\ MaxMirrorTries > 0 => NumTried(t) <= MaxMirrorTries

\* LRO_ALLOWEDMIRRORFAILURES bounds the transfers started for a base or complete URL,
\* the one that runs among them: each of them is counted as a try when it ends.  A
\* complete URL of a local file is read once, however that failed.  A local mirror is
\* not read again for a target once a read of it was counted; a read that timed out
\* may be taken back (another chance), and only then the mirror is read again.
UrlTryBudget ==
    \A t \in Targets :
        LET running == IF state[t] = "RUNNING" THEN 1 ELSE 0
            limit == IF AllowedFailures > 1 /\ UrlKind[t] # "file_url" THEN AllowedFailures ELSE 1
        IN  /\ ~UsesMirrors(t) => NumTried(t) + running <= limit
            /\ \A m \in Mirrors : Protocol[m] = "file" =>
                   tried[t][m] + (IF mirror[t] = m THEN running ELSE 0) <= 1

\* sort_mirrors() moves data pointers between list elements: the list keeps every
\* mirror exactly once, so no mirror is lost and none is tried in two places.
MirrorsKept ==
    \A h \in Handles :
        /\ Range(lrmirrors[h]) = Range(MirrorList[h])
        /\ Len(lrmirrors[h]) = Len(MirrorList[h])

\* handle.h.in on LRO_ALLOWEDMIRRORFAILURES: a mirror with that many failures and no
\* success "will be skipped (ignored) for all next downloads", also when the list is
\* iterated again to reuse mirrors.
BadMirrorSkipped ==
    [][\A m \in Mirrors : BadMirror(m) => stat'[m].running <= stat[m].running]_vars

\* LrMirror.allowed_parallel_connections is "dynamically adjusted (decreased)": once
\* a mirror is used its limit never rises again, and never drops to 0, the value
\* that stands for a mirror not used yet.
LimitOnlyLowered ==
    [][\A m \in Mirrors : stat[m].allowed # 0 =>
           stat'[m].allowed \in 1 .. stat[m].allowed]_vars

\* Every call returns, however transfers fail, are retried and given second chances.
Termination == <>(pc = "done")

\* The targets that are not refused for being offline: a refused one is reported as
\* failed and downloaded all the same, so that nothing is promised of it.
Accepted == {t \in Targets : ~RefusedOffline(t)}

\* lr_download() as the callers that gave it the accepted targets see it.
Abstract == INSTANCE DownloadSpec WITH
    Targets <- Accepted,
    status <- [t \in Accepted |-> CASE state[t] = "FINISHED" -> "ok"
                                     [] state[t] = "FAILED" -> "failed"
                                     [] OTHER -> "pending"],
    ends <- [t \in Accepted |-> ends[t]],
    result <- IF pc # "done" THEN "running" ELSE IF err = "none" THEN "ok" ELSE "error"
ImplementsDownloadSpec == Abstract!Spec
===============================================================================
