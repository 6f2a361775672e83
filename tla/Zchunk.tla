-------------------------------- MODULE Zchunk --------------------------------
(***************************************************************************)
(* The download of one zchunk file in downloader.c: first its header, then *)
(* the chunks that neither the file nor the cache holds, in as many ranges *)
(* as the mirror allows in one request; the whole file from mirrors that   *)
(* allow none or do not speak HTTP.  A transfer that succeeds without      *)
(* completing the file puts the target back to waiting.                    *)
(*                                                                         *)
(* Which mirror is next and how failures are counted is Downloader's; here *)
(* any mirror the target did not fail with may be next, then any but a     *)
(* local one.  The target is given by name and to one lr_download().       *)
(* libzck is modelled by what its documentation promises: chunks are       *)
(* written where they belong and compared with the digests of the header.  *)
(***************************************************************************)
EXTENDS Integers, FiniteSets, Functions, FiniteSetsExt

CONSTANTS
    NumChunks,
    Mirrors, NoMirror,
    MirrorLists,    \* the mirrors the target may have
    Protocol,       \* [Mirrors -> {"http", "ftp", "file"}]
    RangeLimit,     \* the ranges a mirror answers in one request, 0 if it answers none
    InitialRanges,  \* LrMirror.max_ranges at the start, 256 in the code
    InitialFiles,   \* what the file may hold before
    Caches,         \* what the cache may hold: a file with the same header or not, and chunks
    MaxTries,       \* LRO_MAXMIRRORTRIES and LRO_ALLOWEDMIRRORFAILURES
    MaxFaults       \* bound: times a mirror or a connection misbehaves

Chunks == 1 .. NumChunks
Content == {"none", "good", "bad"}
File == [header : Content, chunk : [Chunks -> Content]]
Empty == [header |-> "none", chunk |-> [c \in Chunks |-> "none"]]

ASSUME ZchunkAssumption ==
    /\ NumChunks \in Nat \ {0} /\ NoMirror \notin Mirrors
    /\ MirrorLists \subseteq SUBSET Mirrors /\ InitialRanges \in Nat \ {0}
    /\ Protocol \in [Mirrors -> {"http", "ftp", "file"}]
    /\ RangeLimit \in [Mirrors -> Nat] /\ \A m \in Mirrors : RangeLimit[m] > 0 => Protocol[m] = "http"
    /\ InitialFiles \subseteq File /\ Caches \subseteq [header : BOOLEAN, chunks : SUBSET Chunks]
    /\ MaxTries \in Nat \ {0} /\ MaxFaults \in Nat

VARIABLES
    zck_state,    \* LrTarget.zck_state
    dl,           \* LrDownloadTarget.zck_dl: "none", "empty" (it has no context), "unread"
                  \* (its context has not read a header) or "read"
    valid,        \* the context's verdict on each chunk: 1, 0 (missing) or -1 (failed)
    range_count,  \* the ranges of zck_dl, -1 before it is given any
    range_fail,   \* LrTarget.range_fail
    file,         \* the target's file
    asked,        \* the request: "header", "whole" or "chunks", and the chunks
    lrmirrors,    \* LrTarget.lrmirrors
    max_ranges,   \* LrMirror.max_ranges
    mirror,       \* LrTarget.mirror
    tried,        \* the times each mirror is in LrTarget.tried_mirrors
    state,        \* LrTarget.state
    cache, faults

zckVars == <<zck_state, dl, valid, range_count, range_fail, file, asked>>
given == <<lrmirrors, cache>>
vars == <<zckVars, max_ranges, mirror, tried, state, given, faults>>

Requests == [kind : {"header", "whole", "chunks"}, chunks : SUBSET Chunks]
WholeFile == [kind |-> "whole", chunks |-> Chunks]
HeaderOnly == [kind |-> "header", chunks |-> {}]
Unknown == [c \in Chunks |-> 0]

TypeOK ==
    /\ zck_state \in {"HEADER_CK", "HEADER", "BODY_CK", "BODY", "FINISHED"}
    /\ dl \in {"none", "empty", "unread", "read"} /\ valid \in [Chunks -> {-1, 0, 1}]
    /\ range_count \in -1 .. NumChunks /\ range_fail \in BOOLEAN
    /\ file \in File /\ asked \in Requests
    /\ max_ranges \in [Mirrors -> 0 .. InitialRanges]
    /\ lrmirrors \in MirrorLists
    /\ mirror \in lrmirrors \cup {NoMirror} /\ (state = "RUNNING" => mirror # NoMirror)
    /\ tried \in [Mirrors -> 0 .. MaxTries]
    /\ state \in {"WAITING", "RUNNING", "FINISHED", "FAILED"}
    /\ cache \in Caches /\ faults \in 0 .. MaxFaults

Init ==
    /\ zck_state = "HEADER_CK" /\ dl = "none" /\ valid = Unknown
    /\ range_count = -1 /\ range_fail = FALSE
    /\ file \in InitialFiles /\ asked = HeaderOnly
    /\ lrmirrors \in MirrorLists /\ max_ranges = [m \in Mirrors |-> InitialRanges]
    /\ mirror = NoMirror /\ tried = [m \in Mirrors |-> 0] /\ state = "WAITING"
    /\ cache \in Caches /\ faults = 0
-------------------------------------------------------------------------------
(* The start of an attempt.  Each stage of check_zck() takes the fields it  *)
(* works on as a record and leaves them alone when its turn has not come.   *)

\* The first chunks of the runs of neighbours in S; each run is one range.
Starts(S) == {c \in S : c - 1 \notin S}
\* zck_get_missing_range(): the first k runs.
FirstRanges(S, k) == {c \in S : Cardinality({s \in Starts(S) : s <= c}) <= k}

\* A context without a header knows no chunks.
Missing(z) == IF z.dl = "read" THEN {c \in Chunks : z.valid[c] = 0} ELSE {}
\* Mutant: all chunks count as missing again.
ResetAll(v) == Unknown
\* zck_reset_failed_chunks()
ResetFailed(v) == [c \in Chunks |-> IF v[c] = 1 THEN 1 ELSE 0]
Verdicts(f) == [c \in Chunks |-> IF f.chunk[c] = "good" THEN 1 ELSE -1]
WithChunks(f, S, what) == [f EXCEPT !.chunk = [c \in Chunks |-> IF c \in S THEN what ELSE @[c]]]

\* A file of the cache with the same header is copied over the target's.
FindLocalHeader(z) ==
    IF z.dl # "empty" \/ z.state = "FINISHED" THEN z
    ELSE IF cache.header
    THEN [z EXCEPT !.dl = "read", !.valid = Unknown, !.state = "BODY_CK",
                   !.file = WithChunks([Empty EXCEPT !.header = "good"], cache.chunks, "good")]
    ELSE [z EXCEPT !.state = "HEADER"]

PrepHeader(z) ==
    IF z.state # "HEADER" THEN z
    ELSE IF z.file.header = "good"
    THEN [z EXCEPT !.dl = "read", !.valid = Unknown, !.state = "BODY_CK"]
    ELSE [z EXCEPT !.dl = "unread", !.asked = HeaderOnly, !.file = Empty]

\* The chunks of the file are compared with the header, and those missing copied from
\* the cache.
CheckBody(z) ==
    IF z.state # "BODY_CK" THEN z
    ELSE LET lacking == {c \in Chunks : z.file.chunk[c] # "good"}
             filled == WithChunks(z.file, lacking \cap cache.chunks, "good")
         IN  [z EXCEPT !.file = filled, !.valid = Verdicts(filled),
                       !.state = IF lacking \subseteq cache.chunks THEN "FINISHED" ELSE "BODY"]

PrepBody(z, m) ==
    IF z.state \in {"HEADER", "FINISHED"} THEN z
    ELSE LET reset == [z EXCEPT !.valid = ResetFailed(@)]
             wanted == FirstRanges(Missing(reset), max_ranges[m])
         IN  IF Missing(reset) = {} THEN [reset EXCEPT !.state = "FINISHED"]
             ELSE [reset EXCEPT !.state = "BODY", !.asked = [kind |-> "chunks", chunks |-> wanted],
                                !.range_count = Cardinality(Starts(wanted))]

\* Which way check_zck() goes, and its start when the mirror is asked for ranges.
AsksRanges(m) == max_ranges[m] > 0 /\ Protocol[m] = "http"
AskWhole(z) == [z EXCEPT !.state = "BODY", !.asked = WholeFile]
Open(z) == [z EXCEPT !.range_fail = FALSE,
                     !.dl = IF @ = "none" THEN "empty" ELSE @,
                     !.state = IF z.dl = "none" THEN "HEADER_CK" ELSE @]

Fields == [state |-> zck_state, dl |-> dl, valid |-> valid, range_count |-> range_count,
           range_fail |-> range_fail, file |-> file, asked |-> asked]
Became(z) ==
    /\ zck_state' = z.state /\ dl' = z.dl /\ valid' = z.valid /\ range_count' = z.range_count
    /\ range_fail' = z.range_fail /\ file' = z.file /\ asked' = z.asked

\* Mirrors that failed are used again only when no other is left, and FTP only then.
Tries == SumFunction(tried)
Suitable ==
    LET untried == {m \in lrmirrors : tried[m] = 0 /\ Protocol[m] # "ftp"}
    IN  IF untried # {} THEN untried
        ELSE IF Tries < MaxTries THEN {m \in lrmirrors : Protocol[m] # "file"}
        ELSE {}

\* The target's next attempt starts from z; a file found finished is not looked at again.
Start(z, m) ==
    /\ Became(z) /\ mirror' = m
    /\ state' = IF z.state = "FINISHED" THEN "FINISHED" ELSE "RUNNING"
    /\ UNCHANGED <<max_ranges, tried, given, faults>>

PrepareWhole ==
    /\ state = "WAITING"
    /\ \E m \in Suitable : ~AsksRanges(m) /\ Start(AskWhole(Fields), m)

\* The stages of check_zck().
PrepareRanges ==
    /\ state = "WAITING"
    /\ \E m \in Suitable :
          /\ AsksRanges(m)
          /\ \E opened \in {Open(Fields)} : \E found \in {FindLocalHeader(opened)} :
             \E ready \in {PrepHeader(found)} : \E checked \in {CheckBody(ready)} :
                Start(PrepBody(checked, m), m)

NoSuitable ==
    /\ state = "WAITING" /\ Suitable = {}
    /\ state' = "FAILED"
    /\ UNCHANGED <<zckVars, max_ranges, mirror, tried, given, faults>>
-------------------------------------------------------------------------------
(* The transfer and what becomes of it.                                     *)

\* The server answers the whole file (status 200) when it cannot answer the ranges.
AnsweredWhole ==
    \/ asked.kind = "whole"
    \/ asked.kind = "header" /\ RangeLimit[mirror] = 0
    \/ asked.kind = "chunks" /\ RangeLimit[mirror] < range_count

\* lr_zckheadercb() is in use.
Refuses == AnsweredWhole /\ Protocol[mirror] = "http" /\ ~range_fail

\* Mutants: the limit of the mirror stays; half of one range less.
HalvedNot(m) == max_ranges
HalvedLess(m) == [max_ranges EXCEPT ![m] = IF range_count > 0 THEN (range_count - 1) \div 2 ELSE 0]
\* The mirror is asked for half as many ranges from now on (the quotient of -1 is 0).
Halved(m) ==
    IF max_ranges[m] >= range_count
    THEN [max_ranges EXCEPT ![m] = IF range_count > 0 THEN range_count \div 2 ELSE 0]
    ELSE max_ranges

\* Mutant: a chunk that failed counts as there.
CompleteByMissing(v) == \A c \in Chunks : v[c] # 0
\* Neither a missing nor a failed chunk.
CompleteByContext(v) == \A c \in Chunks : v[c] = 1
Valid(f) == f.header = "good" /\ \A c \in Chunks : f.chunk[c] = "good"

\* The state of the file after a transfer without an error so far, with the mirror's limit m.
StateAfter(limit, v) ==
    IF zck_state = "BODY" /\ (limit > 0 /\ Protocol[mirror] = "http" => CompleteByContext(v))
    THEN "FINISHED" ELSE zck_state
\* The checks of check_transfer_statuses().
Rejected(limit, f, v) ==
    \/ zck_state = "HEADER" /\ limit > 0 /\ Protocol[mirror] = "http" /\ f.header # "good"
    \/ StateAfter(limit, v) = "FINISHED" /\ ~Valid(f)

\* Mutant: the file of every failed attempt is truncated.
KeptAll(f, s) == Empty
\* The file that another attempt finds.
Kept(f, s) == IF s = "HEADER" THEN Empty ELSE f

\* An attempt failed with the file f.
Failed(f, s, fatal) ==
    /\ tried' = [tried EXCEPT ![mirror] = @ + 1]
    /\ IF ~fatal /\ Tries + 1 < MaxTries
       THEN state' = "WAITING" /\ file' = Kept(f, s)
       ELSE state' = "FAILED" /\ file' = f

\* No error: the target is finished, or waits for its next transfer.
Succeeded(s) ==
    /\ state' = IF s = "FINISHED" THEN "FINISHED" ELSE "WAITING"
    /\ tried' = IF s = "FINISHED" THEN [tried EXCEPT ![mirror] = @ + 1] ELSE tried

\* The transfer ended as curl reports, with file f and verdicts v, the mirror's limit
\* being limits[mirror].
Evaluate(limits, f, v) ==
    /\ max_ranges' = limits /\ valid' = v
    /\ zck_state' = StateAfter(limits[mirror], v)
    /\ IF Rejected(limits[mirror], f, v) THEN Failed(f, zck_state', FALSE)
       ELSE Succeeded(zck_state') /\ file' = f

\* The server answers a range request with the whole file: lr_zckheadercb() stops it.
Refuse ==
    /\ state = "RUNNING" /\ Refuses
    /\ range_fail' = TRUE
    /\ Evaluate(Halved(mirror), file, valid)
    /\ UNCHANGED <<dl, range_count, asked, mirror, given, faults>>

\* The file and the verdicts when the header and some good and bad chunks arrived.  With
\* a range request the context judges the chunks, and erases bad ones.
ByRanges == asked.kind = "chunks"
FileWith(header, good, bad) ==
    WithChunks(WithChunks([file EXCEPT !.header = header], good, "good"),
               bad, IF ByRanges THEN "none" ELSE "bad")
VerdictsWith(good, bad) ==
    [c \in Chunks |-> IF ByRanges /\ c \in good THEN 1
                      ELSE IF ByRanges /\ c \in bad THEN -1 ELSE valid[c]]

\* All that was asked arrived, from an outdated or a broken mirror with other content.
Arrive ==
    /\ state = "RUNNING" /\ ~Refuses
    /\ \E bad \in SUBSET asked.chunks, header \in {"good", "bad"} :
          LET faulty == header = "bad" \/ bad # {}
          IN  /\ ByRanges => header = "good"
              /\ asked.kind = "whole" => bad \in {{}, Chunks} /\ (header = "bad" => bad = Chunks)
              /\ faulty => faults < MaxFaults
              /\ faults' = IF faulty THEN faults + 1 ELSE faults
              /\ Evaluate(max_ranges,
                          FileWith(IF ByRanges THEN file.header ELSE header, asked.chunks \ bad, bad),
                          VerdictsWith(asked.chunks \ bad, bad))
    /\ UNCHANGED <<dl, range_count, range_fail, asked, mirror, given>>

\* The connection broke after some of it, or libzck could not go on.  The error is taken
\* for a refusal while range_fail is set.
Cut ==
    /\ state = "RUNNING" /\ ~Refuses /\ faults < MaxFaults
    /\ \E last \in {0} \cup asked.chunks, fatal \in BOOLEAN :
          LET got == {c \in asked.chunks : c <= last}
              f == FileWith(IF asked.kind = "header" THEN "bad"
                            ELSE IF asked.kind = "whole" /\ last > 0 THEN "good" ELSE file.header,
                            got, {})
              v == VerdictsWith(got, {})
          IN  /\ fatal => asked.kind # "whole"
              /\ IF range_fail THEN ~fatal /\ Evaluate(Halved(mirror), f, v)
                 ELSE /\ Failed(f, zck_state, fatal) /\ valid' = v
                      /\ UNCHANGED <<zck_state, max_ranges>>
    /\ faults' = faults + 1
    /\ UNCHANGED <<dl, range_count, range_fail, asked, mirror, given>>

Next == PrepareWhole \/ PrepareRanges \/ NoSuitable \/ Refuse \/ Arrive \/ Cut

\* lr_perform() goes on as long as a target waits or is transferred.
Spec == Init /\ [][Next]_vars /\ WF_vars(Next)
-------------------------------------------------------------------------------
(* Properties                                                              *)

\* A target reported as successful is complete and matches its header.
FinishedIsValid == state = "FINISHED" => Valid(file)

\* What arrived is not lost: once the header is known, a failed attempt, another mirror
\* and the cache leave the good chunks of the file alone.
ProgressKept ==
    [][dl = "read" => \A c \in Chunks : file.chunk[c] = "good" => file'.chunk[c] = "good"]_vars

\* A mirror that answers range requests is never asked for the whole file: the limit that
\* is halved again and again does not reach 0.
RangesSurvive == \A m \in Mirrors : RangeLimit[m] > 0 => max_ranges[m] > 0

\* No chunk that the file already holds is downloaded again.
NothingTwice ==
    state = "RUNNING" /\ ByRanges => \A c \in asked.chunks : file.chunk[c] # "good"

\* The target does not wait forever, though transfers that bring nothing are counted by
\* nobody: mirrors refuse only while they are asked for too much.
Decided == <>(state \in {"FINISHED", "FAILED"})
===============================================================================
