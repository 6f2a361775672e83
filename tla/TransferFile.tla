----------------------------- MODULE TransferFile -----------------------------
(***************************************************************************)
(* The file of one target of lr_download() over its attempts, over several *)
(* calls, and over crashes: prepare_next_transfer() opens or reopens it    *)
(* and decides from which offset to download, lr_writecb() writes what the *)
(* user asked for, check_transfer_statuses() checks the result, truncates  *)
(* or keeps the data of a failed attempt, and lr_download() removes the    *)
(* file of a target that is not finished.  Which mirror is used and        *)
(* whether another attempt is made is Downloader's: here each attempt that *)
(* fails may be followed by another, up to MaxTries.                       *)
(*                                                                         *)
(* A file is a sequence of bytes.  Byte i > 0 stands for the i-th byte of  *)
(* what the target should be, wherever it ends up; the others tell where a *)
(* byte that does not belong to the target came from.                      *)
(***************************************************************************)
EXTENDS Integers, Sequences, SequencesExt

CONSTANTS
    Size,       \* length of the target
    StaleSize,  \* length of what an outdated mirror serves in its place
    PageSize,   \* length of the page sent with a bad status
    Cases,      \* the requests, each with the file it may find
    CutDirty,   \* whether a connection may break inside such a page, and the process
                \* be killed while the file holds some of it or a hole
    MaxTries,   \* bound on the attempts of a call
    MaxCalls    \* bound on the calls of lr_download()

Page    == 0    \* sent with a bad status
Stale   == -1   \* sent by an outdated mirror with a good status
Hole    == -2   \* never written, before a byte that was
Foreign == -3   \* in the file before librepo ever wrote to it
Bytes   == Foreign .. Size

NoFile == [exists |-> FALSE, data |-> <<>>, mark |-> FALSE]

ASSUME ConstantsAssumption ==
    /\ Size \in Nat \ {0} /\ StaleSize \in Nat \ {0} /\ PageSize \in Nat \ {0}
    /\ \A c \in Cases :
          /\ c.request.byname \in BOOLEAN /\ c.request.resume \in BOOLEAN
          /\ c.request.checked \in BOOLEAN
          /\ c.request.start \in Nat /\ c.request.end \in Nat
          /\ c.request.start > 0 => ~c.request.resume
          /\ c.file \in [exists : BOOLEAN, data : Seq(Bytes), mark : BOOLEAN]
    /\ CutDirty \in BOOLEAN
    /\ MaxTries \in Nat /\ MaxCalls \in Nat

VARIABLES
    request,          \* LrDownloadTarget: byname (fn is set, not fd), resume, checked
                      \* (it has a checksum), start and end (byterangestart, -end)
    disk,             \* the file; mark is the attribute user.librepo.downloadinprogress
    pos,              \* the position of the descriptor written to
    resume,           \* LrTarget.resume
    original_offset,  \* LrTarget.original_offset
    resume_count,     \* LrTarget.resume_count
    from,             \* the offset curl was told to start at
    received,         \* LrTarget.writecb_recieved
    range_written,    \* LrTarget.writecb_required_range_written
    reply,            \* what the server still has to send, and how it will end
    state,            \* LrTarget.state, or "none" outside of lr_download()
    tries, calls

targetVars == <<resume, original_offset, resume_count>>
transferVars == <<from, received, range_written, reply>>
vars == <<request, disk, pos, targetVars, transferVars, state, tries, calls>>

File == [exists : BOOLEAN, data : Seq(Bytes), mark : BOOLEAN]
Endings == {"ok", "bad_status", "range_error", "interrupted"}
Reply == [kind : {"none", "full", "stale", "page", "refused", "inconsistent"},
          bytes : Seq(Bytes), ending : Endings]
NoReply == [kind |-> "none", bytes |-> <<>>, ending |-> "ok"]

\* LR_DOWNLOADER_MAXIMAL_RESUME_COUNT
MaxResumes == 1

TypeOK ==
    /\ request \in {c.request : c \in Cases}
    /\ disk \in File
    /\ pos \in Nat
    /\ resume \in BOOLEAN /\ original_offset \in Nat \cup {-1}
    /\ resume_count \in 0 .. MaxResumes
    /\ from \in Nat /\ received \in Nat /\ range_written \in BOOLEAN
    /\ reply \in Reply
    /\ state \in {"none", "WAITING", "RUNNING", "FINISHED", "FAILED"}
    /\ tries \in 0 .. MaxTries /\ calls \in 0 .. MaxCalls

Init ==
    /\ \E c \in Cases : request = c.request /\ disk = c.file
    /\ pos = 0
    /\ resume = FALSE /\ original_offset = -1 /\ resume_count = 0
    /\ from = 0 /\ received = 0 /\ range_written = FALSE /\ reply = NoReply
    /\ state = "none" /\ tries = 0 /\ calls = 0

\* lr_download() makes a new LrTarget for the target.  Users do not resume what was
\* completely downloaded, lr_download_packages() recognises it by size or checksum.
\* A descriptor is of a file that was just emptied (O_TRUNC in yum.c, lr_gettmpfile()).
Call ==
    /\ state = "none" /\ calls < MaxCalls
    /\ request.resume /\ calls > 0 => disk.mark \/ ~disk.exists
    /\ state' = "WAITING"
    /\ resume' = request.resume /\ original_offset' = -1 /\ resume_count' = 0
    /\ pos' = 0
    /\ disk' = IF request.byname THEN disk ELSE [disk EXCEPT !.data = <<>>]
    /\ tries' = 0 /\ calls' = calls + 1
    /\ UNCHANGED <<request, transferVars>>
-------------------------------------------------------------------------------
(* The start of an attempt.                                                *)

Whole == [i \in 1 .. Size |-> i]

\* What the servers send for a request that starts at offset o.  libcurl fails a
\* request for a part that the server does not answer with that part, and a part
\* after the end is refused with a status.
Replies(o) ==
    LET Part(kind, bytes) ==
            [kind |-> kind, bytes |-> SubSeq(bytes, o + 1, Len(bytes)),
             ending |-> IF o > 0 /\ o >= Len(bytes) THEN "bad_status" ELSE "ok"]
    IN  {Part("full", Whole), Part("stale", [i \in 1 .. StaleSize |-> Stale]),
         [kind |-> "inconsistent", bytes |-> <<>>, ending |-> "interrupted"],
         IF o > 0
         THEN [kind |-> "refused", bytes |-> <<>>, ending |-> "range_error"]
         ELSE [kind |-> "page", bytes |-> [i \in 1 .. PageSize |-> Page], ending |-> "bad_status"]}

\* Mutant: O_TRUNC is never given.
OpenedUntruncated == disk.data

\* open_target_file(): O_TRUNC is given for a file by name that is not resumed.
Opened == IF request.byname /\ ~resume THEN <<>> ELSE disk.data

\* Mutant: resuming is not given up after an attempt.
ResumesAgain == resume

Resumes == resume /\ resume_count < MaxResumes

\* A file that librepo did not write is not resumed.
ForeignFile(offset) == offset > 0 /\ ~disk.mark

\* Mutant: the size of the file is determined without moving its position.
PositionKept(size) == IF request.byname THEN 0 ELSE pos

\* The position after the file was opened and the offset was determined.
Position(size) ==
    LET start == IF request.byname THEN 0 ELSE pos IN
    CASE Resumes /\ original_offset = -1 -> size
      [] Resumes /\ original_offset > 0  -> original_offset
      [] OTHER                           -> start

\* prepare_next_transfer().
Open ==
    /\ state = "WAITING" /\ tries < MaxTries
    /\ LET offset == IF Resumes /\ original_offset = -1 THEN Len(Opened) ELSE original_offset
           foreign == Resumes /\ ForeignFile(offset)
           start == IF Resumes /\ ~foreign THEN offset ELSE request.start
       IN  /\ resume' = (Resumes /\ ~foreign)
           /\ resume_count' = IF Resumes /\ offset > 0 THEN resume_count + 1 ELSE resume_count
           /\ original_offset' = IF foreign THEN 0 ELSE offset
           /\ pos' = Position(Len(Opened))
           /\ disk' = [exists |-> TRUE, mark |-> TRUE,
                       data |-> IF foreign THEN <<>> ELSE Opened]
           /\ from' = start
           /\ reply' \in Replies(start)
    /\ received' = 0 /\ range_written' = FALSE
    /\ state' = "RUNNING" /\ tries' = tries + 1
    /\ UNCHANGED <<request, calls>>
-------------------------------------------------------------------------------
(* lr_writecb().                                                           *)

\* d after the bytes w were written at position p.
Overwrite(d, p, w) ==
    LET len == IF p + Len(w) > Len(d) THEN p + Len(w) ELSE Len(d) IN
    IF w = <<>> THEN d
    ELSE [i \in 1 .. len |-> IF i > p /\ i <= p + Len(w) THEN w[i - p]
                             ELSE IF i <= Len(d) THEN d[i] ELSE Hole]

\* Where in the target libcurl's first byte belongs.
RangeBase == IF request.start > 0 THEN request.start
             ELSE IF original_offset > 0 THEN original_offset ELSE 0

\* The whole block b is past the byte range.
PastRange(b) == request.end # 0 /\ RangeBase + received > request.end

\* The bytes of block b that are in the byte range of the request.
InRange(b) ==
    LET first == RangeBase + received
        last == first + Len(b)
        skip == IF first >= request.start THEN 0 ELSE request.start - first
        rest == IF request.end # 0 /\ last > request.end THEN last - request.end - 1 ELSE 0
    IN  IF request.start = 0 /\ request.end = 0 THEN b
        ELSE IF last < request.start \/ PastRange(b) THEN <<>>
        ELSE SubSeq(b, skip + 1, Len(b) - rest)

\* libcurl delivers a block of k bytes.
Write(k) ==
    /\ state = "RUNNING" /\ ~range_written /\ k <= Len(reply.bytes)
    /\ LET b == SubSeq(reply.bytes, 1, k)
           w == InRange(b)
       IN  /\ disk' = [disk EXCEPT !.data = Overwrite(@, pos, w)]
           /\ pos' = pos + Len(w)
           /\ range_written' = PastRange(b)
    /\ received' = received + k
    /\ reply' = [reply EXCEPT !.bytes = SubSeq(@, k + 1, Len(@))]
    /\ UNCHANGED <<request, targetVars, from, state, tries, calls>>
-------------------------------------------------------------------------------
(* check_transfer_statuses().                                              *)

\* The bytes the user asked for; an end that is not after the start is to be ignored.
Wanted == SubSeq(Whole, request.start + 1,
                 IF request.end > request.start /\ request.end < Size
                 THEN request.end + 1 ELSE Size)

Sent == reply.bytes = <<>>

\* A write that stopped because the range is complete is a success whatever the
\* status was; otherwise the status decides.
TransferOK == range_written \/ (Sent /\ reply.ending = "ok")

ChecksumOK == request.checked => disk.data = Wanted

Finish ==
    /\ state = "RUNNING" /\ TransferOK /\ ChecksumOK
    /\ state' = "FINISHED"
    /\ disk' = [disk EXCEPT !.mark = FALSE]
    /\ UNCHANGED <<request, pos, targetVars, transferVars, tries, calls>>

\* The attempt failed; "curl" is an error of the connection, after which what was
\* received may be a valid part of the target.
Error(e) ==
    /\ state = "RUNNING"
    /\ CASE e = "checksum" -> TransferOK /\ ~ChecksumOK
         [] e = "curl" -> ~range_written /\ ~Sent /\ (reply.ending = "ok" \/ CutDirty)
         [] OTHER -> ~range_written /\ Sent /\ reply.ending = e

Errors == {"checksum", "curl", "bad_status", "range_error", "interrupted"}

Resized(d, n) == [i \in 1 .. n |-> IF i <= Len(d) THEN d[i] ELSE Hole]

\* Mutant: the data of an attempt is always kept for a target that can be resumed.
KeepsAny(e) == request.resume

\* Only after an error of the connection the data is kept.
Keeps(e) == request.resume /\ e = "curl"

\* Another attempt will be made: the data is kept, or truncate_transfer_file() sets
\* the file back to what it was before the attempt.
Retry(e) ==
    /\ Error(e)
    /\ state' = "WAITING"
    /\ IF Keeps(e)
       THEN original_offset' = -1 /\ UNCHANGED <<disk, pos>>
       ELSE LET n == IF original_offset > -1 THEN original_offset ELSE 0 IN
            /\ disk' = [disk EXCEPT !.data = Resized(@, n)]
            /\ pos' = IF request.byname THEN pos ELSE n
            /\ UNCHANGED original_offset
    /\ UNCHANGED <<request, resume, resume_count, transferVars, tries, calls>>

Fail(e) ==
    /\ Error(e)
    /\ state' = "FAILED"
    /\ UNCHANGED <<request, disk, pos, targetVars, transferVars, tries, calls>>

\* lr_download() returns, because the target is decided or because the whole call
\* stops, and removes a file that is not finished.
Return ==
    /\ state # "none"
    /\ disk' = IF state # "FINISHED" /\ (~resume \/ original_offset = 0) /\ request.byname
               THEN NoFile ELSE disk
    /\ state' = "none"
    /\ UNCHANGED <<request, pos, targetVars, transferVars, tries, calls>>

\* The process is killed: the file stays as it is.
Crash ==
    /\ state # "none"
    /\ CutDirty \/ \A i \in DOMAIN disk.data : disk.data[i] \notin {Page, Hole}
    /\ state' = "none"
    /\ UNCHANGED <<request, disk, pos, targetVars, transferVars, tries, calls>>

\* No further call is made.
Over == state = "none" /\ UNCHANGED vars

Next == \/ Call \/ Open \/ Finish \/ Return \/ Crash \/ Over
        \/ \E k \in 1 .. Size + StaleSize + PageSize : Write(k)
        \/ \E e \in Errors : Retry(e) \/ Fail(e)

Spec == Init /\ [][Next]_vars
-------------------------------------------------------------------------------
(* Properties.                                                             *)

\* What librepo is used for: a file that is resumed holds what librepo got before, is
\* resumed by name and up to the end; a descriptor is of a new file; a byte range ends
\* after its start, and pages are not longer than what precedes its end.
UsualCase(c) ==
    /\ c.request.resume =>
          /\ ~CutDirty
          /\ c.request.byname /\ c.request.end = 0
          /\ \A i \in DOMAIN c.file.data : c.file.data[i] \in {i, Stale}
          /\ c.file.data # <<>> => c.file.mark
    /\ ~c.request.byname => ~c.request.resume /\ c.file.data = <<>>
    /\ c.request.end # 0 => c.request.end > c.request.start /\ PageSize <= c.request.end + 1

\* A target that finished holds exactly the bytes the user asked for, each at its
\* place, whatever was resumed, retried, truncated or killed before, unless it has no
\* checksum and an outdated mirror sent something else as the target.
SuccessIsExact ==
    state = "FINISHED" /\ (\A i \in DOMAIN disk.data : disk.data[i] # Stale) =>
        disk.data = Wanted

\* While a whole target is transferred the file is written at the place the data was
\* requested from: the position set by fseek(), O_TRUNC, lseek() or the last write
\* agrees with the offset given to libcurl.
Aligned ==
    state = "RUNNING" /\ request.start = 0 /\ request.end = 0 => pos = from + received

\* An attempt that is sent the whole target, as requested from its start, is never
\* refused for what an earlier attempt left in the file.
GoodTransferAccepted ==
    [][state = "RUNNING" /\ reply.kind = "full" /\ Sent /\ from = request.start
         => state' \in {"RUNNING", "FINISHED", "none"}]_vars
===============================================================================
