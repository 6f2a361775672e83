------------------------------ MODULE ZchunkProofs ------------------------------
(***************************************************************************)
(* Theorems about Zchunk for any number of chunks and mirrors, any limits  *)
(* of the mirrors, any file and any cache, when every mirror answers range *)
(* requests.  With a mirror that answers none FinishedIsValid does not     *)
(* hold: see the run "unranged".                                           *)
(***************************************************************************)
EXTENDS Zchunk, FiniteSetTheorems, TLAPS

\* Every mirror answers at least one range in a request.
AllRanged == \A m \in Mirrors : Protocol[m] = "http" /\ RangeLimit[m] > 0

(* The inductive invariant.  It is a property of the fields of the target, *)
(* taken as the record the stages of check_zck() work on.                  *)

ZckType == [state : {"HEADER_CK", "HEADER", "BODY_CK", "BODY", "FINISHED"},
            dl : {"none", "empty", "unread", "read"}, valid : [Chunks -> {-1, 0, 1}],
            range_count : Int, range_fail : BOOLEAN, file : File, asked : Requests]

\* The context calls exactly those chunks valid that are.
Agree(v, f) == f.header = "good" /\ \A c \in Chunks : v[c] = 1 <=> f.chunk[c] = "good"

\* A file whose header was read, with the verdicts of the context up to date.
Checked(z) == /\ z.dl = "read" /\ z.state \in {"BODY", "FINISHED"}
              /\ Agree(z.valid, z.file)
              /\ z.state = "FINISHED" => Valid(z.file)

\* A file between two attempts, and during one.
Resting(z) == \/ z.dl = "none" /\ z.state = "HEADER_CK"
              \/ z.dl = "unread" /\ z.state = "HEADER"
              \/ Checked(z)
Busy(z) == /\ z.range_fail = FALSE
           /\ \/ z.dl = "unread" /\ z.state = "HEADER" /\ z.asked = HeaderOnly
              \/ /\ Checked(z) /\ z.state = "BODY"
                 /\ z.asked.kind = "chunks"
                 /\ \A c \in z.asked.chunks : z.valid[c] = 0

Mirroring == /\ lrmirrors \subseteq Mirrors /\ max_ranges \in [Mirrors -> Nat \ {0}]
             /\ state = "RUNNING" => mirror \in Mirrors

IInv == /\ AllRanged
        /\ Fields \in ZckType
        /\ Mirroring
        /\ state \in {"WAITING", "RUNNING", "FINISHED", "FAILED"}
        /\ Resting(Fields)
        /\ state = "RUNNING" => Busy(Fields)
        /\ state = "FINISHED" => zck_state = "FINISHED"
-------------------------------------------------------------------------------
(* Lemmas on the operators.                                                *)

LEMMA EmptyIsFile == Empty \in File
BY DEF Empty, File, Content

\* Storing chunks changes these and no others.
LEMMA WithChunksIsFile ==
    ASSUME NEW f \in File, NEW S, NEW what \in Content
    PROVE  /\ WithChunks(f, S, what) \in File
           /\ WithChunks(f, S, what).header = f.header
           /\ \A c \in Chunks : WithChunks(f, S, what).chunk[c] = IF c \in S THEN what ELSE f.chunk[c]
BY DEF WithChunks, File, Content

LEMMA WithHeaderIsFile ==
    ASSUME NEW f \in File, NEW h \in Content
    PROVE  /\ [f EXCEPT !.header = h] \in File
           /\ [f EXCEPT !.header = h].header = h
           /\ [f EXCEPT !.header = h].chunk = f.chunk
BY DEF File, Content

\* The number of ranges in a set of chunks.
LEMMA RangesAreCounted ==
    ASSUME NEW S \in SUBSET Chunks
    PROVE  Cardinality(Starts(S)) \in Nat
<1>1. IsFiniteSet(Chunks)
  BY FS_Interval, ZchunkAssumption DEF Chunks, ZchunkAssumption
<1>2. Starts(S) \subseteq Chunks
  BY DEF Starts
<1> QED
  BY <1>1, <1>2, FS_Subset, FS_CardinalityType

LEMMA SuitableAreMirrors ==
    ASSUME lrmirrors \subseteq Mirrors
    PROVE  Suitable \subseteq Mirrors
BY DEF Suitable
-------------------------------------------------------------------------------
(* The stages of check_zck().                                              *)

LEMMA OpenStage ==
    ASSUME NEW z \in ZckType, Resting(z)
    PROVE  LET y == Open(z) IN
           /\ y \in ZckType /\ y.range_fail = FALSE
           /\ \/ y.dl = "empty" /\ y.state = "HEADER_CK"
              \/ y.dl = "unread" /\ y.state = "HEADER"
              \/ Checked(y)
           /\ z.dl = "read" => Checked(y) /\ y.file = z.file
<1> DEFINE y == Open(z)
<1>1. y \in ZckType /\ y.range_fail = FALSE
  BY DEF Open, ZckType
<1>2. /\ y.file = z.file /\ y.valid = z.valid
      /\ y.dl = IF z.dl = "none" THEN "empty" ELSE z.dl
      /\ y.state = IF z.dl = "none" THEN "HEADER_CK" ELSE z.state
  BY DEF Open, ZckType
<1> QED
  BY <1>1, <1>2 DEF Resting, Checked

LEMMA FindStage ==
    ASSUME NEW z \in ZckType, z.range_fail = FALSE,
           \/ z.dl = "empty" /\ z.state = "HEADER_CK"
           \/ z.dl = "unread" /\ z.state = "HEADER"
           \/ Checked(z)
    PROVE  LET y == FindLocalHeader(z) IN
           /\ y \in ZckType /\ y.range_fail = FALSE
           /\ \/ y.dl \in {"empty", "unread"} /\ y.state = "HEADER"
              \/ y.dl = "read" /\ y.state = "BODY_CK" /\ y.file.header = "good"
              \/ Checked(y)
           /\ Checked(z) => y = z
<1> DEFINE y == FindLocalHeader(z)
<1>1. CASE z.dl # "empty"
  BY <1>1 DEF FindLocalHeader
<1>2. CASE z.dl = "empty" /\ cache.header
  <2> DEFINE g == [Empty EXCEPT !.header = "good"]
             f == WithChunks(g, cache.chunks, "good")
  <2>1. f \in File /\ f.header = "good"
    <3>1. "good" \in Content
      BY DEF Content
    <3>2. g \in File /\ g.header = "good"
      BY <3>1, EmptyIsFile, WithHeaderIsFile
    <3> HIDE DEF g
    <3> QED
      BY <3>1, <3>2, WithChunksIsFile
  <2>2. z.state = "HEADER_CK"
    BY <1>2 DEF Checked
  <2>3. y = [z EXCEPT !.dl = "read", !.valid = Unknown, !.state = "BODY_CK", !.file = f]
    BY <1>2, <2>2 DEF FindLocalHeader
  <2>4. Unknown \in [Chunks -> {-1, 0, 1}]
    BY DEF Unknown
  <2> HIDE DEF f, y
  <2>5. y \in ZckType /\ y.range_fail = FALSE /\ y.dl = "read" /\ y.state = "BODY_CK" /\ y.file = f
    BY <2>1, <2>3, <2>4 DEF ZckType
  <2> QED
    BY <1>2, <2>1, <2>5 DEF Checked, y
<1>3. CASE z.dl = "empty" /\ ~cache.header
  <2>1. z.state = "HEADER_CK"
    BY <1>3 DEF Checked
  <2>2. y = [z EXCEPT !.state = "HEADER"]
    BY <1>3, <2>1 DEF FindLocalHeader
  <2> HIDE DEF y
  <2>3. y \in ZckType /\ y.range_fail = FALSE /\ y.dl = "empty" /\ y.state = "HEADER"
    BY <1>3, <2>2 DEF ZckType
  <2> QED
    BY <1>3, <2>3 DEF Checked, y
<1> QED
  BY <1>1, <1>2, <1>3

LEMMA HeaderStage ==
    ASSUME NEW z \in ZckType, z.range_fail = FALSE,
           \/ z.dl \in {"empty", "unread"} /\ z.state = "HEADER"
           \/ z.dl = "read" /\ z.state = "BODY_CK" /\ z.file.header = "good"
           \/ Checked(z)
    PROVE  LET y == PrepHeader(z) IN
           /\ y \in ZckType /\ y.range_fail = FALSE
           /\ \/ y.dl = "unread" /\ y.state = "HEADER" /\ y.asked = HeaderOnly
              \/ y.dl = "read" /\ y.state = "BODY_CK" /\ y.file.header = "good"
              \/ Checked(y)
           /\ Checked(z) => y = z
<1> DEFINE y == PrepHeader(z)
<1>1. CASE z.state # "HEADER"
  BY <1>1 DEF PrepHeader
<1>2. CASE z.state = "HEADER" /\ z.file.header = "good"
  <2>1. y = [z EXCEPT !.dl = "read", !.valid = Unknown, !.state = "BODY_CK"]
    BY <1>2 DEF PrepHeader
  <2>2. Unknown \in [Chunks -> {-1, 0, 1}]
    BY DEF Unknown
  <2> HIDE DEF y
  <2>3. /\ y \in ZckType /\ y.range_fail = FALSE
        /\ y.dl = "read" /\ y.state = "BODY_CK" /\ y.file = z.file
    BY <2>1, <2>2 DEF ZckType
  <2> QED
    BY <1>2, <2>3 DEF Checked, y
<1>3. CASE z.state = "HEADER" /\ z.file.header # "good"
  <2>1. y = [z EXCEPT !.dl = "unread", !.asked = HeaderOnly, !.file = Empty]
    BY <1>3 DEF PrepHeader
  <2>2. HeaderOnly \in Requests
    BY DEF HeaderOnly, Requests
  <2> HIDE DEF y
  <2>3. /\ y \in ZckType /\ y.range_fail = FALSE
        /\ y.dl = "unread" /\ y.state = "HEADER" /\ y.asked = HeaderOnly
    BY <1>3, <2>1, <2>2, EmptyIsFile DEF ZckType
  <2> QED
    BY <1>3, <2>3 DEF Checked, y
<1> QED
  BY <1>1, <1>2, <1>3

LEMMA BodyCheckStage ==
    ASSUME NEW z \in ZckType, z.range_fail = FALSE,
           \/ z.dl = "unread" /\ z.state = "HEADER" /\ z.asked = HeaderOnly
           \/ z.dl = "read" /\ z.state = "BODY_CK" /\ z.file.header = "good"
           \/ Checked(z)
    PROVE  LET y == CheckBody(z) IN
           /\ y \in ZckType /\ y.range_fail = FALSE
           /\ \/ y.dl = "unread" /\ y.state = "HEADER" /\ y.asked = HeaderOnly
              \/ Checked(y)
           /\ Checked(z) => y = z
<1> DEFINE y == CheckBody(z)
<1>1. CASE z.state # "BODY_CK"
  BY <1>1 DEF CheckBody, Checked
<1>2. CASE z.state = "BODY_CK"
  <2> DEFINE lacking == {c \in Chunks : z.file.chunk[c] # "good"}
             filled == WithChunks(z.file, lacking \cap cache.chunks, "good")
             after == IF lacking \subseteq cache.chunks THEN "FINISHED" ELSE "BODY"
  <2>1. y = [z EXCEPT !.file = filled, !.valid = Verdicts(filled), !.state = after]
    BY <1>2 DEF CheckBody
  <2>2. z.file \in File
    BY DEF ZckType
  <2>3. /\ filled \in File /\ filled.header = z.file.header
        /\ \A c \in Chunks : filled.chunk[c] =
                IF c \in lacking \cap cache.chunks THEN "good" ELSE z.file.chunk[c]
    BY <2>2, WithChunksIsFile DEF Content
  <2>4. z.dl = "read" /\ z.file.header = "good"
    BY <1>2 DEF Checked
  <2>5. lacking \subseteq cache.chunks => \A c \in Chunks : filled.chunk[c] = "good"
    BY <2>3
  <2> HIDE DEF filled, lacking
  <2>6. Verdicts(filled) \in [Chunks -> {-1, 0, 1}] /\ Agree(Verdicts(filled), filled)
    BY <2>3, <2>4 DEF Verdicts, Agree
  <2> HIDE DEF y
  <2>7. /\ y \in ZckType /\ y.range_fail = FALSE /\ y.dl = "read" /\ y.state = after
        /\ y.file = filled /\ y.valid = Verdicts(filled)
    BY <2>1, <2>3, <2>4, <2>6 DEF ZckType
  <2>8. Checked(y)
    BY <2>3, <2>4, <2>5, <2>6, <2>7 DEF Checked, Valid
  <2> QED
    BY <1>2, <2>7, <2>8 DEF Checked, y
<1> QED
  BY <1>1, <1>2

\* Failed chunks become missing ones, and of the missing ones some are asked for.
LEMMA BodyStage ==
    ASSUME NEW z \in ZckType, z.range_fail = FALSE, NEW m,
           \/ z.dl = "unread" /\ z.state = "HEADER" /\ z.asked = HeaderOnly
           \/ Checked(z)
    PROVE  LET y == PrepBody(z, m) IN
           /\ y \in ZckType
           /\ Busy(y) \/ (Checked(y) /\ y.state = "FINISHED")
           /\ Checked(z) => y.file = z.file
<1> DEFINE y == PrepBody(z, m)
<1>1. CASE z.state \in {"HEADER", "FINISHED"}
  BY <1>1 DEF PrepBody, Busy, Checked
<1>2. CASE z.state \notin {"HEADER", "FINISHED"}
  <2> DEFINE reset == [z EXCEPT !.valid = ResetFailed(@)]
             wanted == FirstRanges(Missing(reset), max_ranges[m])
  <2>1. Checked(z) /\ z.dl = "read" /\ z.state = "BODY" /\ z.valid \in [Chunks -> {-1, 0, 1}]
    BY <1>2 DEF Checked, ZckType
  <2>2. /\ ResetFailed(z.valid) \in [Chunks -> {-1, 0, 1}]
        /\ \A c \in Chunks : /\ ResetFailed(z.valid)[c] \in {0, 1}
                             /\ ResetFailed(z.valid)[c] = 1 <=> z.valid[c] = 1
    BY <2>1 DEF ResetFailed
  <2>3. /\ reset \in ZckType /\ reset.valid = ResetFailed(z.valid)
        /\ reset.file = z.file /\ reset.dl = "read" /\ reset.range_fail = FALSE
    BY <2>1, <2>2 DEF ZckType
  <2>4. Agree(reset.valid, z.file)
    BY <2>1, <2>2, <2>3 DEF Checked, Agree
  <2>5. Missing(reset) = {c \in Chunks : reset.valid[c] = 0}
    BY <2>3 DEF Missing
  <2>6. y = IF Missing(reset) = {} THEN [reset EXCEPT !.state = "FINISHED"]
            ELSE [reset EXCEPT !.state = "BODY", !.asked = [kind |-> "chunks", chunks |-> wanted],
                               !.range_count = Cardinality(Starts(wanted))]
    BY <1>2 DEF PrepBody
  <2>7. wanted \subseteq Missing(reset)
    BY DEF FirstRanges
  <2>8. Cardinality(Starts(wanted)) \in Nat
    BY <2>5, <2>7, RangesAreCounted
  <2> HIDE DEF reset, wanted, y
  <2>9. CASE Missing(reset) = {}
    <3>1. \A c \in Chunks : z.file.chunk[c] = "good"
      BY <2>2, <2>3, <2>4, <2>5, <2>9 DEF Agree
    <3>2. /\ y \in ZckType /\ y.dl = "read" /\ y.state = "FINISHED"
          /\ y.valid = reset.valid /\ y.file = z.file
      BY <2>3, <2>6, <2>9 DEF ZckType
    <3>3. Checked(y)
      BY <2>4, <3>1, <3>2 DEF Checked, Valid, Agree
    <3> QED
      BY <3>2, <3>3 DEF y
  <2>10. CASE Missing(reset) # {}
    <3> DEFINE request == [kind |-> "chunks", chunks |-> wanted]
               count == Cardinality(Starts(wanted))
    <3>1. /\ request \in Requests /\ request.kind = "chunks" /\ request.chunks = wanted
          /\ count \in Int
      BY <2>5, <2>7, <2>8 DEF Requests
    <3> HIDE DEF request, count
    <3>0. y = [reset EXCEPT !.state = "BODY", !.asked = request, !.range_count = count]
      BY <2>6, <2>10 DEF request, count
    <3>2. /\ y \in ZckType /\ y.dl = "read" /\ y.state = "BODY" /\ y.range_fail = FALSE
          /\ y.valid = reset.valid /\ y.file = z.file
          /\ y.asked = request
      BY <2>3, <3>0, <3>1 DEF ZckType
    <3>3. Checked(y)
      BY <2>4, <3>2 DEF Checked
    <3>4. Busy(y)
      BY <2>5, <2>7, <3>1, <3>2, <3>3 DEF Busy
    <3> QED
      BY <3>2, <3>4 DEF y
  <2> QED
    BY <2>9, <2>10
<1> QED
  BY <1>1, <1>2
-------------------------------------------------------------------------------
(* The inductive invariant is kept.                                        *)

\* A transfer that ended without an error: its file f and its verdicts v agree.
LEMMA EvaluateKeeps ==
    ASSUME IInv, state = "RUNNING",
           NEW limits \in [Mirrors -> Nat \ {0}], NEW f \in File,
           NEW v \in [Chunks -> {-1, 0, 1}], dl = "read" => Agree(v, f),
           Evaluate(limits, f, v), range_fail' \in BOOLEAN,
           UNCHANGED <<dl, range_count, asked, mirror, lrmirrors>>
    PROVE  IInv' /\ (dl = "read" => file' = f)
<1>1. /\ mirror \in Mirrors /\ limits[mirror] > 0 /\ Protocol[mirror] = "http"
      /\ max_ranges' = limits /\ valid' = v
      /\ zck_state' = StateAfter(limits[mirror], v)
  BY DEF IInv, Mirroring, AllRanged, Evaluate
<1>2. Mirroring' /\ AllRanged'
  BY <1>1 DEF IInv, Mirroring, AllRanged
<1>3. Fields.dl = dl /\ Fields.state = zck_state /\ Fields.asked = asked
      /\ Fields.valid = valid /\ Fields.file = file
  BY DEF Fields
<1>4. range_count \in Int /\ asked \in Requests /\ dl \in {"none", "empty", "unread", "read"}
  BY DEF IInv, Fields, ZckType
<1>5. ASSUME file' \in File, zck_state' \in {"HEADER", "BODY", "FINISHED"}
      PROVE  Fields' \in ZckType
  BY <1>1, <1>4, <1>5 DEF Fields, ZckType
<1>6. CASE dl = "unread"
  <2>1. zck_state = "HEADER"
    BY <1>3, <1>6 DEF IInv, Busy, Checked
  <2>2. zck_state' = "HEADER"
    BY <1>1, <2>1 DEF StateAfter
  <2>3. file' \in File /\ state' \in {"WAITING", "FAILED"}
    BY <2>2, EmptyIsFile DEF Evaluate, Failed, Kept, Succeeded
  <2>4. Resting(Fields)'
    BY <1>6, <2>2 DEF Resting, Fields
  <2> QED
    BY <1>2, <1>5, <1>6, <2>2, <2>3, <2>4 DEF IInv
<1>7. CASE dl # "unread"
  <2>1. dl = "read" /\ zck_state = "BODY"
    BY <1>3, <1>7 DEF IInv, Busy, Checked
  <2>2. CASE CompleteByContext(v)
    <3>1. zck_state' = "FINISHED"
      BY <1>1, <2>1, <2>2 DEF StateAfter
    <3>2. Valid(f)
      BY <2>1, <2>2 DEF CompleteByContext, Agree, Valid
    <3>3. ~Rejected(limits[mirror], f, v)
      BY <2>1, <3>2 DEF Rejected
    <3>4. file' = f /\ state' = "FINISHED"
      BY <3>1, <3>3 DEF Evaluate, Succeeded
    <3>5. Resting(Fields)'
      BY <1>1, <2>1, <3>1, <3>2, <3>4 DEF Resting, Checked, Fields
    <3> QED
      BY <1>2, <1>5, <3>1, <3>4, <3>5 DEF IInv
  <2>3. CASE ~CompleteByContext(v)
    <3>1. zck_state' = "BODY" /\ ~Rejected(limits[mirror], f, v)
      BY <1>1, <2>1, <2>3 DEF StateAfter, Rejected
    <3>2. file' = f /\ state' = "WAITING"
      BY <3>1 DEF Evaluate, Succeeded
    <3>3. Resting(Fields)'
      BY <1>1, <2>1, <3>1, <3>2 DEF Resting, Checked, Fields
    <3> QED
      BY <1>2, <1>5, <3>1, <3>2, <3>3 DEF IInv
  <2> QED
    BY <2>2, <2>3
<1> QED
  BY <1>6, <1>7

\* An attempt that failed.
LEMMA FailedKeeps ==
    ASSUME IInv, state = "RUNNING", NEW f \in File, NEW fatal \in BOOLEAN,
           valid' \in [Chunks -> {-1, 0, 1}], dl = "read" => Agree(valid', f),
           Failed(f, zck_state, fatal),
           UNCHANGED <<zck_state, max_ranges, dl, range_count, range_fail, asked, mirror, lrmirrors>>
    PROVE  IInv' /\ (dl = "read" => file' = f)
<1>1. Mirroring' /\ AllRanged'
  BY DEF IInv, Mirroring, AllRanged
<1>2. state' \in {"WAITING", "FAILED"} /\ file' \in File
  BY EmptyIsFile DEF Failed, Kept
<1>3. Fields' \in ZckType
  BY <1>2 DEF IInv, Fields, ZckType
<1>4. CASE dl = "unread"
  <2>1. zck_state = "HEADER"
    BY <1>4 DEF IInv, Busy, Checked, Fields
  <2>2. Resting(Fields)'
    BY <1>4, <2>1 DEF Resting, Fields
  <2> QED
    BY <1>1, <1>2, <1>3, <1>4, <2>2 DEF IInv
<1>5. CASE dl # "unread"
  <2>1. dl = "read" /\ zck_state = "BODY"
    BY <1>5 DEF IInv, Busy, Checked, Fields
  <2>2. file' = f
    BY <2>1 DEF Failed, Kept
  <2>3. Resting(Fields)'
    BY <2>1, <2>2 DEF Resting, Checked, Fields
  <2> QED
    BY <1>1, <1>2, <1>3, <2>2, <2>3 DEF IInv
<1> QED
  BY <1>4, <1>5

\* What a transfer stored: the context judges what was asked for by ranges.
LEMMA StoredAgrees ==
    ASSUME IInv, state = "RUNNING", NEW header \in Content,
           NEW good \in SUBSET asked.chunks, NEW bad \in SUBSET asked.chunks, good \cap bad = {},
           ByRanges => header = file.header
    PROVE  /\ FileWith(header, good, bad) \in File
           /\ VerdictsWith(good, bad) \in [Chunks -> {-1, 0, 1}]
           /\ dl = "read" => Agree(VerdictsWith(good, bad), FileWith(header, good, bad))
           /\ dl = "read" => \A c \in Chunks : file.chunk[c] = "good" =>
                                 FileWith(header, good, bad).chunk[c] = "good"
<1> DEFINE g == [file EXCEPT !.header = header]
           stored == WithChunks(g, good, "good")
           badly == IF ByRanges THEN "none" ELSE "bad"
           f == WithChunks(stored, bad, badly)
<1>1. file \in File /\ valid \in [Chunks -> {-1, 0, 1}]
  BY DEF IInv, Fields, ZckType
<1>2. "good" \in Content /\ badly \in Content
  BY DEF Content
<1>3. g \in File /\ g.header = header /\ g.chunk = file.chunk
  BY <1>1, WithHeaderIsFile
<1> HIDE DEF g
<1>4. /\ stored \in File /\ stored.header = header
      /\ \A c \in Chunks : stored.chunk[c] = IF c \in good THEN "good" ELSE file.chunk[c]
  BY <1>2, <1>3, WithChunksIsFile
<1> HIDE DEF stored, badly
<1>5. /\ f \in File /\ f.header = header
      /\ \A c \in Chunks : f.chunk[c] = IF c \in bad THEN badly
                                        ELSE IF c \in good THEN "good" ELSE file.chunk[c]
  BY <1>2, <1>4, WithChunksIsFile
<1>6. f = FileWith(header, good, bad)
  BY DEF FileWith, g, stored, badly
<1> HIDE DEF f
<1>7. VerdictsWith(good, bad) \in [Chunks -> {-1, 0, 1}]
  BY <1>1 DEF VerdictsWith
<1>8. ASSUME dl = "read"
      PROVE  /\ Agree(VerdictsWith(good, bad), f)
             /\ \A c \in Chunks : file.chunk[c] = "good" => f.chunk[c] = "good"
  <2>1. /\ Agree(valid, file) /\ asked.kind = "chunks"
        /\ \A c \in asked.chunks : valid[c] = 0
    BY <1>8 DEF IInv, Busy, Checked, Fields
  <2>2. badly = "none" /\ ByRanges /\ header = "good"
    BY <2>1 DEF badly, ByRanges, Agree
  <2>3. \A c \in Chunks : VerdictsWith(good, bad)[c] =
            IF c \in good THEN 1 ELSE IF c \in bad THEN -1 ELSE valid[c]
    BY <2>2 DEF VerdictsWith
  <2>4. \A c \in Chunks : VerdictsWith(good, bad)[c] = 1 <=> f.chunk[c] = "good"
    BY <1>5, <2>1, <2>2, <2>3 DEF Agree
  <2>5. \A c \in Chunks : file.chunk[c] = "good" => c \notin bad
    BY <2>1 DEF Agree
  <2> QED
    BY <1>5, <2>2, <2>4, <2>5 DEF Agree
<1> QED
  BY <1>5, <1>6, <1>7, <1>8

LEMMA IInvInit == AllRanged /\ Init => IInv
<1> SUFFICES ASSUME AllRanged, Init PROVE IInv
  OBVIOUS
<1>1. file \in File
  BY ZchunkAssumption DEF Init, ZchunkAssumption
<1>2. valid \in [Chunks -> {-1, 0, 1}] /\ asked \in Requests
  BY DEF Init, Unknown, HeaderOnly, Requests
<1>3. Fields \in ZckType
  <2>1. zck_state = "HEADER_CK" /\ dl = "none" /\ range_fail = FALSE
    BY DEF Init
  <2>2. range_count \in Int
    <3>1. range_count = -1
      BY DEF Init
    <3> QED
      BY <3>1
  <2> QED
    BY <1>1, <1>2, <2>1, <2>2 DEF Fields, ZckType
<1>4. Mirroring
  BY ZchunkAssumption DEF Init, Mirroring, ZchunkAssumption
<1>5. Resting(Fields)
  BY DEF Init, Resting, Fields
<1> QED
  BY <1>3, <1>4, <1>5 DEF Init, IInv

\* The next attempt starts from a file that went through the stages.
LEMMA StartKeeps ==
    ASSUME IInv, NEW z \in ZckType, Busy(z) \/ (Checked(z) /\ z.state = "FINISHED"),
           NEW m \in Mirrors, Start(z, m)
    PROVE  IInv' /\ (dl = "read" /\ z.file = file => file' = file)
<1>1. /\ zck_state' = z.state /\ dl' = z.dl /\ valid' = z.valid /\ range_count' = z.range_count
      /\ range_fail' = z.range_fail /\ file' = z.file /\ asked' = z.asked
      /\ mirror' = m /\ lrmirrors' = lrmirrors /\ max_ranges' = max_ranges
      /\ state' = IF z.state = "FINISHED" THEN "FINISHED" ELSE "RUNNING"
  BY DEF Start, Became, given
<1>2. Fields' = z
  BY <1>1 DEF Fields, ZckType
<1>3. Mirroring' /\ AllRanged'
  BY <1>1 DEF IInv, Mirroring, AllRanged
<1>4. Resting(z)
  BY DEF Busy, Resting, Checked
<1>5. Resting(Fields') /\ (z.state # "FINISHED" => Busy(Fields'))
  BY <1>2, <1>4
<1>6. Fields' \in ZckType
  BY <1>2
<1>7. Resting(Fields)' /\ (state' = "RUNNING" => Busy(Fields)')
  BY <1>1, <1>5 DEF Resting, Busy, Checked
<1> QED
  BY <1>1, <1>3, <1>6, <1>7 DEF IInv

\* One step of a target: it keeps the invariant, and what arrived of a file whose
\* header is known.
LEMMA StepKeeps ==
    ASSUME IInv, [Next]_vars
    PROVE  /\ IInv'
           /\ dl = "read" => \A c \in Chunks : file.chunk[c] = "good" => file'.chunk[c] = "good"
<1>1. \A m \in Mirrors : AsksRanges(m) /\ RangeLimit[m] > 0 /\ RangeLimit[m] \in Nat
  BY ZchunkAssumption DEF IInv, AllRanged, Mirroring, AsksRanges, ZchunkAssumption
<1>2. Suitable \subseteq Mirrors
  BY SuitableAreMirrors DEF IInv, Mirroring
<1>3. CASE PrepareWhole
  BY <1>1, <1>2, <1>3 DEF PrepareWhole
<1>4. CASE PrepareRanges
  <2>1. PICK m \in Suitable :
           \E opened \in {Open(Fields)} : \E found \in {FindLocalHeader(opened)} :
           \E ready \in {PrepHeader(found)} : \E checked \in {CheckBody(ready)} :
              Start(PrepBody(checked, m), m)
    BY <1>4 DEF PrepareRanges
  <2> DEFINE opened == Open(Fields)
             found == FindLocalHeader(opened)
             ready == PrepHeader(found)
             checked == CheckBody(ready)
             z == PrepBody(checked, m)
  <2>2. Start(z, m) /\ m \in Mirrors
    BY <1>2, <2>1
  <2>3. /\ opened \in ZckType /\ opened.range_fail = FALSE
        /\ \/ opened.dl = "empty" /\ opened.state = "HEADER_CK"
           \/ opened.dl = "unread" /\ opened.state = "HEADER"
           \/ Checked(opened)
        /\ dl = "read" => Checked(opened) /\ opened.file = file
    BY OpenStage DEF IInv, Fields
  <2> HIDE DEF opened
  <2>4. /\ found \in ZckType /\ found.range_fail = FALSE
        /\ \/ found.dl \in {"empty", "unread"} /\ found.state = "HEADER"
           \/ found.dl = "read" /\ found.state = "BODY_CK" /\ found.file.header = "good"
           \/ Checked(found)
        /\ Checked(opened) => found = opened
    BY <2>3, FindStage
  <2> HIDE DEF found
  <2>5. /\ ready \in ZckType /\ ready.range_fail = FALSE
        /\ \/ ready.dl = "unread" /\ ready.state = "HEADER" /\ ready.asked = HeaderOnly
           \/ ready.dl = "read" /\ ready.state = "BODY_CK" /\ ready.file.header = "good"
           \/ Checked(ready)
        /\ Checked(found) => ready = found
    BY <2>4, HeaderStage
  <2> HIDE DEF ready
  <2>6. /\ checked \in ZckType /\ checked.range_fail = FALSE
        /\ \/ checked.dl = "unread" /\ checked.state = "HEADER" /\ checked.asked = HeaderOnly
           \/ Checked(checked)
        /\ Checked(ready) => checked = ready
    BY <2>5, BodyCheckStage
  <2> HIDE DEF checked
  <2>7. /\ z \in ZckType /\ (Busy(z) \/ (Checked(z) /\ z.state = "FINISHED"))
        /\ Checked(checked) => z.file = checked.file
    BY <2>6, BodyStage
  <2> HIDE DEF z
  <2>8. dl = "read" => z.file = file
    BY <2>3, <2>4, <2>5, <2>6, <2>7
  <2> QED
    BY <2>2, <2>7, <2>8, StartKeeps
<1>5. CASE NoSuitable
  <2>1. Fields' = Fields
    BY <1>5 DEF NoSuitable, Fields, zckVars
  <2>2. Resting(Fields)'
    BY <1>5 DEF NoSuitable, IInv, Resting, Checked, Fields, zckVars
  <2> QED
    BY <1>5, <2>1, <2>2 DEF NoSuitable, IInv, Mirroring, AllRanged, given, zckVars
<1>6. CASE Refuse
  <2>1. state = "RUNNING" /\ Refuses /\ mirror \in Mirrors
    BY <1>6 DEF Refuse, IInv, Mirroring
  <2>2. asked.kind = "chunks" /\ RangeLimit[mirror] < range_count
    BY <1>1, <2>1 DEF IInv, Busy, Fields, Refuses, AnsweredWhole, HeaderOnly
  <2>3. range_count \in Int /\ range_count \div 2 \in Nat \ {0}
    BY <1>1, <2>1, <2>2 DEF IInv, Fields, ZckType
  <2>4. Halved(mirror) \in [Mirrors -> Nat \ {0}]
    BY <2>1, <2>3 DEF Halved, IInv, Mirroring
  <2>5. /\ file \in File /\ valid \in [Chunks -> {-1, 0, 1}]
        /\ dl = "read" => Agree(valid, file)
    BY <2>1 DEF IInv, Fields, ZckType, Resting, Checked
  <2>6. Evaluate(Halved(mirror), file, valid) /\ range_fail' \in BOOLEAN
        /\ UNCHANGED <<dl, range_count, asked, mirror, lrmirrors>>
    BY <1>6 DEF Refuse, given
  <2> QED
    BY <2>1, <2>4, <2>5, <2>6, EvaluateKeeps
<1>7. CASE Arrive
  <2>1. PICK bad \in SUBSET asked.chunks, header \in {"good", "bad"} :
           Evaluate(max_ranges,
                    FileWith(IF ByRanges THEN file.header ELSE header, asked.chunks \ bad, bad),
                    VerdictsWith(asked.chunks \ bad, bad))
    BY <1>7 DEF Arrive
  <2> DEFINE top == IF ByRanges THEN file.header ELSE header
             f == FileWith(top, asked.chunks \ bad, bad)
             v == VerdictsWith(asked.chunks \ bad, bad)
  <2>2. state = "RUNNING" /\ top \in Content /\ (ByRanges => top = file.header)
    BY <1>7 DEF Arrive, IInv, Fields, ZckType, File, Content
  <2>3. max_ranges \in [Mirrors -> Nat \ {0}] /\ range_fail' \in BOOLEAN
        /\ UNCHANGED <<dl, range_count, asked, mirror, lrmirrors>>
    BY <1>7 DEF Arrive, IInv, Mirroring, Fields, ZckType, given
  <2> HIDE DEF top
  <2>4. /\ f \in File /\ v \in [Chunks -> {-1, 0, 1}]
        /\ dl = "read" => Agree(v, f)
        /\ dl = "read" => \A c \in Chunks : file.chunk[c] = "good" => f.chunk[c] = "good"
    <3> DEFINE good == asked.chunks \ bad
    <3>1. good \in SUBSET asked.chunks /\ good \cap bad = {}
      OBVIOUS
    <3> HIDE DEF good
    <3>2. /\ FileWith(top, good, bad) \in File
          /\ VerdictsWith(good, bad) \in [Chunks -> {-1, 0, 1}]
          /\ dl = "read" => Agree(VerdictsWith(good, bad), FileWith(top, good, bad))
          /\ dl = "read" => \A c \in Chunks : file.chunk[c] = "good" =>
                                FileWith(top, good, bad).chunk[c] = "good"
      BY <2>2, <3>1, StoredAgrees
    <3> QED
      BY <3>2 DEF good
  <2>5. Evaluate(max_ranges, f, v)
    BY <2>1 DEF top
  <2> HIDE DEF f, v
  <2>6. IInv' /\ (dl = "read" => file' = f)
    BY <2>2, <2>3, <2>4, <2>5, EvaluateKeeps
  <2> QED
    BY <2>4, <2>6
<1>8. CASE Cut
  <2>1. state = "RUNNING" /\ range_fail = FALSE
    BY <1>8 DEF Cut, IInv, Busy, Fields
  <2> DEFINE got(last) == {c \in asked.chunks : c <= last}
             top(last) == IF asked.kind = "header" THEN "bad"
                          ELSE IF asked.kind = "whole" /\ last > 0 THEN "good" ELSE file.header
             f(last) == FileWith(top(last), got(last), {})
             v(last) == VerdictsWith(got(last), {})
  <2>2. PICK last \in {0} \cup asked.chunks, fatal \in BOOLEAN :
           Failed(f(last), zck_state, fatal) /\ valid' = v(last)
           /\ UNCHANGED <<zck_state, max_ranges>>
    BY <1>8, <2>1 DEF Cut
  <2>3. top(last) \in Content /\ (ByRanges => top(last) = file.header)
    BY DEF ByRanges, IInv, Fields, ZckType, File, Content
  <2>4. got(last) \in SUBSET asked.chunks /\ {} \in SUBSET asked.chunks /\ got(last) \cap {} = {}
    OBVIOUS
  <2>5. UNCHANGED <<dl, range_count, range_fail, asked, mirror, lrmirrors>>
    BY <1>8 DEF Cut, given
  <2>6. /\ f(last) \in File /\ v(last) \in [Chunks -> {-1, 0, 1}]
        /\ dl = "read" => Agree(v(last), f(last))
        /\ dl = "read" => \A c \in Chunks : file.chunk[c] = "good" => f(last).chunk[c] = "good"
    <3> HIDE DEF got, top
    <3> QED
      BY <2>1, <2>3, <2>4, StoredAgrees
  <2> HIDE DEF f, v
  <2>7. IInv' /\ (dl = "read" => file' = f(last))
    BY <2>1, <2>2, <2>5, <2>6, FailedKeeps
  <2> QED
    BY <2>6, <2>7
<1>9. CASE UNCHANGED vars
  <2>1. Fields' = Fields
    BY <1>9 DEF vars, Fields, zckVars
  <2>2. Resting(Fields)' /\ (state' = "RUNNING" => Busy(Fields)')
    BY <1>9 DEF vars, IInv, Resting, Busy, Checked, Fields, zckVars
  <2> QED
    BY <1>9, <2>1, <2>2 DEF vars, IInv, Mirroring, AllRanged, given, zckVars
<1> QED
  BY <1>3, <1>4, <1>5, <1>6, <1>7, <1>8, <1>9 DEF Next
-------------------------------------------------------------------------------
(* Theorems                                                                *)

\* The file, the verdicts of the zchunk context and the stage of the target agree.
THEOREM Invariant == AllRanged /\ Spec => []IInv
<1>1. IInv /\ [Next]_vars => IInv'
  BY StepKeeps
<1> QED
  BY IInvInit, <1>1, PTL DEF Spec

\* A target reported as successful is complete and matches its header, after any
\* sequence of refusals, broken connections and bad chunks.
THEOREM FinishedIsValidHolds == AllRanged /\ Spec => []FinishedIsValid
<1>1. IInv => FinishedIsValid
  BY DEF IInv, Resting, Checked, Fields, FinishedIsValid
<1> QED
  BY Invariant, <1>1, PTL

\* However often it is halved, the number of ranges asked of a mirror never becomes 0.
THEOREM RangesSurviveHolds == AllRanged /\ Spec => []RangesSurvive
<1>1. IInv => RangesSurvive
  BY DEF IInv, Mirroring, RangesSurvive
<1> QED
  BY Invariant, <1>1, PTL

\* No chunk that the file already holds is downloaded again.
THEOREM NothingTwiceHolds == AllRanged /\ Spec => []NothingTwice
<1>1. IInv => NothingTwice
  <2> SUFFICES ASSUME IInv, state = "RUNNING", ByRanges, NEW c \in asked.chunks
               PROVE  file.chunk[c] # "good"
    BY DEF NothingTwice
  <2>1. c \in Chunks /\ valid[c] = 0 /\ Agree(valid, file)
    BY DEF IInv, Busy, Checked, Fields, HeaderOnly, ByRanges, ZckType, Requests
  <2> QED
    BY <2>1 DEF Agree
<1> QED
  BY Invariant, <1>1, PTL

\* Good chunks of a file whose header is known are never lost.
THEOREM ProgressKeptHolds == AllRanged /\ Spec => ProgressKept
<1>1. IInv /\ [Next]_vars =>
         [dl = "read" => \A c \in Chunks : file.chunk[c] = "good" => file'.chunk[c] = "good"]_vars
  BY StepKeeps
<1> QED
  BY Invariant, <1>1, PTL DEF Spec, ProgressKept
===============================================================================
