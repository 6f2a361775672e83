-------------------------- MODULE TransferFileProofs --------------------------
(***************************************************************************)
(* Theorems about the file of a target: the types, that the file is        *)
(* written where the data was requested from, that a finished file is      *)
(* exactly what the user asked for, and that a good transfer is not        *)
(* refused for what was in the file before.  But for the types they are    *)
(* about the requests librepo is used for (UsualCase); the run foreign     *)
(* shows one that is not.                                                  *)
(***************************************************************************)
EXTENDS TransferFile, SequenceTheorems, TLAPS

-------------------------------------------------------------------------------
(* The invariant.                                                          *)

Attempted == state \in {"RUNNING", "FINISHED", "FAILED"}

\* The length of what a server sends, and its i-th byte.
LengthOf(kind) == CASE kind = "full"  -> Size
                    [] kind = "stale" -> StaleSize
                    [] kind = "page"  -> PageSize
                    [] OTHER          -> 0
ByteOf(kind, i) == CASE kind = "full" -> i [] kind = "stale" -> Stale [] OTHER -> Page

\* What the server still sends of kind from the byte after p, for a request from o.
Sends(r, o, p) ==
    /\ r \in Reply /\ r.kind # "none"
    /\ Len(r.bytes) = IF p < LengthOf(r.kind) THEN LengthOf(r.kind) - p ELSE 0
    /\ \A i \in DOMAIN r.bytes : r.bytes[i] = ByteOf(r.kind, p + i)
    /\ r.ending = "ok" <=> r.kind \in {"full", "stale"} /\ o < LengthOf(r.kind)
    /\ r.kind = "page" => o = 0

\* What is left of the reply is what follows the bytes that were received.
Replied ==
    Attempted => /\ Sends(reply, from, from + received)
                 /\ received > 0 => from + received <= LengthOf(reply.kind)

\* Where an attempt is, and what it may be resumed from.
Offsets ==
    /\ state # "none" => calls > 0
    /\ state = "RUNNING" => disk.mark
    /\ Attempted => disk.exists
    /\ resume => request.resume
    /\ ~request.resume => original_offset = -1
    /\ Attempted /\ resume => from = original_offset
    /\ Attempted /\ ~resume => from = request.start
    /\ state # "none" /\ original_offset > 0 => resume_count = MaxResumes
    /\ state = "FINISHED" => TransferOK

\* The file of a target that is not resumed holds what this attempt wrote.
Fresh ==
    ~request.resume =>
        /\ state = "WAITING" /\ ~request.byname => disk.data = <<>> /\ pos = 0
        /\ Attempted =>
              /\ pos = Len(disk.data)
              /\ pos = IF request.end # 0 /\ from + received > request.end
                       THEN request.end + 1 - from ELSE received
              /\ \A i \in 1 .. pos : disk.data[i] = ByteOf(reply.kind, from + i)
              /\ range_written => /\ request.end # 0 /\ from + received > request.end + 1
                                  /\ reply.kind # "page"

\* The file of a target that can be resumed holds bytes of the target or of an outdated
\* one at their place, but for pages, which are gone before it is resumed.
Clean == state = "none" \/ (state = "WAITING" /\ resume) \/ (Attempted /\ reply.kind # "page")
Resumed ==
    request.resume =>
        /\ \A i \in DOMAIN disk.data : disk.data[i] \in {i, Stale, Page, Hole}
        /\ Clean => \A i \in DOMAIN disk.data : disk.data[i] \in {i, Stale}
        /\ calls = 0 \/ ~disk.exists \/ state = "WAITING" => disk.data = <<>> \/ disk.mark
        /\ Attempted =>
              /\ pos = from + received /\ pos <= Len(disk.data) /\ ~range_written
              /\ reply.kind = "full" => \A i \in from + 1 .. pos : disk.data[i] = i
              /\ reply.kind = "stale" /\ received > 0 => disk.data[pos] = Stale
              /\ reply.kind = "page" /\ received > 0 => disk.data[1] = Page

FInv == Replied /\ Offsets /\ Fresh /\ Resumed

Usual == \A c \in Cases : UsualCase(c)

\* No file an outdated mirror sent, or a resumed one found, is longer than the target, and
\* no range starts after its end.
Short ==
    /\ StaleSize <= Size
    /\ \A c \in Cases : c.request.start < Size
    /\ \A c \in Cases : c.request.resume => Len(c.file.data) <= Size

\* Then a file that can be resumed gets longer than the target by a page only.
Fits ==
    request.resume =>
        /\ state # "none" => original_offset <= Size
        /\ Len(disk.data) > Size => Attempted /\ reply.kind = "page" /\ received > 0

-------------------------------------------------------------------------------
(* Sequences.                                                              *)

\* A function on 1 .. n is a sequence of length n.
LEMMA FunctionIsSeq ==
    ASSUME NEW S, NEW n \in Nat, NEW f \in [1 .. n -> S]
    PROVE  f \in Seq(S) /\ Len(f) = n
<1>1. f \in Seq(S)
  BY SeqDef
<1>2. DOMAIN f = 1 .. n /\ DOMAIN f = 1 .. Len(f) /\ Len(f) \in Nat
  BY <1>1, LenProperties
<1>. QED
  BY <1>1, <1>2, SMT

\* What Overwrite() returns; without a gap there is no hole.
LEMMA OverwriteProperties ==
    ASSUME NEW d \in Seq(Bytes), NEW p \in Nat, NEW w \in Seq(Bytes)
    PROVE  /\ Overwrite(d, p, w) \in Seq(Bytes)
           /\ p <= Len(d) =>
                 /\ Len(Overwrite(d, p, w)) = IF p + Len(w) > Len(d) THEN p + Len(w) ELSE Len(d)
                 /\ \A i \in 1 .. Len(Overwrite(d, p, w)) :
                       Overwrite(d, p, w)[i] = IF i > p /\ i <= p + Len(w) THEN w[i - p] ELSE d[i]
<1>1. Len(d) \in Nat /\ Len(w) \in Nat
  BY LenProperties
<1>2. CASE w = <<>>
  BY <1>1, <1>2, EmptySeq, SMT DEF Overwrite
<1>3. CASE w # <<>>
  <2>. DEFINE len == IF p + Len(w) > Len(d) THEN p + Len(w) ELSE Len(d)
              f == [i \in 1 .. len |-> IF i > p /\ i <= p + Len(w) THEN w[i - p]
                                       ELSE IF i <= Len(d) THEN d[i] ELSE Hole]
  <2>1. len \in Nat
    BY <1>1, SMT
  <2>2. ASSUME NEW i \in 1 .. len PROVE f[i] \in Bytes
    <3>1. Hole \in Bytes
      BY ConstantsAssumption, SMT DEF Bytes, Hole, Foreign
    <3>2. i > p /\ i <= p + Len(w) => w[i - p] \in Bytes
      <4>1. i > p /\ i <= p + Len(w) => i - p \in 1 .. Len(w)
        BY <1>1, <2>1, SMT
      <4>. QED
        BY <4>1, ElementOfSeq
    <3>3. i <= Len(d) => d[i] \in Bytes
      <4>1. i <= Len(d) => i \in 1 .. Len(d)
        BY <1>1, <2>1, SMT
      <4>. QED
        BY <4>1, ElementOfSeq
    <3>. QED
      BY <2>2, <3>1, <3>2, <3>3
  <2>3. f \in [1 .. len -> Bytes]
    BY <2>2
  <2>4. f \in Seq(Bytes) /\ Len(f) = len
    <3>. HIDE DEF f, len
    <3>. QED
      BY <2>1, <2>3, FunctionIsSeq
  <2>5. Overwrite(d, p, w) = f
    BY <1>3 DEF Overwrite
  <2>6. p <= Len(d) => \A i \in 1 .. len : f[i] = IF i > p /\ i <= p + Len(w) THEN w[i - p] ELSE d[i]
    BY <1>1, <2>1, SMT
  <2>. HIDE DEF f
  <2>. QED
    BY <2>4, <2>5, <2>6
<1>. QED
  BY <1>2, <1>3

\* What Resized() returns.
LEMMA ResizedProperties ==
    ASSUME NEW d \in Seq(Bytes), NEW n \in Nat
    PROVE  /\ Resized(d, n) \in Seq(Bytes) /\ Len(Resized(d, n)) = n
           /\ \A i \in 1 .. n : Resized(d, n)[i] = IF i <= Len(d) THEN d[i] ELSE Hole
<1>1. Len(d) \in Nat
  BY LenProperties
<1>2. ASSUME NEW i \in 1 .. n PROVE Resized(d, n)[i] \in Bytes
  <2>1. Hole \in Bytes
    BY ConstantsAssumption, SMT DEF Bytes, Hole, Foreign
  <2>2. i <= Len(d) => d[i] \in Bytes
    <3>1. i <= Len(d) => i \in 1 .. Len(d)
      BY <1>1, SMT
    <3>. QED
      BY <3>1, ElementOfSeq
  <2>. QED
    BY <1>2, <2>1, <2>2 DEF Resized
<1>3. Resized(d, n) \in [1 .. n -> Bytes]
  BY <1>2 DEF Resized
<1>4. Resized(d, n) \in Seq(Bytes) /\ Len(Resized(d, n)) = n
  BY <1>3, FunctionIsSeq
<1>. QED
  BY <1>4 DEF Resized

\* The part of a sequence from m to n.
LEMMA PartProperties ==
    ASSUME NEW S, NEW s \in Seq(S), NEW m \in Nat \ {0}, NEW n \in Int, n <= Len(s)
    PROVE  /\ SubSeq(s, m, n) \in Seq(S)
           /\ Len(SubSeq(s, m, n)) = IF m <= n THEN n - m + 1 ELSE 0
           /\ \A i \in 1 .. Len(SubSeq(s, m, n)) : SubSeq(s, m, n)[i] = s[m + i - 1]
<1>1. Len(s) \in Nat
  BY LenProperties
<1>2. ASSUME NEW i \in m .. n PROVE s[i] \in S
  <2>1. i \in 1 .. Len(s)
    BY <1>1, SMT
  <2>. QED
    BY <2>1, ElementOfSeq
<1>3. m \in Int
  OBVIOUS
<1>4. /\ SubSeq(s, m, n) \in Seq(S)
      /\ Len(SubSeq(s, m, n)) = IF m <= n THEN n - m + 1 ELSE 0
      /\ \A i \in 1 .. n - m + 1 : SubSeq(s, m, n)[i] = s[m + i - 1]
  BY <1>2, <1>3, SubSeqProperties
<1>. QED
  BY <1>4, SMT

-------------------------------------------------------------------------------
(* Replies.                                                                *)

LEMMA ByteOfType ==
    ASSUME NEW kind, NEW i \in Nat \ {0}, kind = "full" => i <= Size
    PROVE  ByteOf(kind, i) \in Bytes
BY ConstantsAssumption, SMT DEF ByteOf, Bytes, Foreign, Stale, Page

LEMMA LengthOfType == \A kind : LengthOf(kind) \in Nat
BY ConstantsAssumption DEF LengthOf

\* The i-th byte of the part of n bytes that begins after o.
LEMMA PartIndex ==
    ASSUME NEW o \in Nat, NEW n \in Nat, NEW l,
           l = IF o + 1 <= n THEN n - (o + 1) + 1 ELSE 0, NEW i \in 1 .. l
    PROVE  o + 1 + i - 1 = o + i /\ o + i \in 1 .. n
<1>1. CASE o + 1 <= n
  BY <1>1, SMT
<1>2. CASE ~(o + 1 <= n)
  BY <1>2, SMT
<1>. QED
  BY <1>1, <1>2

\* The part of a file of n bytes that a server sends for a request from o.
LEMMA PartSends ==
    ASSUME NEW o \in Nat, NEW kind \in {"full", "stale"}, NEW f \in Seq(Bytes),
           Len(f) = LengthOf(kind), \A i \in 1 .. Len(f) : f[i] = ByteOf(kind, i)
    PROVE  Sends([kind |-> kind, bytes |-> SubSeq(f, o + 1, Len(f)),
                  ending |-> IF o > 0 /\ o >= Len(f) THEN "bad_status" ELSE "ok"], o, o)
<1>. DEFINE b == SubSeq(f, o + 1, Len(f))
            e == IF o > 0 /\ o >= Len(f) THEN "bad_status" ELSE "ok"
<1>1. Len(f) \in Nat \ {0}
  BY ConstantsAssumption DEF LengthOf
<1>2. o + 1 \in Nat \ {0} /\ Len(f) \in Int /\ Len(f) <= Len(f)
  BY <1>1, SMT
<1>3. /\ b \in Seq(Bytes) /\ Len(b) = IF o + 1 <= Len(f) THEN Len(f) - (o + 1) + 1 ELSE 0
      /\ \A i \in 1 .. Len(b) : b[i] = f[o + 1 + i - 1]
  BY <1>2, PartProperties
<1>4. DOMAIN b = 1 .. Len(b)
  BY <1>3, LenProperties
<1>. HIDE DEF b
<1>5. Len(b) = IF o < LengthOf(kind) THEN LengthOf(kind) - o ELSE 0
  BY <1>1, <1>3, SMT
<1>6. ASSUME NEW i \in DOMAIN b PROVE b[i] = ByteOf(kind, o + i)
  <2>1. Len(f) \in Nat /\ i \in 1 .. Len(b)
    BY <1>1, <1>4
  <2>2. o + 1 + i - 1 = o + i /\ o + i \in 1 .. Len(f)
    BY <1>3, <2>1, PartIndex
  <2>. QED
    BY <1>3, <1>4, <2>2
<1>7. e \in Endings /\ (e = "ok" <=> o < LengthOf(kind))
  BY <1>1, SMT DEF Endings
<1>. HIDE DEF e
<1>. DEFINE r == [kind |-> kind, bytes |-> b, ending |-> e]
<1>8. r \in Reply /\ r.kind = kind /\ r.bytes = b /\ r.ending = e
  BY <1>3, <1>7 DEF Reply
<1>. HIDE DEF r
<1>9. Sends(r, o, o)
  BY <1>5, <1>6, <1>7, <1>8 DEF Sends
<1>. QED
  BY <1>9, Zenon DEF r, b, e

\* What a server may send for a request from o is one of those.
LEMMA RepliesSend ==
    ASSUME NEW o \in Nat, NEW r \in Replies(o)
    PROVE  Sends(r, o, o)
<1>. DEFINE stale == [i \in 1 .. StaleSize |-> Stale]
            page == [i \in 1 .. PageSize |-> Page]
<1>1. Whole \in Seq(Bytes) /\ Len(Whole) = Size /\ \A i \in 1 .. Size : Whole[i] = i
  <2>1. Whole \in [1 .. Size -> Bytes]
    BY ConstantsAssumption, SMT DEF Whole, Bytes, Foreign
  <2>2. Size \in Nat
    BY ConstantsAssumption
  <2>. QED
    BY <2>1, <2>2, FunctionIsSeq DEF Whole
<1>2. stale \in Seq(Bytes) /\ Len(stale) = StaleSize
  <2>1. Stale \in Bytes /\ StaleSize \in Nat
    BY ConstantsAssumption, SMT DEF Bytes, Stale, Foreign
  <2>2. stale \in [1 .. StaleSize -> Bytes]
    BY <2>1
  <2>. HIDE DEF stale
  <2>. QED
    BY <2>1, <2>2, FunctionIsSeq
<1>3. page \in Seq(Bytes) /\ Len(page) = PageSize
  <2>1. Page \in Bytes /\ PageSize \in Nat
    BY ConstantsAssumption, SMT DEF Bytes, Page, Foreign
  <2>2. page \in [1 .. PageSize -> Bytes]
    BY <2>1
  <2>. HIDE DEF page
  <2>. QED
    BY <2>1, <2>2, FunctionIsSeq
<1>4. CASE r = [kind |-> "full", bytes |-> SubSeq(Whole, o + 1, Len(Whole)),
                ending |-> IF o > 0 /\ o >= Len(Whole) THEN "bad_status" ELSE "ok"]
  <2>1. \A i \in 1 .. Len(Whole) : Whole[i] = ByteOf("full", i)
    BY <1>1 DEF ByteOf
  <2>2. Len(Whole) = LengthOf("full")
    BY <1>1 DEF LengthOf
  <2>. QED
    BY <1>1, <1>4, <2>1, <2>2, PartSends
<1>5. CASE r = [kind |-> "stale", bytes |-> SubSeq(stale, o + 1, Len(stale)),
                ending |-> IF o > 0 /\ o >= Len(stale) THEN "bad_status" ELSE "ok"]
  <2>1. \A i \in 1 .. Len(stale) : stale[i] = ByteOf("stale", i)
    BY <1>2 DEF ByteOf
  <2>2. Len(stale) = LengthOf("stale")
    BY <1>2 DEF LengthOf
  <2>. HIDE DEF stale
  <2>. QED
    BY <1>2, <1>5, <2>1, <2>2, PartSends
<1>6. CASE r = [kind |-> "inconsistent", bytes |-> <<>>, ending |-> "interrupted"]
           \/ r = [kind |-> "refused", bytes |-> <<>>, ending |-> "range_error"]
  <2>1. LengthOf(r.kind) = 0
    BY <1>6 DEF LengthOf
  <2>2. <<>> \in Seq(Bytes) /\ Len(<<>>) = 0
    BY EmptySeq
  <2>3. r \in Reply /\ r.kind \notin {"none", "full", "stale", "page"} /\ r.ending # "ok"
    <3>1. CASE r = [kind |-> "inconsistent", bytes |-> <<>>, ending |-> "interrupted"]
      BY <2>2, <3>1 DEF Reply, Endings
    <3>2. CASE r = [kind |-> "refused", bytes |-> <<>>, ending |-> "range_error"]
      BY <2>2, <3>2 DEF Reply, Endings
    <3>. QED
      BY <1>6, <3>1, <3>2
  <2>4. Len(r.bytes) = IF o < LengthOf(r.kind) THEN LengthOf(r.kind) - o ELSE 0
    BY <1>6, <2>1, <2>2, SMT
  <2>5. DOMAIN r.bytes = {}
    BY <1>6, SMT
  <2>. QED
    BY <2>3, <2>4, <2>5 DEF Sends
<1>7. CASE o = 0 /\ r = [kind |-> "page", bytes |-> page, ending |-> "bad_status"]
  <2>1. \A i \in DOMAIN page : page[i] = ByteOf("page", i)
    BY DEF ByteOf
  <2>2. DOMAIN page = 1 .. PageSize /\ PageSize \in Nat \ {0} /\ LengthOf("page") = PageSize
    BY ConstantsAssumption DEF LengthOf
  <2>. HIDE DEF page
  <2>3. \A i \in DOMAIN page : page[i] = ByteOf("page", o + i)
    BY <1>7, <2>1, <2>2, SMT
  <2>4. Len(page) = IF o < LengthOf("page") THEN LengthOf("page") - o ELSE 0
    BY <1>3, <1>7, <2>2, SMT
  <2>. QED
    BY <1>3, <1>7, <2>3, <2>4 DEF Sends, Reply, Endings
<1>8. o > 0 \/ o = 0
  BY SMT
<1>. QED
  BY <1>4, <1>5, <1>6, <1>7, <1>8, Zenon DEF Replies

\* A block of k bytes is taken off a reply.
LEMMA BlockSends ==
    ASSUME NEW o \in Nat, NEW p \in Nat, NEW r, Sends(r, o, p),
           NEW k \in Nat \ {0}, k <= Len(r.bytes)
    PROVE  LET b == SubSeq(r.bytes, 1, k) IN
           /\ b \in Seq(Bytes) /\ Len(b) = k
           /\ \A i \in 1 .. k : b[i] = ByteOf(r.kind, p + i)
           /\ p + k <= LengthOf(r.kind)
           /\ Sends([r EXCEPT !.bytes = SubSeq(@, k + 1, Len(@))], o, p + k)
<1>. DEFINE b == SubSeq(r.bytes, 1, k)
            c == SubSeq(r.bytes, k + 1, Len(r.bytes))
            q == [r EXCEPT !.bytes = SubSeq(@, k + 1, Len(@))]
<1>1. /\ r \in Reply /\ r.bytes \in Seq(Bytes)
      /\ Len(r.bytes) = IF p < LengthOf(r.kind) THEN LengthOf(r.kind) - p ELSE 0
      /\ \A i \in DOMAIN r.bytes : r.bytes[i] = ByteOf(r.kind, p + i)
  BY DEF Sends, Reply
<1>2. Len(r.bytes) \in Nat /\ DOMAIN r.bytes = 1 .. Len(r.bytes)
  BY <1>1, LenProperties
<1>3. LengthOf(r.kind) \in Nat
  BY LengthOfType
<1>4. b \in Seq(Bytes) /\ Len(b) = k /\ \A i \in 1 .. k : b[i] = r.bytes[i]
  <2>1. 1 \in Nat \ {0} /\ k \in Int /\ 1 <= k /\ k - 1 + 1 = k
    BY SMT
  <2>2. b \in Seq(Bytes) /\ Len(b) = k /\ \A i \in 1 .. Len(b) : b[i] = r.bytes[1 + i - 1]
    BY <1>1, <2>1, PartProperties
  <2>3. \A i \in 1 .. k : 1 + i - 1 = i
    BY SMT
  <2>. HIDE DEF b
  <2>. QED
    BY <2>2, <2>3
<1>5. /\ c \in Seq(Bytes) /\ Len(c) = Len(r.bytes) - k
      /\ \A i \in 1 .. Len(c) : c[i] = r.bytes[k + i]
  <2>1. k + 1 \in Nat \ {0} /\ Len(r.bytes) \in Int /\ Len(r.bytes) <= Len(r.bytes)
    BY <1>2, SMT
  <2>2. /\ c \in Seq(Bytes)
        /\ Len(c) = IF k + 1 <= Len(r.bytes) THEN Len(r.bytes) - (k + 1) + 1 ELSE 0
        /\ \A i \in 1 .. Len(c) : c[i] = r.bytes[k + 1 + i - 1]
    BY <1>1, <2>1, PartProperties, SMTT(30)
  <2>. HIDE DEF c
  <2>3. Len(c) = Len(r.bytes) - k
    BY <1>2, <2>2, SMT
  <2>4. \A i \in 1 .. Len(c) : k + 1 + i - 1 = k + i
    BY SMT
  <2>. QED
    BY <2>2, <2>3, <2>4
<1>. HIDE DEF b, c
<1>6. \A i \in 1 .. k : b[i] = ByteOf(r.kind, p + i)
  <2>1. \A i \in 1 .. k : i \in DOMAIN r.bytes
    BY <1>2, SMT
  <2>. QED
    BY <1>1, <1>4, <2>1
<1>7. p + k <= LengthOf(r.kind) /\ Len(c) = LengthOf(r.kind) - (p + k)
  BY <1>1, <1>2, <1>3, <1>5, SMT
<1>8. Sends(q, o, p + k)
  <2>1. q = [r EXCEPT !.bytes = c] /\ q \in Reply /\ q.kind = r.kind /\ q.bytes = c /\ q.ending = r.ending
    BY <1>1, <1>5 DEF Reply, c
  <2>2. DOMAIN c = 1 .. Len(c)
    BY <1>5, LenProperties
  <2>3. ASSUME NEW i \in DOMAIN c PROVE c[i] = ByteOf(r.kind, p + k + i)
    <3>1. k + i \in DOMAIN r.bytes /\ p + (k + i) = p + k + i
      BY <1>2, <1>5, <2>2, SMT
    <3>. QED
      BY <1>1, <1>5, <2>2, <3>1
  <2>4. Len(c) = IF p + k < LengthOf(r.kind) THEN LengthOf(r.kind) - (p + k) ELSE 0
    BY <1>3, <1>7, SMT
  <2>. HIDE DEF q
  <2>. QED
    BY <2>1, <2>3, <2>4 DEF Sends
<1>. QED
  BY <1>4, <1>6, <1>7, <1>8 DEF b

-------------------------------------------------------------------------------
(* lr_writecb().                                                           *)

LEMMA RangeBaseType == TypeOK => RangeBase \in Nat
<1>1. TypeOK => request.start \in Nat
  BY ConstantsAssumption DEF TypeOK
<1>. QED
  BY <1>1, SMT DEF TypeOK, RangeBase

\* What is written of a block is a sequence of bytes.
LEMMA InRangeType ==
    ASSUME TypeOK, NEW b \in Seq(Bytes)
    PROVE  InRange(b) \in Seq(Bytes)
<1>. DEFINE first == RangeBase + received
            last == first + Len(b)
            skip == IF first >= request.start THEN 0 ELSE request.start - first
            rest == IF request.end # 0 /\ last > request.end THEN last - request.end - 1 ELSE 0
<1>1. RangeBase \in Nat /\ received \in Nat
  BY RangeBaseType DEF TypeOK
<1>2. request.start \in Nat /\ request.end \in Nat
  BY ConstantsAssumption DEF TypeOK
<1>3. Len(b) \in Nat
  BY LenProperties
<1>4. skip + 1 \in Nat \ {0} /\ Len(b) - rest \in Int /\ Len(b) - rest <= Len(b)
  BY <1>1, <1>2, <1>3, SMT
<1>5. SubSeq(b, skip + 1, Len(b) - rest) \in Seq(Bytes)
  BY <1>4, PartProperties
<1>6. InRange(b) \in {b, <<>>, SubSeq(b, skip + 1, Len(b) - rest)}
  BY DEF InRange
<1>. QED
  BY <1>5, <1>6, EmptySeq

\* A file that is not resumed gets the start of a block that is not past the range.
LEMMA InRangeProperties ==
    ASSUME TypeOK, original_offset = -1, NEW b \in Seq(Bytes),
           request.end # 0 => request.end > request.start
    PROVE  /\ Len(InRange(b)) =
                  IF request.end # 0 /\ request.start + received > request.end THEN 0
                  ELSE IF request.end # 0 /\ request.start + received + Len(b) > request.end
                  THEN request.end + 1 - (request.start + received) ELSE Len(b)
           /\ \A i \in 1 .. Len(InRange(b)) : InRange(b)[i] = b[i]
<1>. DEFINE first == RangeBase + received
            last == first + Len(b)
            skip == IF first >= request.start THEN 0 ELSE request.start - first
            rest == IF request.end # 0 /\ last > request.end THEN last - request.end - 1 ELSE 0
<1>1. received \in Nat
  BY DEF TypeOK
<1>2. request.start \in Nat /\ request.end \in Nat
  BY ConstantsAssumption DEF TypeOK
<1>3. Len(b) \in Nat
  BY LenProperties
<1>4. RangeBase = request.start
  BY <1>2, SMT DEF RangeBase
<1>5. CASE request.start = 0 /\ request.end = 0
  BY <1>5 DEF InRange
<1>6. CASE PastRange(b)
  <2>1. InRange(b) = <<>>
    BY <1>2, <1>6 DEF InRange, PastRange
  <2>2. Len(<<>>) = 0
    BY EmptySeq
  <2>. QED
    BY <1>4, <1>6, <2>1, <2>2, SMT DEF PastRange
<1>7. CASE ~PastRange(b) /\ ~(request.start = 0 /\ request.end = 0)
  <2>1. first >= request.start /\ ~(last < request.start) /\ skip = 0
    BY <1>1, <1>2, <1>3, <1>4, SMT
  <2>2. InRange(b) = SubSeq(b, skip + 1, Len(b) - rest)
    BY <1>7, <2>1 DEF InRange
  <2>3. skip + 1 = 1 /\ 1 \in Nat \ {0}
    BY <2>1
  <2>4. Len(b) - rest \in Int /\ Len(b) - rest <= Len(b) /\ Len(b) - rest >= 0
    BY <1>1, <1>2, <1>3, <1>4, <1>7, SMT DEF PastRange
  <2>5. /\ Len(InRange(b)) = IF 1 <= Len(b) - rest THEN Len(b) - rest - 1 + 1 ELSE 0
        /\ \A i \in 1 .. Len(InRange(b)) : InRange(b)[i] = b[1 + i - 1]
    BY <2>2, <2>3, <2>4, PartProperties
  <2>6. Len(InRange(b)) = Len(b) - rest
    BY <2>4, <2>5, SMT
  <2>7. \A i \in 1 .. Len(InRange(b)) : 1 + i - 1 = i
    BY SMT
  <2>8. \A i \in 1 .. Len(InRange(b)) : InRange(b)[i] = b[i]
    BY <2>5, <2>7
  <2>. QED
    BY <1>1, <1>2, <1>3, <1>4, <1>7, <2>6, <2>8, SMT DEF PastRange
<1>. QED
  BY <1>5, <1>6, <1>7

-------------------------------------------------------------------------------
(* The types.                                                              *)

LEMMA InitType == Init => TypeOK
<1>. SUFFICES ASSUME Init PROVE TypeOK
  OBVIOUS
<1>1. PICK c \in Cases : request = c.request /\ disk = c.file
  BY DEF Init
<1>2. disk \in File /\ request \in {d.request : d \in Cases}
  BY <1>1, ConstantsAssumption DEF File
<1>3. NoReply \in Reply
  BY EmptySeq DEF NoReply, Reply, Endings
<1>4. /\ pos = 0 /\ resume = FALSE /\ original_offset = -1 /\ resume_count = 0 /\ from = 0
      /\ received = 0 /\ range_written = FALSE /\ reply = NoReply /\ state = "none"
      /\ tries = 0 /\ calls = 0
  BY DEF Init
<1>5. 0 \in 0 .. MaxResumes /\ 0 \in 0 .. MaxTries /\ 0 \in 0 .. MaxCalls
  BY ConstantsAssumption, SMT DEF MaxResumes
<1>. QED
  BY <1>2, <1>3, <1>4, <1>5 DEF TypeOK

LEMMA RequestType ==
    TypeOK => /\ request.byname \in BOOLEAN /\ request.resume \in BOOLEAN
              /\ request.start \in Nat /\ request.end \in Nat
              /\ request.start > 0 => ~request.resume
BY ConstantsAssumption DEF TypeOK

LEMMA DiskType ==
    ASSUME NEW d \in File
    PROVE  /\ d.exists \in BOOLEAN /\ d.mark \in BOOLEAN /\ d.data \in Seq(Bytes)
           /\ Len(d.data) \in Nat /\ DOMAIN d.data = 1 .. Len(d.data)
<1>1. d.exists \in BOOLEAN /\ d.mark \in BOOLEAN /\ d.data \in Seq(Bytes)
  BY DEF File
<1>. QED
  BY <1>1, LenProperties

LEMMA CallType == TypeOK /\ Call => TypeOK'
<1>. SUFFICES ASSUME TypeOK, Call PROVE TypeOK'
  OBVIOUS
<1>1. disk' \in File
  BY EmptySeq DEF Call, TypeOK, File
<1>2. /\ request' = request /\ pos' = 0 /\ resume' = request.resume /\ original_offset' = -1
      /\ resume_count' = 0 /\ state' = "WAITING" /\ tries' = 0 /\ calls' = calls + 1
      /\ calls < MaxCalls /\ UNCHANGED transferVars
  BY DEF Call
<1>3. MaxTries \in Nat /\ MaxCalls \in Nat
  BY ConstantsAssumption
<1>4. request.resume \in BOOLEAN
  BY RequestType
<1>. QED
  BY <1>1, <1>2, <1>3, <1>4, SMT DEF TypeOK, transferVars, MaxResumes

\* The offset and the file an attempt starts with.
LEMMA OpenedType == TypeOK => Opened \in Seq(Bytes) /\ Len(Opened) \in Nat
<1>1. TypeOK => Opened \in Seq(Bytes)
  BY EmptySeq, DiskType DEF TypeOK, Opened
<1>. QED
  BY <1>1, LenProperties

LEMMA OpenType == TypeOK /\ Open => TypeOK'
<1>. SUFFICES ASSUME TypeOK, Open PROVE TypeOK'
  OBVIOUS
<1>. DEFINE offset == IF Resumes /\ original_offset = -1 THEN Len(Opened) ELSE original_offset
            foreign == Resumes /\ ForeignFile(offset)
            start == IF Resumes /\ ~foreign THEN offset ELSE request.start
<1>1. /\ resume' = (Resumes /\ ~foreign)
      /\ resume_count' = IF Resumes /\ offset > 0 THEN resume_count + 1 ELSE resume_count
      /\ original_offset' = IF foreign THEN 0 ELSE offset
      /\ pos' = Position(Len(Opened))
      /\ disk' = [exists |-> TRUE, mark |-> TRUE, data |-> IF foreign THEN <<>> ELSE Opened]
      /\ from' = start /\ reply' \in Replies(start)
      /\ received' = 0 /\ range_written' = FALSE /\ state' = "RUNNING"
      /\ tries' = tries + 1 /\ tries < MaxTries /\ request' = request /\ calls' = calls
  BY DEF Open
<1>2. Opened \in Seq(Bytes) /\ Len(Opened) \in Nat
  BY OpenedType
<1>3. /\ original_offset \in Nat \cup {-1} /\ resume_count \in 0 .. MaxResumes /\ pos \in Nat
      /\ tries \in 0 .. MaxTries
  BY DEF TypeOK
<1>4. Resumes => resume_count < MaxResumes
  BY DEF Resumes
<1>5. request.start \in Nat
  BY RequestType
<1>6. Resumes => offset \in Nat
  BY <1>2, <1>3, SMT
<1>7. offset \in Nat \cup {-1} /\ start \in Nat
  BY <1>2, <1>3, <1>5, <1>6
<1>8. pos' \in Nat
  BY <1>1, <1>2, <1>3, SMT DEF Position
<1>9. disk' \in File
  BY <1>1, <1>2, EmptySeq DEF File
<1>10. reply' \in Reply
  BY <1>1, <1>7, RepliesSend DEF Sends
<1>11. resume_count' \in 0 .. MaxResumes /\ tries' \in 0 .. MaxTries
  <2>1. MaxTries \in Nat
    BY ConstantsAssumption
  <2>2. tries' \in 0 .. MaxTries
    BY <1>1, <1>3, <2>1, SMT
  <2>3. resume_count' \in 0 .. MaxResumes
    BY <1>1, <1>3, <1>4, SMT DEF MaxResumes
  <2>. QED
    BY <2>2, <2>3
<1>12. resume' \in BOOLEAN
  BY <1>1
<1>. HIDE DEF offset, foreign, start
<1>13. original_offset' \in Nat \cup {-1} /\ from' \in Nat
  BY <1>1, <1>7
<1>. QED
  BY <1>1, <1>8, <1>9, <1>10, <1>11, <1>12, <1>13, Zenon DEF TypeOK

LEMMA WriteType ==
    ASSUME TypeOK, NEW k \in 1 .. Size + StaleSize + PageSize, Write(k)
    PROVE  TypeOK'
<1>. DEFINE b == SubSeq(reply.bytes, 1, k)
            w == InRange(b)
<1>1. k \in Nat \ {0} /\ k - 1 + 1 = k
  BY ConstantsAssumption, SMT
<1>2. /\ disk' = [disk EXCEPT !.data = Overwrite(@, pos, w)] /\ pos' = pos + Len(w)
      /\ range_written' = PastRange(b) /\ received' = received + k
      /\ reply' = [reply EXCEPT !.bytes = SubSeq(@, k + 1, Len(@))]
      /\ k <= Len(reply.bytes)
      /\ UNCHANGED <<request, targetVars, from, state, tries, calls>>
  BY DEF Write
<1>3. reply.bytes \in Seq(Bytes) /\ Len(reply.bytes) \in Nat
  <2>1. reply.bytes \in Seq(Bytes)
    BY DEF TypeOK, Reply
  <2>. QED
    BY <2>1, LenProperties
<1>4. b \in Seq(Bytes)
  <2>1. 1 \in Nat \ {0} /\ k \in Int
    BY <1>1
  <2>. QED
    BY <1>2, <1>3, <2>1, PartProperties
<1>5. w \in Seq(Bytes) /\ Len(w) \in Nat
  <2>1. w \in Seq(Bytes)
    BY <1>4, InRangeType
  <2>. QED
    BY <2>1, LenProperties
<1>6. SubSeq(reply.bytes, k + 1, Len(reply.bytes)) \in Seq(Bytes)
  <2>1. k + 1 \in Nat \ {0} /\ Len(reply.bytes) \in Int /\ Len(reply.bytes) <= Len(reply.bytes)
    BY <1>1, <1>3, SMT
  <2>. QED
    BY <1>3, <2>1, PartProperties
<1>7. reply' \in Reply
  BY <1>2, <1>6 DEF TypeOK, Reply
<1>8. disk.data \in Seq(Bytes) /\ pos \in Nat
  BY DEF TypeOK, File
<1>9. Overwrite(disk.data, pos, w) \in Seq(Bytes)
  BY <1>5, <1>8, OverwriteProperties
<1>10. disk' \in File
  BY <1>2, <1>9 DEF TypeOK, File
<1>11. pos' \in Nat /\ received' \in Nat
  BY <1>1, <1>2, <1>5, <1>8, SMTT(30) DEF TypeOK
<1>12. range_written' \in BOOLEAN
  BY <1>2 DEF PastRange
<1>. QED
  BY <1>2, <1>7, <1>10, <1>11, <1>12 DEF TypeOK, targetVars

LEMMA RetryType ==
    ASSUME TypeOK, NEW e \in Errors, Retry(e)
    PROVE  TypeOK'
<1>. DEFINE n == IF original_offset > -1 THEN original_offset ELSE 0
<1>1. n \in Nat
  BY SMT DEF TypeOK
<1>2. Resized(disk.data, n) \in Seq(Bytes)
  <2>1. disk.data \in Seq(Bytes)
    BY DEF TypeOK, File
  <2>. HIDE DEF n
  <2>. QED
    BY <1>1, <2>1, ResizedProperties
<1>3. /\ state' = "WAITING" /\ UNCHANGED <<request, resume, resume_count, transferVars, tries, calls>>
      /\ \/ original_offset' = -1 /\ disk' = disk /\ pos' = pos
         \/ /\ original_offset' = original_offset
            /\ disk' = [disk EXCEPT !.data = Resized(disk.data, n)]
            /\ pos' \in {pos, n}
  BY DEF Retry
<1>. HIDE DEF n
<1>4. disk' \in File /\ pos' \in Nat /\ original_offset' \in Nat \cup {-1}
  BY <1>1, <1>2, <1>3 DEF TypeOK, File
<1>. QED
  BY <1>3, <1>4 DEF TypeOK, transferVars

LEMMA RestType == TypeOK /\ (Finish \/ Return \/ Crash \/ \E e \in Errors : Fail(e)) => TypeOK'
<1>. SUFFICES ASSUME TypeOK, Finish \/ Return \/ Crash \/ \E e \in Errors : Fail(e)
              PROVE  TypeOK'
  OBVIOUS
<1>1. disk' \in {disk, NoFile, [disk EXCEPT !.mark = FALSE]}
  BY DEF Finish, Return, Crash, Fail
<1>2. disk' \in File
  <2>1. NoFile \in File
    BY EmptySeq DEF File, NoFile
  <2>2. disk \in File /\ [disk EXCEPT !.mark = FALSE] \in File
    BY DEF TypeOK, File
  <2>. QED
    BY <1>1, <2>1, <2>2
<1>3. /\ state' \in {"none", "FINISHED", "FAILED"}
      /\ UNCHANGED <<request, pos, targetVars, transferVars, tries, calls>>
  BY DEF Finish, Return, Crash, Fail
<1>. QED
  BY <1>2, <1>3 DEF TypeOK, targetVars, transferVars

\* A step keeps the types.
LEMMA StepType == TypeOK /\ [Next]_vars => TypeOK'
<1>. SUFFICES ASSUME TypeOK, [Next]_vars PROVE TypeOK'
  OBVIOUS
<1>1. CASE UNCHANGED vars
  BY <1>1 DEF TypeOK, vars, targetVars, transferVars
<1>2. CASE Over
  BY <1>2 DEF Over, TypeOK, vars, targetVars, transferVars
<1>. QED
  BY <1>1, <1>2, CallType, OpenType, WriteType, RetryType, RestType DEF Next

\* TypeOK holds in every state: the variables keep their types, whatever the files, the
\* requests and the servers are.
THEOREM Typing == Spec => []TypeOK
BY InitType, StepType, PTL DEF Spec

-------------------------------------------------------------------------------
(* Every step keeps the invariant.                                         *)

\* The cases are usual, so the request of a target is.
LEMMA UsualRequest ==
    Usual /\ TypeOK =>
        /\ request.resume => ~CutDirty /\ request.byname /\ request.start = 0 /\ request.end = 0
        /\ request.end # 0 => request.end > request.start /\ PageSize <= request.end + 1
<1>1. TypeOK => request.start \in Nat /\ (request.start > 0 => ~request.resume)
  BY RequestType
<1>2. TypeOK /\ request.resume => request.start = 0
  BY <1>1, SMT
<1>3. TypeOK => \E c \in Cases : request = c.request
  BY DEF TypeOK
<1>. QED
  BY <1>2, <1>3 DEF Usual, UsualCase

LEMMA InitInv == Usual /\ Init => FInv
<1>. SUFFICES ASSUME Usual, Init PROVE FInv
  OBVIOUS
<1>1. PICK c \in Cases : request = c.request /\ disk = c.file
  BY DEF Init
<1>2. UsualCase(c)
  BY DEF Usual
<1>3. /\ resume = FALSE /\ original_offset = -1 /\ state = "none"
  BY DEF Init
<1>4. Replied /\ Offsets /\ Fresh
  BY <1>3 DEF Replied, Offsets, Fresh, Attempted
<1>5. Resumed
  BY <1>1, <1>2, <1>3 DEF Resumed, Attempted, UsualCase
<1>. QED
  BY <1>4, <1>5 DEF FInv

LEMMA CallInv == Usual /\ TypeOK /\ FInv /\ Call => FInv'
<1>. SUFFICES ASSUME Usual, TypeOK, FInv, Call PROVE FInv'
  OBVIOUS
<1>1. /\ state = "none" /\ state' = "WAITING" /\ resume' = request.resume /\ original_offset' = -1
      /\ (request.resume /\ calls > 0 => disk.mark \/ ~disk.exists)
      /\ pos' = 0 /\ calls' = calls + 1 /\ request' = request
      /\ disk' = IF request.byname THEN disk ELSE [disk EXCEPT !.data = <<>>]
  BY DEF Call
<1>2. Replied'
  BY <1>1 DEF Replied, Attempted
<1>3. Offsets'
  <2>1. calls' > 0 /\ ~(original_offset' > 0)
    BY <1>1, SMT DEF TypeOK
  <2>. QED
    BY <1>1, <2>1 DEF Offsets, Attempted
<1>4. Fresh'
  BY <1>1 DEF Fresh, Attempted, TypeOK, File
<1>5. Resumed'
  <2>1. SUFFICES ASSUME request.resume PROVE Resumed'
    BY <1>1 DEF Resumed
  <2>2. disk' = disk
    BY <1>1, <2>1, UsualRequest
  <2>3. \A i \in DOMAIN disk.data : disk.data[i] \in {i, Stale}
    BY <1>1, <2>1 DEF FInv, Resumed, Clean
  <2>4. calls = 0 \/ calls > 0
    BY SMT DEF TypeOK
  <2>5. disk.data = <<>> \/ disk.mark
    BY <1>1, <2>1, <2>4 DEF FInv, Resumed
  <2>. QED
    BY <1>1, <2>2, <2>3, <2>5 DEF Resumed, Attempted
<1>. QED
  BY <1>2, <1>3, <1>4, <1>5 DEF FInv

LEMMA OpenInv == Usual /\ TypeOK /\ FInv /\ Open => FInv'
<1>. SUFFICES ASSUME Usual, TypeOK, FInv, Open PROVE FInv'
  OBVIOUS
<1>. DEFINE offset == IF Resumes /\ original_offset = -1 THEN Len(Opened) ELSE original_offset
            foreign == Resumes /\ ForeignFile(offset)
            start == IF Resumes /\ ~foreign THEN offset ELSE request.start
<1>1. /\ resume' = (Resumes /\ ~foreign)
      /\ resume_count' = IF Resumes /\ offset > 0 THEN resume_count + 1 ELSE resume_count
      /\ original_offset' = IF foreign THEN 0 ELSE offset
      /\ pos' = Position(Len(Opened))
      /\ disk' = [exists |-> TRUE, mark |-> TRUE, data |-> IF foreign THEN <<>> ELSE Opened]
      /\ from' = start /\ reply' \in Replies(start)
      /\ received' = 0 /\ range_written' = FALSE
      /\ state = "WAITING" /\ state' = "RUNNING" /\ request' = request /\ calls' = calls
  BY DEF Open
<1>2. /\ request.start \in Nat /\ request.end \in Nat
      /\ request.end # 0 => request.end > request.start
  BY RequestType, UsualRequest
<1>3. Opened \in Seq(Bytes) /\ Len(Opened) \in Nat
  BY OpenedType
<1>4. ~foreign
  <2>1. SUFFICES ASSUME Resumes PROVE ~ForeignFile(offset)
    OBVIOUS
  <2>2. resume /\ request.resume /\ ~(original_offset > 0)
    BY <1>1, <2>1, SMT DEF Resumes, FInv, Offsets, TypeOK
  <2>3. Opened = disk.data
    BY <2>2 DEF Opened
  <2>4. disk.data = <<>> \/ disk.mark
    BY <1>1, <2>2 DEF FInv, Resumed
  <2>5. Len(<<>>) = 0
    BY EmptySeq
  <2>. QED
    BY <2>1, <2>2, <2>3, <2>4, <2>5, SMT DEF ForeignFile
<1>5. disk'.data = Opened /\ original_offset' = offset /\ resume' = Resumes
  <2>1. resume' = Resumes
    <3>. HIDE DEF foreign
    <3>. QED
      BY <1>1, <1>4 DEF Resumes
  <2>2. disk'.data = Opened /\ original_offset' = offset
    <3>. HIDE DEF foreign, offset
    <3>. QED
      BY <1>1, <1>4
  <2>. QED
    BY <2>1, <2>2
<1>6. start \in Nat /\ start = IF Resumes THEN offset ELSE request.start
  BY <1>2, <1>3, <1>4, SMT DEF TypeOK
<1>7. Replied'
  <2>1. Sends(reply', start, start)
    <3>. HIDE DEF start
    <3>. QED
      BY <1>1, <1>6, RepliesSend
  <2>2. from' + received' = start
    BY <1>1, <1>6, SMT
  <2>3. Sends(reply', from', from' + received') /\ ~(received' > 0)
    BY <1>1, <2>1, <2>2, SMT
  <2>. QED
    BY <2>3 DEF Replied
<1>8. Offsets'
  <2>1. original_offset' > 0 => resume_count' = MaxResumes
    <3>1. CASE Resumes
      <4>1. original_offset' > 0 => resume_count' = resume_count + 1
        BY <1>1, <1>5, <3>1
      <4>. QED
        BY <3>1, <4>1, SMT DEF Resumes, MaxResumes, TypeOK
    <3>2. CASE ~Resumes
      BY <1>1, <1>5, <3>2 DEF FInv, Offsets
    <3>. QED
      BY <3>1, <3>2
  <2>2. calls' > 0
    BY <1>1 DEF FInv, Offsets
  <2>3. resume' => request'.resume
    BY <1>1, <1>5 DEF Resumes, FInv, Offsets
  <2>4. ~request'.resume => original_offset' = -1
    BY <1>1, <1>5 DEF Resumes, FInv, Offsets
  <2>5. from' = IF resume' THEN original_offset' ELSE request'.start
    BY <1>1, <1>5, <1>6
  <2>. QED
    BY <1>1, <2>1, <2>2, <2>3, <2>4, <2>5 DEF Offsets, Attempted
<1>9. Fresh'
  <2>1. SUFFICES ASSUME ~request.resume PROVE Fresh'
    BY <1>1 DEF Fresh
  <2>2. ~resume /\ ~Resumes
    BY <2>1 DEF FInv, Offsets, Resumes
  <2>3. Opened = <<>> /\ pos' = 0
    <3>1. ~request.byname => disk.data = <<>> /\ pos = 0
      BY <1>1, <2>1 DEF FInv, Fresh
    <3>. QED
      BY <1>1, <2>2, <3>1 DEF Opened, Position
  <2>4. Len(disk'.data) = 0
    BY <1>5, <2>3, EmptySeq
  <2>5. 0 = IF request'.end # 0 /\ from' + received' > request'.end
            THEN request'.end + 1 - from' ELSE received'
    BY <1>1, <1>2, <1>6, <2>2, SMT
  <2>6. 1 .. pos' = {}
    BY <2>3, SMT
  <2>. QED
    BY <1>1, <2>3, <2>4, <2>5, <2>6 DEF Fresh
<1>10. Resumed'
  <2>1. SUFFICES ASSUME request.resume PROVE Resumed'
    BY <1>1 DEF Resumed
  <2>2. request.byname /\ request.start = 0
    BY <2>1, UsualRequest
  <2>3. \A i \in DOMAIN Opened : Opened[i] \in {i, Stale}
    <3>1. CASE resume
      BY <1>1, <2>1, <3>1 DEF FInv, Resumed, Clean, Opened
    <3>2. CASE ~resume
      BY <2>2, <3>2 DEF Opened
    <3>. QED
      BY <3>1, <3>2
  <2>4. pos' = start /\ start <= Len(Opened)
    <3>1. Resumes => ~(original_offset > 0)
      BY <1>1, SMT DEF Resumes, FInv, Offsets, TypeOK
    <3>2. CASE Resumes
      BY <1>1, <1>3, <1>6, <2>2, <3>1, <3>2, SMT DEF Position, TypeOK
    <3>3. CASE ~Resumes
      BY <1>1, <1>3, <1>6, <2>2, <3>3, SMT DEF Position, TypeOK
    <3>. QED
      BY <3>2, <3>3
  <2>5. pos' = from' + received' /\ pos' <= Len(disk'.data) /\ ~(received' > 0)
        /\ from' + 1 .. pos' = {}
    BY <1>1, <1>5, <1>6, <2>4, SMT
  <2>6. ~(calls' = 0)
    BY <1>1, SMT DEF FInv, Offsets, TypeOK
  <2>. QED
    BY <1>1, <1>5, <2>3, <2>5, <2>6 DEF Resumed
<1>. QED
  BY <1>7, <1>8, <1>9, <1>10 DEF FInv

LEMMA WriteInv ==
    ASSUME Usual, TypeOK, FInv, NEW k \in 1 .. Size + StaleSize + PageSize, Write(k)
    PROVE  FInv'
<1>. DEFINE b == SubSeq(reply.bytes, 1, k)
            w == InRange(b)
            d == Overwrite(disk.data, pos, w)
            q == from + received
<1>1. k \in Nat \ {0}
  BY ConstantsAssumption, SMT
<1>2. /\ state = "RUNNING" /\ state' = "RUNNING" /\ ~range_written /\ k <= Len(reply.bytes)
      /\ disk' = [disk EXCEPT !.data = Overwrite(@, pos, w)] /\ pos' = pos + Len(w)
      /\ range_written' = PastRange(b) /\ received' = received + k
      /\ reply' = [reply EXCEPT !.bytes = SubSeq(@, k + 1, Len(@))]
      /\ UNCHANGED <<request, resume, original_offset, resume_count, from, calls>>
  BY DEF Write, targetVars
<1>3. /\ disk'.data = d /\ disk'.exists = disk.exists /\ disk'.mark = disk.mark
      /\ disk.data \in Seq(Bytes) /\ Len(disk.data) \in Nat
      /\ reply'.kind = reply.kind
  <2>1. disk.data \in Seq(Bytes) /\ Len(disk.data) \in Nat
    BY DiskType DEF TypeOK
  <2>. QED
    BY <1>2, <2>1 DEF TypeOK, File, Reply
<1>4. from \in Nat /\ received \in Nat /\ pos \in Nat /\ q \in Nat
  BY SMT DEF TypeOK
<1>5. /\ b \in Seq(Bytes) /\ Len(b) = k
      /\ \A i \in 1 .. k : b[i] = ByteOf(reply.kind, q + i)
      /\ q + k <= LengthOf(reply.kind)
      /\ Sends(reply', from, q + k)
  <2>1. Sends(reply, from, q)
    BY <1>2 DEF FInv, Replied, Attempted
  <2>. HIDE DEF q
  <2>2. /\ b \in Seq(Bytes) /\ Len(b) = k
        /\ \A i \in 1 .. k : b[i] = ByteOf(reply.kind, q + i)
        /\ q + k <= LengthOf(reply.kind)
        /\ Sends([reply EXCEPT !.bytes = SubSeq(@, k + 1, Len(@))], from, q + k)
    BY <1>1, <1>2, <1>4, <2>1, BlockSends
  <2>. QED
    BY <1>2, <2>2
<1>6. /\ request.start \in Nat /\ request.end \in Nat
      /\ request.end # 0 => request.end > request.start /\ PageSize <= request.end + 1
      /\ request.resume => request.byname /\ request.start = 0 /\ request.end = 0
  BY RequestType, UsualRequest
<1>7. w \in Seq(Bytes) /\ Len(w) \in Nat
  <2>1. w \in Seq(Bytes)
    BY <1>5, InRangeType
  <2>. QED
    BY <2>1, LenProperties
<1>8. /\ d \in Seq(Bytes)
      /\ pos <= Len(disk.data) =>
            /\ Len(d) = IF pos + Len(w) > Len(disk.data) THEN pos + Len(w) ELSE Len(disk.data)
            /\ \A i \in 1 .. Len(d) :
                  d[i] = IF i > pos /\ i <= pos + Len(w) THEN w[i - pos] ELSE disk.data[i]
  BY <1>3, <1>4, <1>7, OverwriteProperties
<1>9. DOMAIN d = 1 .. Len(d) /\ Len(d) \in Nat /\ DOMAIN disk.data = 1 .. Len(disk.data)
  BY <1>3, <1>8, LenProperties
<1>10. Replied'
  <2>1. from' + received' = q + k
    BY <1>2, <1>4, <1>1, SMT
  <2>. HIDE DEF q
  <2>. QED
    BY <1>2, <1>3, <1>5, <2>1 DEF Replied
<1>11. Offsets'
  BY <1>2, <1>3 DEF FInv, Offsets, Attempted
<1>. HIDE DEF d, b
<1>12. Fresh'
  <2>1. SUFFICES ASSUME ~request.resume PROVE Fresh'
    BY <1>2 DEF Fresh
  <2>2. original_offset = -1 /\ from = request.start
    BY <1>2, <2>1 DEF FInv, Offsets, Attempted
  <2>3. /\ pos = Len(disk.data)
        /\ pos = IF request.end # 0 /\ q > request.end THEN request.end + 1 - from ELSE received
        /\ \A i \in 1 .. pos : disk.data[i] = ByteOf(reply.kind, from + i)
    BY <1>2, <2>1 DEF FInv, Fresh, Attempted
  <2>4. /\ Len(w) = IF request.end # 0 /\ q > request.end THEN 0
                    ELSE IF request.end # 0 /\ q + k > request.end
                    THEN request.end + 1 - q ELSE k
        /\ \A i \in 1 .. Len(w) : w[i] = b[i]
    BY <1>5, <1>6, <2>2, InRangeProperties
  <2>. HIDE DEF w
  <2>5. pos' = Len(d)
    BY <1>2, <1>3, <1>4, <1>7, <1>8, <2>3, SMT
  <2>6. pos' = IF request.end # 0 /\ from + received' > request.end
               THEN request.end + 1 - from ELSE received'
    <3>1. CASE request.end = 0
      BY <1>1, <1>2, <1>4, <2>3, <2>4, <3>1, SMT
    <3>2. CASE request.end # 0 /\ q > request.end
      BY <1>1, <1>2, <1>4, <1>6, <2>3, <2>4, <3>2, SMT
    <3>3. CASE request.end # 0 /\ ~(q > request.end)
      <4>1. pos = received
        BY <2>3, <3>3
      <4>2. CASE q + k > request.end
        <5>1. Len(w) = request.end + 1 - q
          BY <2>4, <3>3, <4>2
        <5>2. from + received' > request.end
          BY <1>1, <1>2, <1>4, <4>2, SMT
        <5>3. pos' = request.end + 1 - from
          <6>1. pos' = received + (request.end + 1 - (from + received))
            BY <1>2, <4>1, <5>1
          <6>2. request.end \in Nat
            BY <1>6
          <6>. QED
            BY <1>4, <6>1, <6>2, SMT
        <5>. QED
          BY <3>3, <5>2, <5>3
      <4>3. CASE ~(q + k > request.end)
        <5>1. Len(w) = k
          BY <2>4, <3>3, <4>3
        <5>. QED
          BY <1>1, <1>2, <1>4, <1>6, <3>3, <4>1, <4>3, <5>1, SMT
      <4>. QED
        BY <4>2, <4>3
    <3>. QED
      BY <3>1, <3>2, <3>3
  <2>7. ASSUME NEW i \in 1 .. pos' PROVE d[i] = ByteOf(reply.kind, from + i)
    <3>1. CASE i <= pos
      <4>1. i \in 1 .. pos /\ i \in 1 .. Len(d)
        BY <1>2, <1>4, <1>7, <2>5, <3>1, SMT
      <4>2. d[i] = disk.data[i]
        BY <1>4, <1>8, <2>3, <3>1, <4>1, SMT
      <4>. QED
        BY <2>3, <4>1, <4>2
    <3>2. CASE i > pos
      <4>1. i - pos \in 1 .. Len(w) /\ i \in 1 .. Len(d) /\ i <= pos + Len(w)
        BY <1>2, <1>4, <1>7, <2>5, <3>2, SMT
      <4>2. d[i] = w[i - pos]
        <5>1. pos <= Len(disk.data)
          BY <1>4, <2>3, SMT
        <5>. QED
          BY <1>8, <3>2, <4>1, <5>1
      <4>3. pos = received /\ Len(w) <= k
        <5>1. Len(w) # 0
          BY <1>7, <4>1, SMT
        <5>2. ~(request.end # 0 /\ q > request.end)
          BY <2>4, <5>1
        <5>. QED
          BY <1>1, <1>4, <1>6, <2>3, <2>4, <5>2, SMT
      <4>4. i - pos \in 1 .. k /\ q + (i - pos) = from + i
        BY <1>1, <1>4, <1>7, <4>1, <4>3, SMT
      <4>. QED
        BY <1>5, <2>4, <4>1, <4>2, <4>4
    <3>. QED
      BY <1>4, <3>1, <3>2, SMT
  <2>8. range_written' => /\ request.end # 0 /\ from + received' > request.end + 1
                          /\ reply.kind # "page"
    <3>1. SUFFICES ASSUME PastRange(b) PROVE /\ request.end # 0 /\ from + received' > request.end + 1
                                             /\ reply.kind # "page"
      BY <1>2
    <3>2. request.end # 0 /\ q > request.end
      BY <1>6, <2>2, <3>1, SMT DEF PastRange, RangeBase
    <3>3. from + received' > request.end + 1
      BY <1>1, <1>2, <1>4, <1>6, <3>2, SMT
    <3>4. reply.kind = "page" => LengthOf(reply.kind) <= request.end + 1
      BY <1>6, <3>2 DEF LengthOf
    <3>5. LengthOf(reply.kind) \in Nat
      BY LengthOfType
    <3>. QED
      BY <1>1, <1>4, <1>5, <1>6, <3>2, <3>3, <3>4, <3>5, SMT
  <2>. QED
    BY <1>2, <1>3, <2>5, <2>6, <2>7, <2>8 DEF Fresh
<1>13. Resumed'
  <2>1. SUFFICES ASSUME request.resume PROVE Resumed'
    BY <1>2 DEF Resumed
  <2>2. w = b /\ ~PastRange(b)
    BY <1>6, <2>1 DEF InRange, PastRange
  <2>3. /\ pos = q /\ pos <= Len(disk.data)
        /\ reply.kind = "full" => \A i \in from + 1 .. pos : disk.data[i] = i
        /\ reply.kind = "stale" /\ received > 0 => disk.data[pos] = Stale
        /\ reply.kind = "page" /\ received > 0 => disk.data[1] = Page
    BY <1>2, <2>1 DEF FInv, Resumed, Attempted
  <2>4. /\ \A i \in DOMAIN disk.data : disk.data[i] \in {i, Stale, Page, Hole}
        /\ reply.kind # "page" => \A i \in DOMAIN disk.data : disk.data[i] \in {i, Stale}
    BY <1>2, <2>1 DEF FInv, Resumed, Clean, Attempted
  <2>5. Len(w) = k /\ pos' = pos + k
    BY <1>2, <1>5, <2>2
  <2>6. Len(d) >= pos' /\ Len(d) >= Len(disk.data)
    BY <1>1, <1>3, <1>4, <1>8, <2>3, <2>5, SMT
  <2>7. ASSUME NEW i \in 1 .. Len(d)
        PROVE  /\ i > pos /\ i <= pos' => d[i] = ByteOf(reply.kind, i)
               /\ ~(i > pos /\ i <= pos') => i \in DOMAIN disk.data /\ d[i] = disk.data[i]
    <3>1. CASE i > pos /\ i <= pos'
      <4>1. i - pos \in 1 .. k /\ q + (i - pos) = i
        BY <1>4, <2>3, <2>5, <3>1, SMT
      <4>2. d[i] = b[i - pos]
        BY <1>8, <2>2, <2>3, <2>5, <3>1
      <4>. QED
        BY <1>5, <3>1, <4>1, <4>2
    <3>2. CASE ~(i > pos /\ i <= pos')
      <4>1. i \in DOMAIN disk.data
        <5>1. Len(d) = IF pos' > Len(disk.data) THEN pos' ELSE Len(disk.data)
          BY <1>8, <2>3, <2>5
        <5>2. i \in 1 .. Len(disk.data)
          BY <1>1, <1>3, <1>4, <2>3, <2>5, <3>2, <5>1, SMT
        <5>. QED
          BY <1>9, <5>2
      <4>. QED
        BY <1>8, <2>3, <2>5, <3>2, <4>1
    <3>. QED
      BY <3>1, <3>2
  <2>8. Sends(reply, from, q)
    BY <1>2 DEF FInv, Replied, Attempted
  <2>9. reply.kind \in {"full", "stale", "page"} /\ (reply.kind = "page" => from = 0)
    <3>1. LengthOf(reply.kind) # 0
      BY <1>1, <1>4, <1>5, SMT
    <3>. QED
      BY <2>8, <3>1 DEF Sends, LengthOf
  <2>10. \A i \in DOMAIN d : d[i] \in {i, Stale, Page, Hole}
    BY <1>9, <2>4, <2>7 DEF ByteOf
  <2>11. reply.kind # "page" => \A i \in DOMAIN d : d[i] \in {i, Stale}
    BY <1>9, <2>4, <2>7, <2>9 DEF ByteOf
  <2>12. ~(calls' = 0) /\ disk'.exists
    BY <1>2, <1>3, SMT DEF FInv, Offsets, TypeOK, Attempted
  <2>13. pos' = from' + received' /\ pos' <= Len(d)
    BY <1>1, <1>2, <1>4, <2>3, <2>5, <2>6, SMT
  <2>14. ASSUME reply.kind = "full", NEW i \in from + 1 .. pos' PROVE d[i] = i
    <3>1. i \in 1 .. Len(d)
      BY <1>1, <1>4, <1>9, <2>5, <2>6, SMT
    <3>2. CASE i > pos
      <4>1. i <= pos'
        BY <1>4, <2>5, SMT
      <4>. QED
        BY <2>7, <2>14, <3>1, <3>2, <4>1 DEF ByteOf
    <3>3. CASE ~(i > pos)
      <4>1. i \in from + 1 .. pos
        BY <1>4, <2>5, <3>3, SMT
      <4>. QED
        BY <2>3, <2>7, <2>14, <3>1, <3>3, <4>1
    <3>. QED
      BY <3>2, <3>3
  <2>15. reply.kind = "stale" => d[pos'] = Stale
    <3>1. pos' \in 1 .. Len(d) /\ pos' > pos /\ pos' <= pos'
      BY <1>1, <1>4, <1>9, <2>5, <2>6, SMT
    <3>. QED
      BY <2>7, <3>1 DEF ByteOf
  <2>16. reply.kind = "page" => d[1] = Page
    <3>1. SUFFICES ASSUME reply.kind = "page" PROVE d[1] = Page
      OBVIOUS
    <3>2. 1 \in 1 .. Len(d) /\ 1 <= pos'
      BY <1>1, <1>4, <1>9, <2>5, <2>6, SMT
    <3>3. CASE 1 > pos
      BY <2>7, <3>1, <3>2, <3>3 DEF ByteOf
    <3>4. CASE ~(1 > pos)
      <4>1. received > 0
        BY <1>4, <2>3, <2>9, <3>1, <3>4, SMT
      <4>. QED
        BY <2>3, <2>7, <3>1, <3>2, <3>4, <4>1
    <3>. QED
      BY <3>3, <3>4
  <2>17. ~range_written'
    BY <1>2, <2>2
  <2>. QED
    BY <1>2, <1>3, <2>10, <2>11, <2>12, <2>13, <2>14, <2>15, <2>16, <2>17 DEF Resumed, Clean, Attempted
<1>. QED
  BY <1>10, <1>11, <1>12, <1>13 DEF FInv

LEMMA RetryInv ==
    ASSUME Usual, TypeOK, FInv, NEW e \in Errors, Retry(e)
    PROVE  FInv'
<1>. DEFINE n == IF original_offset > -1 THEN original_offset ELSE 0
            r == Resized(disk.data, n)
<1>1. /\ state = "RUNNING" /\ state' = "WAITING" /\ Error(e)
      /\ UNCHANGED <<request, resume, resume_count, calls>>
      /\ IF Keeps(e) THEN original_offset' = -1 /\ disk' = disk /\ pos' = pos
         ELSE /\ disk' = [disk EXCEPT !.data = r] /\ original_offset' = original_offset
              /\ pos' = IF request.byname THEN pos ELSE n
  BY DEF Retry, Error
<1>2. disk.data \in Seq(Bytes) /\ Len(disk.data) \in Nat /\ DOMAIN disk.data = 1 .. Len(disk.data)
  BY DiskType DEF TypeOK
<1>3. n \in Nat
  BY SMT DEF TypeOK
<1>4. r \in Seq(Bytes) /\ Len(r) = n /\ \A i \in 1 .. n : r[i] = IF i <= Len(disk.data) THEN disk.data[i] ELSE Hole
  <2>. HIDE DEF n
  <2>. QED
    BY <1>2, <1>3, ResizedProperties
<1>5. DOMAIN r = 1 .. n
  BY <1>4, LenProperties
<1>6. disk'.mark /\ (disk'.data = IF Keeps(e) THEN disk.data ELSE r)
  <2>1. disk.mark
    BY <1>1 DEF FInv, Offsets
  <2>. HIDE DEF r
  <2>. QED
    BY <1>1, <2>1 DEF TypeOK, File
<1>7. Replied'
  BY <1>1 DEF Replied, Attempted
<1>8. Offsets'
  <2>1. original_offset' = original_offset \/ (original_offset' = -1 /\ ~(original_offset' > 0))
    BY <1>1, SMT
  <2>. QED
    BY <1>1, <2>1 DEF FInv, Offsets, Attempted
<1>9. Fresh'
  <2>1. SUFFICES ASSUME ~request.resume, ~request.byname PROVE disk'.data = <<>> /\ pos' = 0
    BY <1>1 DEF Fresh, Attempted
  <2>2. original_offset = -1 /\ ~Keeps(e)
    BY <2>1 DEF FInv, Offsets, Keeps
  <2>3. n = 0
    BY <2>2, SMT
  <2>4. r = <<>>
    <3>. HIDE DEF r
    <3>. QED
      BY <1>4, <2>3, EmptySeq
  <2>. QED
    BY <1>1, <1>6, <2>1, <2>2, <2>3, <2>4
<1>10. Resumed'
  <2>1. SUFFICES ASSUME request.resume PROVE Resumed'
    BY <1>1 DEF Resumed
  <2>2. /\ pos = from + received /\ pos <= Len(disk.data) /\ ~range_written
        /\ \A i \in DOMAIN disk.data : disk.data[i] \in {i, Stale, Page, Hole}
        /\ reply.kind # "page" => \A i \in DOMAIN disk.data : disk.data[i] \in {i, Stale}
    BY <1>1, <2>1 DEF FInv, Resumed, Clean, Attempted
  <2>3. Sends(reply, from, from + received)
    BY <1>1 DEF FInv, Replied, Attempted
  <2>4. resume => n = from
    BY <1>1, SMT DEF FInv, Offsets, Attempted, TypeOK
  <2>. HIDE DEF n, r
  <2>5. \A i \in DOMAIN r : r[i] \in {i, Stale, Page, Hole}
    <3>1. ASSUME NEW i \in 1 .. n PROVE i <= Len(disk.data) => i \in DOMAIN disk.data
      BY <1>2, <1>3, SMT
    <3>. QED
      BY <1>4, <1>5, <2>2, <3>1
  <2>6. Keeps(e) => reply.kind # "page"
    <3>1. SUFFICES ASSUME e = "curl" PROVE reply.ending = "ok"
      BY <2>3 DEF Keeps, Sends
    <3>2. ~CutDirty
      BY <2>1, UsualRequest
    <3>. QED
      BY <1>1, <3>1, <3>2 DEF Error
  <2>7. resume => \A i \in DOMAIN r : r[i] \in {i, Stale}
    <3>1. SUFFICES ASSUME resume, NEW i \in 1 .. n PROVE r[i] \in {i, Stale}
      BY <1>5
    <3>2. n > 0 /\ i <= Len(disk.data) /\ i \in 1 .. Len(disk.data)
      BY <1>2, <1>3, <2>2, <2>4, <3>1, SMT DEF TypeOK
    <3>3. reply.kind # "page"
      BY <2>3, <2>4, <3>1, <3>2, SMT DEF Sends
    <3>. QED
      BY <1>2, <1>4, <2>2, <3>2, <3>3
  <2>8. /\ \A i \in DOMAIN disk'.data : disk'.data[i] \in {i, Stale, Page, Hole}
        /\ resume' => \A i \in DOMAIN disk'.data : disk'.data[i] \in {i, Stale}
    BY <1>1, <1>6, <2>2, <2>5, <2>6, <2>7
  <2>. QED
    BY <1>1, <1>6, <2>8 DEF Resumed, Clean, Attempted
<1>. QED
  BY <1>7, <1>8, <1>9, <1>10 DEF FInv

\* What finishes was not a page.
LEMMA FinishedIsNoPage ==
    ASSUME TypeOK, FInv, Attempted, TransferOK, request.resume \/ ~range_written
    PROVE  /\ Sent /\ reply.kind \in {"full", "stale"} /\ from < LengthOf(reply.kind)
           /\ from + received >= LengthOf(reply.kind)
<1>1. ~range_written
  BY DEF FInv, Resumed
<1>2. Sent /\ reply.ending = "ok"
  BY <1>1 DEF TransferOK
<1>3. Sends(reply, from, from + received)
  BY DEF FInv, Replied
<1>4. reply.kind \in {"full", "stale"} /\ from < LengthOf(reply.kind)
  BY <1>2, <1>3 DEF Sends
<1>5. Len(reply.bytes) = 0
  BY <1>2, EmptySeq DEF Sent
<1>6. LengthOf(reply.kind) \in Nat
  BY LengthOfType
<1>7. Len(reply.bytes) = IF from + received < LengthOf(reply.kind)
                         THEN LengthOf(reply.kind) - (from + received) ELSE 0
  BY <1>3 DEF Sends
<1>8. from + received >= LengthOf(reply.kind)
  BY <1>5, <1>6, <1>7, SMT DEF TypeOK
<1>. QED
  BY <1>2, <1>4, <1>8

LEMMA DecideInv ==
    ASSUME Usual, TypeOK, FInv, Finish \/ \E e \in Errors : Fail(e)
    PROVE  FInv'
<1>1. /\ state = "RUNNING" /\ state' \in {"FINISHED", "FAILED"}
      /\ UNCHANGED <<request, pos, targetVars, transferVars, tries, calls>>
      /\ disk' = disk \/ disk' = [disk EXCEPT !.mark = FALSE]
      /\ state' = "FINISHED" => TransferOK
  BY DEF Finish, Fail, Error
<1>2. disk'.data = disk.data /\ disk'.exists = disk.exists
  BY <1>1 DEF TypeOK, File
<1>3. UNCHANGED <<request, pos, resume, original_offset, resume_count, from, received,
                  range_written, reply, calls>>
  BY <1>1 DEF targetVars, transferVars
<1>4. Attempted /\ Attempted'
  BY <1>1 DEF Attempted
<1>5. Replied'
  BY <1>3, <1>4 DEF FInv, Replied
<1>6. Offsets'
  BY <1>1, <1>2, <1>3, <1>4 DEF FInv, Offsets, TransferOK, Sent
<1>7. Fresh'
  BY <1>1, <1>2, <1>3, <1>4 DEF FInv, Fresh
<1>8. Resumed'
  <2>1. Clean' => Clean
    BY <1>1, <1>3, <1>4 DEF Clean
  <2>2. ~(calls' = 0) /\ disk'.exists
    BY <1>1, <1>2, <1>3, <1>4, SMT DEF FInv, Offsets, TypeOK
  <2>. QED
    BY <1>1, <1>2, <1>3, <1>4, <2>1, <2>2 DEF FInv, Resumed
<1>. QED
  BY <1>5, <1>6, <1>7, <1>8 DEF FInv

LEMMA EndInv ==
    ASSUME Usual, TypeOK, FInv, Return \/ Crash
    PROVE  FInv'
<1>1. /\ state # "none" /\ state' = "none"
      /\ UNCHANGED <<request, resume, original_offset, calls>>
      /\ disk' = disk \/ disk' = NoFile
  BY DEF Return, Crash, targetVars
<1>2. Replied' /\ Fresh'
  BY <1>1 DEF Replied, Fresh, Attempted
<1>3. Offsets'
  BY <1>1 DEF FInv, Offsets, Attempted
<1>4. Resumed'
  <2>1. SUFFICES ASSUME request.resume, disk' = disk PROVE Resumed'
    <3>1. disk' = NoFile => disk'.data = <<>>
      BY DEF NoFile
    <3>2. disk' = NoFile => Resumed'
      BY <1>1, <3>1 DEF Resumed, Attempted
    <3>. QED
      BY <1>1, <3>2 DEF Resumed
  <2>2. \A i \in DOMAIN disk.data : disk.data[i] \in {i, Stale}
    <3>1. CASE Clean
      BY <2>1, <3>1 DEF FInv, Resumed
    <3>2. CASE Crash
      <4>1. \A i \in DOMAIN disk.data : disk.data[i] \notin {Page, Hole}
        BY <2>1, <3>2, UsualRequest DEF Crash
      <4>. QED
        BY <2>1, <4>1 DEF FInv, Resumed
    <3>3. CASE Return /\ ~Clean
      <4>1. state = "FINISHED" \/ (resume /\ original_offset # 0) \/ disk' = NoFile
        <5>1. request.byname
          BY <2>1, UsualRequest
        <5>. QED
          BY <3>3, <5>1 DEF Return
      <4>2. CASE disk' = NoFile
        BY <2>1, <4>2 DEF NoFile
      <4>3. CASE state = "FINISHED"
        <5>1. Attempted /\ TransferOK
          BY <4>3 DEF FInv, Offsets, Attempted
        <5>2. reply.kind # "page"
          BY <2>1, <5>1, FinishedIsNoPage
        <5>. QED
          BY <3>3, <5>1, <5>2 DEF Clean
      <4>4. CASE resume /\ original_offset # 0
        <5>1. Attempted
          BY <1>1, <3>3, <4>4 DEF Clean, Attempted, TypeOK
        <5>2. from # 0
          BY <4>4, <5>1 DEF FInv, Offsets
        <5>3. reply.kind # "page"
          BY <5>1, <5>2 DEF FInv, Replied, Sends
        <5>. QED
          BY <3>3, <5>1, <5>3 DEF Clean
      <4>. QED
        BY <4>1, <4>2, <4>3, <4>4
    <3>. QED
      BY <3>1, <3>2, <3>3
  <2>3. disk.exists \/ disk.data = <<>> \/ disk.mark
    <3>1. state = "WAITING" \/ Attempted
      BY <1>1 DEF Attempted, TypeOK
    <3>. QED
      BY <2>1, <3>1 DEF FInv, Resumed, Offsets
  <2>4. ~(calls' = 0)
    BY <1>1, SMT DEF FInv, Offsets, TypeOK
  <2>. QED
    BY <1>1, <2>1, <2>2, <2>3, <2>4 DEF Resumed, Attempted
<1>. QED
  BY <1>2, <1>3, <1>4 DEF FInv

LEMMA StepInv == Usual /\ TypeOK /\ FInv /\ [Next]_vars => FInv'
<1>. SUFFICES ASSUME Usual, TypeOK, FInv, [Next]_vars PROVE FInv'
  OBVIOUS
<1>1. CASE UNCHANGED vars \/ Over
  <2>1. UNCHANGED <<request, disk, pos, resume, original_offset, resume_count, from, received,
                    range_written, reply, state, calls>>
    BY <1>1 DEF Over, vars, targetVars, transferVars
  <2>2. Attempted' = Attempted /\ Clean' = Clean /\ TransferOK' = TransferOK
    BY <2>1 DEF Attempted, Clean, TransferOK, Sent
  <2>3. Replied' /\ Offsets'
    BY <2>1, <2>2 DEF FInv, Replied, Offsets
  <2>4. Fresh' /\ Resumed'
    BY <2>1, <2>2 DEF FInv, Fresh, Resumed
  <2>. QED
    BY <2>3, <2>4 DEF FInv
<1>. QED
  BY <1>1, CallInv, OpenInv, WriteInv, RetryInv, DecideInv, EndInv DEF Next

\* The invariant of every usual case.
LEMMA Invariance == ASSUME Usual PROVE Spec => [](TypeOK /\ FInv)
<1>1. Init => TypeOK /\ FInv
  BY InitType, InitInv
<1>2. TypeOK /\ FInv /\ [Next]_vars => (TypeOK /\ FInv)'
  BY StepType, StepInv
<1>. QED
  BY <1>1, <1>2, PTL DEF Spec

-------------------------------------------------------------------------------
(* What the invariant says of a file that is complete.                     *)

LEMMA WantedProperties ==
    ASSUME TypeOK
    PROVE  LET last == IF request.end > request.start /\ request.end < Size
                       THEN request.end + 1 ELSE Size IN
           /\ Wanted \in Seq(Bytes)
           /\ Len(Wanted) = IF request.start < last THEN last - request.start ELSE 0
           /\ \A i \in 1 .. Len(Wanted) : Wanted[i] = request.start + i
<1>. DEFINE last == IF request.end > request.start /\ request.end < Size
                    THEN request.end + 1 ELSE Size
            m == request.start + 1
<1>1. request.start \in Nat /\ request.end \in Nat /\ Size \in Nat
  BY RequestType, ConstantsAssumption
<1>2. last \in Nat /\ last <= Size /\ m \in Nat \ {0}
  BY <1>1, SMT
<1>3. Whole \in Seq(Bytes) /\ Len(Whole) = Size /\ \A i \in 1 .. Size : Whole[i] = i
  <2>1. Whole \in [1 .. Size -> Bytes]
    BY ConstantsAssumption, SMT DEF Whole, Bytes, Foreign
  <2>. QED
    BY <1>1, <2>1, FunctionIsSeq DEF Whole
<1>4. Wanted = SubSeq(Whole, m, last)
  BY DEF Wanted
<1>. HIDE DEF last
<1>5. /\ Wanted \in Seq(Bytes)
      /\ Len(Wanted) = IF m <= last THEN last - m + 1 ELSE 0
      /\ \A i \in 1 .. Len(Wanted) : Wanted[i] = Whole[m + i - 1]
  <2>1. last \in Int /\ last <= Len(Whole)
    BY <1>2, <1>3, SMT
  <2>. HIDE DEF m
  <2>. QED
    BY <1>2, <1>3, <1>4, <2>1, PartProperties
<1>6. Len(Wanted) = IF request.start < last THEN last - request.start ELSE 0
  BY <1>1, <1>2, <1>5, SMT
<1>7. ASSUME NEW i \in 1 .. Len(Wanted) PROVE Wanted[i] = request.start + i
  <2>1. m + i - 1 = request.start + i /\ request.start + i \in 1 .. Size
    BY <1>1, <1>2, <1>6, SMT
  <2>. QED
    BY <1>3, <1>5, <2>1
<1>. QED
  BY <1>5, <1>6, <1>7 DEF last

\* Of what was sent as the target, the file of a target that is not resumed holds what
\* was wanted.
LEMMA FreshIsExact ==
    ASSUME Usual, TypeOK, FInv, Attempted, TransferOK, ~request.resume, reply.kind = "full"
    PROVE  disk.data = Wanted
<1>1. /\ request.start \in Nat /\ request.end \in Nat /\ Size \in Nat /\ received \in Nat
      /\ request.end # 0 => request.end > request.start
  BY RequestType, UsualRequest, ConstantsAssumption DEF TypeOK
<1>2. from = request.start
  BY DEF FInv, Offsets
<1>3. LengthOf(reply.kind) = Size
  BY DEF LengthOf
<1>4. /\ pos = Len(disk.data)
      /\ pos = IF request.end # 0 /\ from + received > request.end
               THEN request.end + 1 - from ELSE received
      /\ \A i \in 1 .. pos : disk.data[i] = from + i
      /\ range_written => request.end # 0 /\ from + received > request.end + 1
  BY DEF FInv, Fresh, ByteOf
<1>5. received > 0 => from + received <= Size
  BY <1>3 DEF FInv, Replied
<1>6. disk.data \in Seq(Bytes)
  BY DiskType DEF TypeOK
<1>. DEFINE last == IF request.end > request.start /\ request.end < Size
                    THEN request.end + 1 ELSE Size
<1>7. /\ Wanted \in Seq(Bytes)
      /\ Len(Wanted) = IF request.start < last THEN last - request.start ELSE 0
      /\ \A i \in 1 .. Len(Wanted) : Wanted[i] = request.start + i
  BY WantedProperties
<1>8. Len(disk.data) = Len(Wanted)
  <2>1. CASE range_written
    <3>1. request.end > request.start /\ request.end < Size
      BY <1>1, <1>2, <1>4, <1>5, <2>1, SMT
    <3>2. pos = request.end + 1 - from
      BY <1>1, <1>2, <1>4, <2>1, SMT
    <3>. QED
      BY <1>1, <1>2, <1>4, <1>7, <3>1, <3>2, SMT
  <2>2. CASE ~range_written
    <3>1. from < Size /\ from + received >= Size
      BY <1>3, <2>2, FinishedIsNoPage
    <3>2. from + received = Size
      BY <1>1, <1>2, <1>5, <3>1, SMT
    <3>3. CASE request.end # 0 /\ request.end < Size
      <4>1. pos = request.end + 1 - from
        BY <1>4, <3>2, <3>3, SMT
      <4>2. last = request.end + 1
        BY <1>1, <3>3
      <4>. HIDE DEF last
      <4>. QED
        BY <1>1, <1>2, <1>4, <1>7, <3>3, <4>1, <4>2, SMT
    <3>4. CASE ~(request.end # 0 /\ request.end < Size)
      <4>1. pos = received
        BY <1>1, <1>4, <3>2, <3>4, SMT
      <4>2. last = Size
        BY <1>1, <3>4, SMT
      <4>. HIDE DEF last
      <4>. QED
        BY <1>1, <1>2, <1>4, <1>7, <3>1, <3>2, <4>1, <4>2, SMT
    <3>. QED
      BY <3>3, <3>4
  <2>. QED
    BY <2>1, <2>2
<1>. QED
  BY <1>2, <1>4, <1>6, <1>7, <1>8, SeqEqual

\* A resumed file is the target when each of its bytes is.
LEMMA ResumedIsExact ==
    ASSUME Usual, TypeOK, request.resume, Len(disk.data) = Size,
           \A i \in 1 .. Size : disk.data[i] = i
    PROVE  disk.data = Wanted
<1>1. request.start = 0 /\ request.end = 0 /\ Size \in Nat \ {0}
  BY UsualRequest, ConstantsAssumption
<1>2. /\ Wanted \in Seq(Bytes) /\ Len(Wanted) = Size
      /\ \A i \in 1 .. Len(Wanted) : Wanted[i] = i
  <2>. DEFINE last == IF request.end > request.start /\ request.end < Size
                      THEN request.end + 1 ELSE Size
  <2>1. last = Size
    BY <1>1, SMT
  <2>2. /\ Wanted \in Seq(Bytes)
        /\ Len(Wanted) = IF request.start < last THEN last - request.start ELSE 0
        /\ \A i \in 1 .. Len(Wanted) : Wanted[i] = request.start + i
    BY WantedProperties
  <2>. HIDE DEF last
  <2>3. Len(Wanted) = Size
    BY <1>1, <2>1, <2>2, SMT
  <2>4. \A i \in 1 .. Len(Wanted) : 0 + i = i
    BY SMT
  <2>. QED
    BY <1>1, <2>2, <2>3, <2>4
<1>3. disk.data \in Seq(Bytes)
  BY DiskType DEF TypeOK
<1>. QED
  BY <1>2, <1>3, SeqEqual

LEMMA InvIsExact == Usual /\ TypeOK /\ FInv => SuccessIsExact
<1>. SUFFICES ASSUME Usual, TypeOK, FInv, state = "FINISHED",
                     \A i \in DOMAIN disk.data : disk.data[i] # Stale
              PROVE  disk.data = Wanted
  BY DEF SuccessIsExact
<1>1. Attempted /\ TransferOK
  BY DEF FInv, Offsets, Attempted
<1>2. /\ disk.data \in Seq(Bytes) /\ Len(disk.data) \in Nat
      /\ DOMAIN disk.data = 1 .. Len(disk.data)
  BY DiskType DEF TypeOK
<1>3. from \in Nat /\ received \in Nat /\ pos \in Nat /\ LengthOf(reply.kind) \in Nat
  BY LengthOfType DEF TypeOK
<1>4. CASE ~request.resume
  <2>1. /\ pos = Len(disk.data)
        /\ pos = IF request.end # 0 /\ from + received > request.end
                 THEN request.end + 1 - from ELSE received
        /\ \A i \in 1 .. pos : disk.data[i] = ByteOf(reply.kind, from + i)
        /\ range_written => /\ request.end # 0 /\ from + received > request.end + 1
                            /\ reply.kind # "page"
    BY <1>1, <1>4 DEF FInv, Fresh
  <2>2. /\ request.end \in Nat /\ request.start \in Nat /\ from = request.start
        /\ request.end # 0 => request.end > request.start
    BY <1>1, <1>4, RequestType, UsualRequest DEF FInv, Offsets
  <2>3. reply.kind \in {"full", "stale"} /\ received > 0
    <3>1. CASE range_written
      <4>1. received > 0
        BY <1>3, <2>1, <2>2, <3>1, SMT
      <4>2. from + received <= LengthOf(reply.kind)
        BY <1>1, <4>1 DEF FInv, Replied
      <4>3. LengthOf(reply.kind) # 0
        BY <1>3, <4>1, <4>2, SMT
      <4>. QED
        BY <2>1, <3>1, <4>1, <4>3 DEF LengthOf
    <3>2. CASE ~range_written
      <4>1. /\ reply.kind \in {"full", "stale"} /\ from < LengthOf(reply.kind)
            /\ from + received >= LengthOf(reply.kind)
        BY <1>1, <3>2, FinishedIsNoPage
      <4>. QED
        BY <1>3, <4>1, SMT
    <3>. QED
      BY <3>1, <3>2
  <2>4. reply.kind # "stale"
    <3>1. 1 \in 1 .. pos
      BY <1>3, <2>1, <2>2, <2>3, SMT
    <3>2. reply.kind = "stale" => disk.data[1] = Stale
      BY <2>1, <3>1 DEF ByteOf
    <3>. QED
      BY <1>2, <2>1, <3>1, <3>2
  <2>. QED
    BY <1>1, <1>4, <2>3, <2>4, FreshIsExact
<1>5. CASE request.resume
  <2>1. /\ reply.kind \in {"full", "stale"} /\ from < LengthOf(reply.kind)
        /\ from + received >= LengthOf(reply.kind)
    BY <1>1, <1>5, FinishedIsNoPage
  <2>2. /\ pos = from + received /\ pos <= Len(disk.data)
        /\ reply.kind = "stale" /\ received > 0 => disk.data[pos] = Stale
        /\ \A i \in DOMAIN disk.data : disk.data[i] \in {i, Stale}
    BY <1>1, <1>5, <2>1 DEF FInv, Resumed, Clean
  <2>3. received > 0 /\ pos \in 1 .. Len(disk.data)
    BY <1>2, <1>3, <2>1, <2>2, SMT
  <2>4. reply.kind = "full"
    BY <1>2, <2>1, <2>2, <2>3
  <2>5. \A i \in 1 .. Len(disk.data) : disk.data[i] = i
    BY <1>2, <2>2
  <2>6. Len(disk.data) >= Size
    BY <1>2, <1>3, <2>1, <2>2, <2>4, SMT DEF LengthOf
  <2>7. Len(disk.data) <= Size
    <3>1. Len(disk.data) \in 1 .. Len(disk.data)
      BY <1>2, <2>3, SMT
    <3>2. Len(disk.data) \in Bytes
      BY <1>2, <2>5, <3>1, ElementOfSeq
    <3>. QED
      BY <3>2, ConstantsAssumption, SMT DEF Bytes, Foreign
  <2>8. Len(disk.data) = Size
    BY <1>2, <2>6, <2>7, ConstantsAssumption, SMT
  <2>. QED
    BY <1>5, <2>5, <2>8, ResumedIsExact
<1>. QED
  BY <1>4, <1>5

LEMMA InvIsAligned == Usual /\ TypeOK /\ FInv => Aligned
<1>. SUFFICES ASSUME Usual, TypeOK, FInv, state = "RUNNING",
                     request.start = 0, request.end = 0
              PROVE  pos = from + received
  BY DEF Aligned
<1>1. Attempted
  BY DEF Attempted
<1>2. CASE request.resume
  BY <1>1, <1>2 DEF FInv, Resumed
<1>3. CASE ~request.resume
  <2>1. pos = received /\ from = 0
    BY <1>1, <1>3 DEF FInv, Fresh, Offsets
  <2>. QED
    BY <2>1, SMT DEF TypeOK
<1>. QED
  BY <1>2, <1>3

\* SuccessIsExact holds for the usual requests: whatever was resumed, retried, truncated,
\* given up or killed before, a finished file is exactly what the user asked for, unless
\* an outdated mirror sent something else and there is no checksum.
THEOREM SuccessIsExactHolds == ASSUME Usual PROVE Spec => []SuccessIsExact
BY Invariance, InvIsExact, PTL

\* Aligned holds for the usual requests: a whole target is written where it was requested
\* from.
THEOREM AlignedHolds == ASSUME Usual PROVE Spec => []Aligned
BY Invariance, InvIsAligned, PTL

-------------------------------------------------------------------------------
(* A good transfer is accepted.                                            *)

LEMMA InitFits == Short /\ Init => Fits
<1>. SUFFICES ASSUME Short, Init PROVE Fits
  OBVIOUS
<1>1. PICK c \in Cases : request = c.request /\ disk = c.file
  BY DEF Init
<1>2. c.file \in File
  BY ConstantsAssumption DEF File
<1>3. Len(c.file.data) \in Nat /\ Size \in Nat
  BY <1>2, DiskType, ConstantsAssumption
<1>4. request.resume => ~(Len(disk.data) > Size)
  <2>1. request.resume => Len(disk.data) <= Size
    BY <1>1 DEF Short
  <2>. QED
    BY <1>1, <1>3, <2>1, SMT
<1>. QED
  BY <1>4 DEF Init, Fits

LEMMA CallFits == Usual /\ TypeOK /\ Fits /\ Call => Fits'
<1>. SUFFICES ASSUME Usual, TypeOK, Fits, Call, request.resume PROVE Fits'
  BY DEF Fits, Call
<1>1. disk' = disk /\ state = "none" /\ original_offset' = -1 /\ request' = request
  BY UsualRequest DEF Call
<1>2. -1 <= Size
  BY ConstantsAssumption, SMT
<1>3. ~(Len(disk'.data) > Size)
  BY <1>1 DEF Fits, Attempted
<1>. QED
  BY <1>1, <1>2, <1>3 DEF Fits

LEMMA OpenFits == Usual /\ TypeOK /\ Fits /\ Open => Fits'
<1>. SUFFICES ASSUME Usual, TypeOK, Fits, Open, request.resume PROVE Fits'
  BY DEF Fits, Open
<1>. DEFINE offset == IF Resumes /\ original_offset = -1 THEN Len(Opened) ELSE original_offset
            foreign == Resumes /\ ForeignFile(offset)
<1>1. /\ state = "WAITING" /\ state' = "RUNNING" /\ request' = request
      /\ original_offset' = IF foreign THEN 0 ELSE offset
      /\ disk'.data = IF foreign THEN <<>> ELSE Opened
  BY DEF Open
<1>2. Len(Opened) \in Nat /\ Len(disk.data) \in Nat /\ Size \in Nat
  BY OpenedType, DiskType, ConstantsAssumption DEF TypeOK
<1>3. ~(Len(disk.data) > Size) /\ original_offset <= Size
  BY <1>1 DEF Fits, Attempted
<1>4. Len(<<>>) = 0
  BY EmptySeq
<1>5. Len(Opened) <= Size
  <2>1. Opened \in {<<>>, disk.data}
    BY DEF Opened
  <2>. QED
    BY <1>2, <1>3, <1>4, <2>1, SMT
<1>6. offset <= Size
  BY <1>3, <1>5
<1>. HIDE DEF offset, foreign
<1>7. original_offset' <= Size
  BY <1>1, <1>2, <1>6, SMT
<1>8. ~(Len(disk'.data) > Size)
  BY <1>1, <1>2, <1>4, <1>5, SMT
<1>. QED
  BY <1>1, <1>7, <1>8 DEF Fits

LEMMA WriteFits ==
    ASSUME Usual, Short, TypeOK, FInv, Fits,
           NEW k \in 1 .. Size + StaleSize + PageSize, Write(k)
    PROVE  Fits'
<1>. SUFFICES ASSUME request.resume PROVE Fits'
  BY DEF Fits, Write
<1>. DEFINE b == SubSeq(reply.bytes, 1, k)
            q == from + received
<1>1. k \in Nat \ {0} /\ Size \in Nat /\ StaleSize \in Nat
  BY ConstantsAssumption, SMT
<1>2. /\ state = "RUNNING" /\ state' = "RUNNING" /\ k <= Len(reply.bytes)
      /\ disk' = [disk EXCEPT !.data = Overwrite(@, pos, InRange(b))]
      /\ received' = received + k
      /\ reply' = [reply EXCEPT !.bytes = SubSeq(@, k + 1, Len(@))]
      /\ UNCHANGED <<request, original_offset>>
  BY DEF Write, targetVars
<1>3. q \in Nat /\ pos \in Nat /\ received \in Nat /\ from \in Nat
  BY SMT DEF TypeOK
<1>4. b \in Seq(Bytes) /\ Len(b) = k /\ q + k <= LengthOf(reply.kind)
  <2>1. Sends(reply, from, q)
    BY <1>2 DEF FInv, Replied, Attempted
  <2>. HIDE DEF q
  <2>2. /\ b \in Seq(Bytes) /\ Len(b) = k
        /\ \A i \in 1 .. k : b[i] = ByteOf(reply.kind, q + i)
        /\ q + k <= LengthOf(reply.kind)
        /\ Sends([reply EXCEPT !.bytes = SubSeq(@, k + 1, Len(@))], from, q + k)
    BY <1>1, <1>2, <1>3, <2>1, BlockSends
  <2>. QED
    BY <2>2
<1>5. InRange(b) = b
  BY UsualRequest DEF InRange
<1>6. disk'.data = Overwrite(disk.data, pos, b) /\ reply'.kind = reply.kind
  BY <1>2, <1>5 DEF TypeOK, File, Reply
<1>7. pos = q /\ pos <= Len(disk.data)
  BY <1>2 DEF FInv, Resumed, Attempted
<1>8. disk.data \in Seq(Bytes) /\ Len(disk.data) \in Nat
  BY DiskType DEF TypeOK
<1>. HIDE DEF b
<1>9. Len(disk'.data) = IF pos + k > Len(disk.data) THEN pos + k ELSE Len(disk.data)
  BY <1>3, <1>4, <1>6, <1>7, <1>8, OverwriteProperties
<1>10. ASSUME reply.kind # "page" PROVE ~(Len(disk'.data) > Size)
  <2>1. ~(Len(disk.data) > Size)
    BY <1>10 DEF Fits
  <2>2. LengthOf(reply.kind) <= Size
    <3>1. LengthOf(reply.kind) \in {Size, StaleSize, 0}
      BY <1>10 DEF LengthOf
    <3>. QED
      BY <1>1, <3>1, SMT DEF Short
  <2>3. LengthOf(reply.kind) \in Nat
    BY LengthOfType
  <2>. QED
    BY <1>1, <1>3, <1>4, <1>7, <1>8, <1>9, <2>1, <2>2, <2>3, SMT
<1>11. received' > 0
  BY <1>1, <1>2, <1>3, SMT
<1>. QED
  BY <1>2, <1>6, <1>10, <1>11 DEF Fits, Attempted

LEMMA RetryFits ==
    ASSUME Usual, TypeOK, FInv, Fits, NEW e \in Errors, Retry(e)
    PROVE  Fits'
<1>. SUFFICES ASSUME request.resume PROVE Fits'
  BY DEF Fits, Retry
<1>. DEFINE n == IF original_offset > -1 THEN original_offset ELSE 0
<1>1. /\ state = "RUNNING" /\ state' = "WAITING" /\ request' = request /\ Error(e)
      /\ IF Keeps(e) THEN original_offset' = -1 /\ disk' = disk
         ELSE /\ disk' = [disk EXCEPT !.data = Resized(disk.data, n)]
              /\ original_offset' = original_offset
  BY DEF Retry, Error
<1>2. Size \in Nat /\ original_offset <= Size
  BY <1>1, ConstantsAssumption DEF Fits
<1>3. n \in Nat /\ n <= Size
  BY <1>2, SMT DEF TypeOK
<1>4. CASE Keeps(e)
  <2>1. e = "curl" /\ ~CutDirty
    BY <1>4, UsualRequest DEF Keeps
  <2>2. reply.ending = "ok"
    BY <1>1, <2>1 DEF Error
  <2>3. reply.kind # "page"
    BY <1>1, <2>2 DEF FInv, Replied, Attempted, Sends
  <2>4. -1 <= Size
    BY <1>2, SMT
  <2>. QED
    BY <1>1, <1>4, <2>3, <2>4 DEF Fits
<1>5. CASE ~Keeps(e)
  <2>1. Len(Resized(disk.data, n)) = n
    <3>1. disk.data \in Seq(Bytes)
      BY DiskType DEF TypeOK
    <3>. HIDE DEF n
    <3>. QED
      BY <1>3, <3>1, ResizedProperties
  <2>. HIDE DEF n
  <2>2. disk'.data = Resized(disk.data, n)
    BY <1>1, <1>5 DEF TypeOK, File
  <2>3. ~(Len(disk'.data) > Size)
    BY <1>2, <1>3, <2>1, <2>2, SMT
  <2>. QED
    BY <1>1, <1>2, <1>5, <2>3 DEF Fits
<1>. QED
  BY <1>4, <1>5

LEMMA RestFits ==
    ASSUME Usual, TypeOK, FInv, FInv', Fits,
           Finish \/ (\E e \in Errors : Fail(e)) \/ Return \/ Crash
    PROVE  Fits'
<1>. SUFFICES ASSUME request.resume PROVE Fits'
  BY DEF Fits, Finish, Fail, Return, Crash
<1>1. CASE Finish \/ \E e \in Errors : Fail(e)
  <2>1. /\ state = "RUNNING" /\ state' \in {"FINISHED", "FAILED"}
        /\ UNCHANGED <<request, targetVars, transferVars>>
        /\ disk' = disk \/ disk' = [disk EXCEPT !.mark = FALSE]
    BY <1>1 DEF Finish, Fail, Error
  <2>2. disk'.data = disk.data
    BY <2>1 DEF TypeOK, File
  <2>. QED
    BY <2>1, <2>2 DEF Fits, Attempted, targetVars, transferVars
<1>2. CASE Return \/ Crash
  <2>1. state' = "none" /\ request' = request /\ (disk' = disk \/ disk' = NoFile)
    BY <1>2 DEF Return, Crash
  <2>2. CASE disk' = NoFile
    <3>1. Len(<<>>) = 0 /\ disk'.data = <<>>
      BY <2>2, EmptySeq DEF NoFile
    <3>2. ~(Len(disk'.data) > Size)
      BY <3>1, ConstantsAssumption, SMT
    <3>. QED
      BY <2>1, <3>2 DEF Fits
  <2>3. CASE disk' = disk
    <3>1. SUFFICES ASSUME Len(disk.data) > Size PROVE FALSE
      BY <2>1, <2>3 DEF Fits
    <3>2. disk.data[1] = Page
      BY <3>1 DEF Fits, FInv, Resumed
    <3>3. \A i \in DOMAIN disk.data : disk.data[i] \in {i, Stale}
      BY <2>1, <2>3 DEF FInv, Resumed, Clean
    <3>4. 1 \in DOMAIN disk.data
      <4>1. Len(disk.data) \in Nat /\ DOMAIN disk.data = 1 .. Len(disk.data)
        BY DiskType DEF TypeOK
      <4>. QED
        BY <3>1, <4>1, ConstantsAssumption, SMT
    <3>. QED
      BY <3>2, <3>3, <3>4, SMT DEF Page, Stale
  <2>. QED
    BY <2>1, <2>2, <2>3
<1>. QED
  BY <1>1, <1>2

LEMMA StepFits == Usual /\ Short /\ TypeOK /\ FInv /\ FInv' /\ Fits /\ [Next]_vars => Fits'
<1>. SUFFICES ASSUME Usual, Short, TypeOK, FInv, FInv', Fits, [Next]_vars PROVE Fits'
  OBVIOUS
<1>1. CASE UNCHANGED vars \/ Over
  BY <1>1 DEF Over, Fits, Attempted, vars, targetVars, transferVars
<1>. QED
  BY <1>1, CallFits, OpenFits, WriteFits, RetryFits, RestFits DEF Next

\* What was sent as the whole target from its start is a success.
LEMMA GoodIsAccepted ==
    ASSUME Usual, Short, TypeOK, FInv, Fits, state = "RUNNING", reply.kind = "full",
           Sent, from = request.start
    PROVE  TransferOK /\ disk.data = Wanted
<1>1. Attempted
  BY DEF Attempted
<1>2. from < Size
  <2>1. PICK c \in Cases : request = c.request
    BY DEF TypeOK
  <2>. QED
    BY <2>1 DEF Short
<1>3. reply.ending = "ok"
  BY <1>1, <1>2 DEF FInv, Replied, Sends, LengthOf
<1>4. TransferOK
  BY <1>3 DEF TransferOK
<1>5. CASE ~request.resume
  BY <1>1, <1>4, <1>5, FreshIsExact
<1>6. CASE request.resume
  <2>1. /\ from = 0 /\ from \in Nat /\ received \in Nat /\ pos \in Nat /\ Size \in Nat
        /\ Len(disk.data) \in Nat
    BY <1>6, UsualRequest, DiskType, ConstantsAssumption DEF TypeOK
  <2>2. /\ pos = from + received /\ pos <= Len(disk.data)
        /\ \A i \in from + 1 .. pos : disk.data[i] = i
    BY <1>1, <1>6 DEF FInv, Resumed
  <2>3. from + received >= Size
    BY <1>1, <1>4, <1>6, FinishedIsNoPage DEF LengthOf
  <2>4. Len(disk.data) <= Size
    BY <1>6, <2>1, SMT DEF Fits
  <2>5. Len(disk.data) = Size
    BY <2>1, <2>2, <2>3, <2>4, SMT
  <2>6. \A i \in 1 .. Size : i \in from + 1 .. pos
    BY <2>1, <2>2, <2>3, SMT
  <2>. QED
    BY <1>4, <1>6, <2>2, <2>5, <2>6, ResumedIsExact
<1>. QED
  BY <1>4, <1>5, <1>6

LEMMA GoodStep ==
    Usual /\ Short /\ TypeOK /\ FInv /\ Fits /\ [Next]_vars =>
        [state = "RUNNING" /\ reply.kind = "full" /\ Sent /\ from = request.start
             => state' \in {"RUNNING", "FINISHED", "none"}]_vars
<1>. SUFFICES ASSUME Usual, Short, TypeOK, FInv, Fits, Next, state = "RUNNING",
                     reply.kind = "full", Sent, from = request.start
              PROVE  state' \in {"RUNNING", "FINISHED", "none"}
  OBVIOUS
<1>1. TransferOK /\ ChecksumOK
  BY GoodIsAccepted DEF ChecksumOK
<1>2. ASSUME NEW e \in Errors PROVE ~Error(e)
  <2>1. CASE e = "checksum"
    BY <1>1, <2>1 DEF Error
  <2>2. CASE e = "curl"
    BY <2>2 DEF Error
  <2>3. CASE e \notin {"checksum", "curl"}
    <3>1. e # "ok"
      BY DEF Errors
    <3>. QED
      BY <1>1, <2>3, <3>1 DEF Error, TransferOK
  <2>. QED
    BY <2>1, <2>2, <2>3
<1>3. \A e \in Errors : ~Retry(e) /\ ~Fail(e)
  BY <1>2 DEF Retry, Fail
<1>. QED
  BY <1>3 DEF Next, Call, Open, Finish, Return, Crash, Over, Write, vars

\* GoodTransferAccepted holds for the usual requests when no outdated file is longer than
\* the target: what is sent whole and from the start is never refused for what was in the
\* file before.
THEOREM GoodTransferAcceptedHolds ==
    ASSUME Usual, Short PROVE Spec => GoodTransferAccepted
<1>1. Init => Fits
  BY InitFits
<1>2. (TypeOK /\ FInv) /\ (TypeOK /\ FInv)' /\ Fits /\ [Next]_vars => Fits'
  BY StepFits
<1>3. (TypeOK /\ FInv) /\ Fits /\ [Next]_vars =>
          [state = "RUNNING" /\ reply.kind = "full" /\ Sent /\ from = request.start
               => state' \in {"RUNNING", "FINISHED", "none"}]_vars
  BY GoodStep
<1>4. Spec => [](TypeOK /\ FInv)
  BY Invariance
<1>. QED
  BY <1>1, <1>2, <1>3, <1>4, PTL DEF Spec, GoodTransferAccepted
===============================================================================
