------------------------ MODULE PackageDownloaderProofs ------------------------
(***************************************************************************)
(* Theorems about PackageDownloader, and Handle, which it extends, for any *)
(* packages, files, URLs and lists of mirrors, and any number of calls,    *)
(* changes of options and signals.                                         *)
(***************************************************************************)
EXTENDS PackageDownloader, SequenceTheorems, WellFoundedInduction, TLAPS

(* The inductive invariant of the handle.  What was made of an option      *)
(* agrees with the option or is gone; between the steps of a preparation   *)
(* only the mirrors of the URLs are known to be there.                     *)

Pairs(s) == [i \in DOMAIN s |-> <<s[i].source, s[i].from>>]
UrlPairs == [i \in DOMAIN UpToLost |-> <<"urls", UpToLost[i]>>]
AllUrls  == UNION {Range(v) : v \in UrlLists}

ListFits(l) == mirrors[l] # <<>> => /\ fd[l] = "open"
                                    /\ opt[l] # NULL => Pairs(mirrors[l]) = <<<<l, opt[l]>>>>

HandleInv ==
    /\ opt \in Options
    /\ mirrors \in [Sources -> Seq(Mirror)]
    /\ fd \in [Lists -> {NULL, "open", "closed"}]
    /\ internal \in Seq(Mirror)
    /\ \A l \in Lists : ListFits(l)
    /\ mirrors["urls"] # <<>> => Pairs(mirrors["urls"]) = UrlPairs
    /\ pc \in {"mirrorlist", "metalink", "join"} => Pairs(mirrors["urls"]) = UrlPairs
    /\ PreparedFromOptions
-------------------------------------------------------------------------------
(* Lemmas on the operators.                                                *)

\* A set of natural numbers has a least one.
LEMMA LeastOf ==
    ASSUME NEW S, S \subseteq Nat, S # {}
    PROVE  \E m \in S : \A n \in S : m <= n
<1> DEFINE R == OpToRel(<, Nat)
<1>1. IsWellFoundedOn(R, Nat)
  BY NatLessThanWellFounded
<1>2. \A x, y \in Nat : x < y => <<x, y>> \in R
  BY DEF OpToRel
<1> HIDE DEF R
<1>3. PICK m \in S : \A n \in S : <<n, m>> \notin R
  BY <1>1, WFMin, Zenon
<1>4. ASSUME NEW n \in S PROVE m <= n
  <2>1. m \in Nat /\ n \in Nat /\ ~(n < m)
    BY <1>2, <1>3
  <2> QED
    BY <2>1
<1> QED
  BY <1>4

\* The URLs up to the first one without a path are URLs.
LEMMA UpToLostIsSeq ==
    ASSUME opt \in Options
    PROVE  /\ opt.urls \in Seq(AllUrls)
           /\ UpToLost \in Seq(AllUrls)
           /\ opt.urls = <<>> => Len(UpToLost) = 0
<1>1. opt.urls \in Seq(AllUrls)
  <2>1. \A u \in UrlLists : u \in Seq(AllUrls)
    BY HandleAssumption, Zenon DEF HandleAssumption, AllUrls
  <2>2. opt.urls \in UrlLists \cup {<<>>}
    BY DEF Options
  <2>3. <<>> \in Seq(AllUrls)
    BY EmptySeq
  <2> QED
    BY <2>1, <2>2, <2>3
<1> DEFINE lost == {i \in DOMAIN opt.urls : opt.urls[i] \in LostUrls}
           first == CHOOSE i \in lost : \A j \in lost : i <= j
           k == IF lost = {} THEN Len(opt.urls) ELSE first - 1
<1>2. k \in 0 .. Len(opt.urls)
  <2>1. CASE lost = {}
    BY <1>1, <2>1
  <2>2. CASE lost # {}
    <3>1. lost \subseteq 1 .. Len(opt.urls)
      BY <1>1
    <3>0. lost \subseteq Nat
      BY <3>1
    <3>2. \E i \in lost : \A j \in lost : i <= j
      BY <2>2, <3>0, LeastOf
    <3>3. first \in lost
      BY <3>2
    <3>4. first \in 1 .. Len(opt.urls) /\ k = first - 1
      BY <2>2, <3>1, <3>3
    <3> HIDE DEF first, k, lost
    <3> QED
      BY <1>1, <3>4
  <2> QED
    BY <2>1, <2>2
<1>3. UpToLost = SubSeq(opt.urls, 1, k)
  BY DEF UpToLost
<1> HIDE DEF k
<1>4. UpToLost \in Seq(AllUrls) /\ Len(UpToLost) = k
  BY <1>1, <1>2, <1>3
<1>5. opt.urls = <<>> => k = 0
  BY <1>2
<1> QED
  BY <1>1, <1>4, <1>5

LEMMA PairsConcat ==
    ASSUME NEW s \in Seq(Mirror), NEW t \in Seq(Mirror)
    PROVE  Pairs(s \o t) = Pairs(s) \o Pairs(t)
<1> DEFINE P == {<<m.source, m.from>> : m \in Mirror}
<1>1. ASSUME NEW r \in Seq(Mirror)
      PROVE  /\ Pairs(r) \in Seq(P) /\ Len(Pairs(r)) = Len(r)
             /\ \A i \in 1 .. Len(r) : Pairs(r)[i] = <<r[i].source, r[i].from>>
  <2>1. Pairs(r) = [i \in 1 .. Len(r) |-> <<r[i].source, r[i].from>>]
    BY DEF Pairs
  <2>2. \A i \in 1 .. Len(r) : <<r[i].source, r[i].from>> \in P
    OBVIOUS
  <2> HIDE DEF P
  <2> QED
    BY <2>1, <2>2
<1> HIDE DEF P
<1>2. /\ s \o t \in Seq(Mirror) /\ Len(s \o t) = Len(s) + Len(t)
      /\ \A i \in 1 .. Len(s) + Len(t) : (s \o t)[i] = IF i <= Len(s) THEN s[i] ELSE t[i - Len(s)]
  OBVIOUS
<1>3. /\ Pairs(s) \o Pairs(t) \in Seq(P) /\ Len(Pairs(s) \o Pairs(t)) = Len(s) + Len(t)
      /\ \A i \in 1 .. Len(s) + Len(t) :
            (Pairs(s) \o Pairs(t))[i] = IF i <= Len(s) THEN Pairs(s)[i] ELSE Pairs(t)[i - Len(s)]
  <2> DEFINE ps == Pairs(s)
             pt == Pairs(t)
  <2>1. ps \in Seq(P) /\ pt \in Seq(P) /\ Len(ps) = Len(s) /\ Len(pt) = Len(t)
    BY <1>1
  <2> HIDE DEF ps, pt
  <2>2. /\ ps \o pt \in Seq(P) /\ Len(ps \o pt) = Len(ps) + Len(pt)
        /\ \A i \in 1 .. Len(ps) + Len(pt) :
              (ps \o pt)[i] = IF i <= Len(ps) THEN ps[i] ELSE pt[i - Len(ps)]
    BY <2>1
  <2>3. /\ ps \o pt \in Seq(P) /\ Len(ps \o pt) = Len(s) + Len(t)
        /\ \A i \in 1 .. Len(s) + Len(t) :
              (ps \o pt)[i] = IF i <= Len(s) THEN ps[i] ELSE pt[i - Len(s)]
    BY <2>1, <2>2
  <2> QED
    BY <2>3 DEF ps, pt
<1>4. /\ Pairs(s \o t) \in Seq(P) /\ Len(Pairs(s \o t)) = Len(s) + Len(t)
  BY <1>1, <1>2
<1>5. \A i \in 1 .. Len(s) + Len(t) : Pairs(s \o t)[i] = (Pairs(s) \o Pairs(t))[i]
  <2> SUFFICES ASSUME NEW i \in 1 .. Len(s) + Len(t)
               PROVE  Pairs(s \o t)[i] = (Pairs(s) \o Pairs(t))[i]
    OBVIOUS
  <2>1. Pairs(s \o t)[i] = <<(s \o t)[i].source, (s \o t)[i].from>>
    BY <1>1, <1>2
  <2>2. CASE i <= Len(s)
    BY <1>1, <1>2, <1>3, <2>1, <2>2
  <2>3. CASE ~(i <= Len(s))
    <3>1. i - Len(s) \in 1 .. Len(t)
      BY <2>3
    <3> QED
      BY <1>1, <1>2, <1>3, <2>1, <2>3, <3>1
  <2> QED
    BY <2>2, <2>3
<1> QED
  BY <1>3, <1>4, <1>5, SeqEqual

LEMMA PairsEmpty == Pairs(<<>>) = <<>>
BY DEF Pairs

LEMMA PairsOne == ASSUME NEW m PROVE Pairs(<<m>>) = <<<<m.source, m.from>>>>
BY DEF Pairs

\* What the URLs are worth depends on LRO_URLS alone.
LEMMA UrlPairsKept == opt'.urls = opt.urls => UrlPairs' = UrlPairs
BY DEF UrlPairs, UpToLost

\* A joined list stays right as long as the options it was made of.
LEMMA PreparedKept ==
    ASSUME PreparedFromOptions, internal' \in {internal, <<>>},
           internal' # <<>> => /\ opt'.urls = opt.urls
                               /\ \A l \in Lists : opt'[l] = opt[l]
    PROVE  PreparedFromOptions'
<1>1. CASE internal' = <<>>
  BY <1>1 DEF PreparedFromOptions
<1>2. CASE internal' # <<>>
  <2>1. internal' = internal /\ opt'.urls = opt.urls /\ \A l \in Lists : opt'[l] = opt[l]
    BY <1>2
  <2>2. opt'["mirrorlist"] = opt["mirrorlist"] /\ opt'["metalink"] = opt["metalink"]
    BY <2>1 DEF Lists
  <2>3. UpToLost' = UpToLost
    BY <2>1 DEF UpToLost
  <2>4. {l \in Lists : opt'[l] # NULL} = {l \in Lists : opt[l] # NULL}
    BY <2>1
  <2> QED
    BY <1>2, <2>1, <2>2, <2>3, <2>4 DEF PreparedFromOptions
<1> QED
  BY <1>1, <1>2

\* The joined list of right lists is right.
LEMMA JoinedIsRight ==
    ASSUME HandleInv, pc = "join", internal' = Joined, UNCHANGED <<opt, mirrors>>
    PROVE  internal' \in Seq(Mirror) /\ PreparedFromOptions'
<1> DEFINE a == IF opt.mirrorlist # NULL THEN mirrors["mirrorlist"] ELSE <<>>
           b == IF opt.metalink # NULL THEN mirrors["metalink"] ELSE <<>>
           c == mirrors["urls"]
           used == {l \in Lists : opt[l] # NULL /\ mirrors[l] # <<>>}
           pa == IF "mirrorlist" \in used THEN <<<<"mirrorlist", opt.mirrorlist>>>> ELSE <<>>
           pb == IF "metalink" \in used THEN <<<<"metalink", opt.metalink>>>> ELSE <<>>
<1>1. a \in Seq(Mirror) /\ b \in Seq(Mirror) /\ c \in Seq(Mirror)
  BY DEF HandleInv, Sources, Lists
<1>2. Pairs(a) = pa
  BY PairsEmpty DEF HandleInv, ListFits, Lists
<1>3. Pairs(b) = pb
  BY PairsEmpty DEF HandleInv, ListFits, Lists
<1>4. Pairs(c) = UrlPairs
  BY DEF HandleInv
<1>5. Joined = (a \o b) \o c
  BY DEF Joined
<1> HIDE DEF a, b, c, pa, pb
<1>6. a \o b \in Seq(Mirror) /\ (a \o b) \o c \in Seq(Mirror)
  BY <1>1
<1>7. Pairs((a \o b) \o c) = (pa \o pb) \o UrlPairs
  <2>1. Pairs(a \o b) = pa \o pb
    BY <1>1, <1>2, <1>3, PairsConcat
  <2>2. Pairs((a \o b) \o c) = Pairs(a \o b) \o Pairs(c)
    BY <1>1, <1>6, PairsConcat
  <2> QED
    BY <2>1, <2>2, <1>4
<1>8. UpToLost' = UpToLost
  BY DEF UpToLost
<1>9. Pairs(internal') = (pa \o pb) \o UrlPairs
  BY <1>5, <1>7
<1>10. used \in SUBSET {l \in Lists : opt'[l] # NULL}
  OBVIOUS
<1> QED
  BY <1>5, <1>6, <1>8, <1>9, <1>10 DEF PreparedFromOptions, Pairs, UrlPairs, pa, pb
-------------------------------------------------------------------------------
(* The steps of the handle.                                                *)

\* Steps that change neither options nor lists, and do not enter the loops.
LEMMA QuietKeeps ==
    ASSUME HandleInv, UNCHANGED <<opt, mirrors, fd, internal>>,
           pc' \in {"mirrorlist", "metalink", "join"} => pc' = pc
    PROVE  HandleInv'
<1>1. PreparedFromOptions'
  BY PreparedKept DEF HandleInv
<1>2. UrlPairs' = UrlPairs
  BY UrlPairsKept
<1> QED
  BY <1>1, <1>2 DEF HandleInv, ListFits

\* A changed option takes with it what was made of it.
LEMMA ChangeKeeps ==
    ASSUME HandleInv, opt' \in Options, pc' = "idle",
           NEW changed \in SUBSET Sources, SourcesChanged(changed),
           "urls" \notin changed => opt'.urls = opt.urls,
           \A l \in Lists \ changed : opt'[l] = opt[l]
    PROVE  HandleInv'
<1>1. /\ internal' = <<>>
      /\ mirrors' = [s \in Sources |-> IF s \in changed THEN <<>> ELSE mirrors[s]]
      /\ fd' = [l \in Lists |-> IF l \in changed THEN NULL ELSE fd[l]]
  BY DEF SourcesChanged
<1>2. PreparedFromOptions'
  BY <1>1 DEF PreparedFromOptions
<1>3. mirrors' \in [Sources -> Seq(Mirror)] /\ internal' \in Seq(Mirror)
  BY <1>1 DEF HandleInv
<1>4. fd' \in [Lists -> {NULL, "open", "closed"}]
  BY <1>1 DEF HandleInv
<1>5. ASSUME NEW l \in Lists PROVE ListFits(l)'
  <2>1. l \in Sources /\ ListFits(l)
    BY DEF HandleInv, Sources
  <2> QED
    BY <1>1, <2>1 DEF ListFits
<1>6. mirrors'["urls"] # <<>> => Pairs(mirrors'["urls"]) = UrlPairs'
  BY <1>1, UrlPairsKept DEF HandleInv, Sources
<1> QED
  BY <1>2, <1>3, <1>4, <1>5, <1>6 DEF HandleInv

LEMMA SetOptKeeps == HandleInv /\ SetOpt => HandleInv'
<1> SUFFICES ASSUME HandleInv, SetOpt PROVE HandleInv'
  OBVIOUS
<1>0. opt \in Options
  BY DEF HandleInv
<1>1. ASSUME NEW u \in UrlLists \cup {<<>>}, SetUrls(u) PROVE HandleInv'
  <2>1. opt' = [opt EXCEPT !["urls"] = u] /\ pc' = "idle" /\ SourcesChanged({"urls"})
    BY <1>1 DEF SetUrls, SetOption
  <2>2. opt' \in Options /\ \A l \in Lists : opt'[l] = opt[l]
    BY <1>0, <2>1 DEF Options, Lists
  <2>3. {"urls"} \in SUBSET Sources
    BY DEF Sources
  <2> QED
    BY <2>1, <2>2, <2>3, ChangeKeeps
<1>2. ASSUME NEW list \in Lists, NEW u \in ListUrls \cup {NULL}, SetListUrl(list, u)
      PROVE  HandleInv'
  <2>1. opt' = [opt EXCEPT ![list] = u] /\ pc' = "idle" /\ SourcesChanged({list})
    BY <1>2 DEF SetListUrl, SetOption
  <2>2. opt' \in Options /\ opt'.urls = opt.urls /\ \A l \in Lists \ {list} : opt'[l] = opt[l]
    <3>1. CASE list = "mirrorlist"
      BY <1>0, <2>1, <3>1 DEF Options, Lists
    <3>2. CASE list = "metalink"
      BY <1>0, <2>1, <3>2 DEF Options, Lists
    <3> QED
      BY <3>1, <3>2 DEF Lists
  <2>3. {list} \in SUBSET Sources
    BY DEF Sources
  <2> QED
    BY <2>1, <2>2, <2>3, ChangeKeeps
<1>3. ASSUME NEW list \in Lists, NEW u \in ListUrls, SetMirrorlist(list, u)
      PROVE  HandleInv'
  <2>1. /\ opt' = [opt EXCEPT !.mirrorlist = IF list = "mirrorlist" THEN u ELSE NULL,
                              !.metalink = IF list = "metalink" THEN u ELSE NULL]
        /\ pc' = "idle" /\ SourcesChanged(Lists)
    BY <1>3 DEF SetMirrorlist
  <2>2. opt' \in Options /\ opt'.urls = opt.urls
    BY <1>0, <2>1 DEF Options
  <2>3. Lists \in SUBSET Sources
    BY DEF Sources
  <2> QED
    BY <2>1, <2>2, <2>3, ChangeKeeps
<1>4. ASSUME NEW n \in {"local", "offline"}, NEW b \in BOOLEAN, SetReach(n, b)
      PROVE  HandleInv'
  <2>1. opt' = [opt EXCEPT ![n] = b] /\ pc' = "idle" /\ SourcesChanged({})
    BY <1>4 DEF SetReach, SetOption
  <2>2. opt' \in Options /\ opt'.urls = opt.urls /\ \A l \in Lists : opt'[l] = opt[l]
    <3>1. CASE n = "local"
      BY <1>0, <2>1, <3>1 DEF Options, Lists
    <3>2. CASE n = "offline"
      BY <1>0, <2>1, <3>2 DEF Options, Lists
    <3> QED
      BY <3>1, <3>2
  <2> QED
    BY <2>1, <2>2, ChangeKeeps
<1>5. ASSUME opt' \in Options, opt'.urls = opt.urls, \A l \in Lists : opt'[l] = opt[l],
             pc' = "idle", UNCHANGED listVars
      PROVE  HandleInv'
  <2>1. PreparedFromOptions'
    BY <1>5, PreparedKept DEF HandleInv, listVars
  <2>2. UrlPairs' = UrlPairs
    BY <1>5, UrlPairsKept
  <2> QED
    BY <1>5, <2>1, <2>2 DEF HandleInv, ListFits, listVars
<1>6. ASSUME NEW v \in VarLists, SetPlain("vars", v) PROVE HandleInv'
  <2>1. opt' = [opt EXCEPT !["vars"] = v] /\ pc' = "idle" /\ UNCHANGED listVars
    BY <1>6 DEF SetPlain, SetOption
  <2>2. opt' \in Options /\ opt'.urls = opt.urls /\ \A l \in Lists : opt'[l] = opt[l]
    BY <1>0, <2>1 DEF Options, Lists
  <2> QED
    BY <1>5, <2>1, <2>2
<1>7. ASSUME NEW n \in {"fetchmirrors", "interruptible"}, SetPlain(n, ~opt[n])
      PROVE  HandleInv'
  <2>1. opt' = [opt EXCEPT ![n] = ~opt[n]] /\ pc' = "idle" /\ UNCHANGED listVars
    BY <1>7 DEF SetPlain, SetOption
  <2>2. opt' \in Options /\ opt'.urls = opt.urls /\ \A l \in Lists : opt'[l] = opt[l]
    <3>1. CASE n = "fetchmirrors"
      BY <1>0, <2>1, <3>1 DEF Options, Lists
    <3>2. CASE n = "interruptible"
      BY <1>0, <2>1, <3>2 DEF Options, Lists
    <3> QED
      BY <3>1, <3>2
  <2> QED
    BY <1>5, <2>1, <2>2
<1> QED
  BY <1>1, <1>2, <1>3, <1>4, <1>6, <1>7 DEF SetOpt

LEMMA RenewKeeps == HandleInv /\ Renew => HandleInv'
<1> SUFFICES ASSUME HandleInv, Renew PROVE HandleInv'
  OBVIOUS
<1>1. /\ opt' = opt /\ pc' = pc /\ pc = "idle" /\ internal' = <<>>
      /\ mirrors' = [s \in Sources |-> <<>>] /\ fd' = [l \in Lists |-> NULL]
  BY DEF Renew, NewLists, NoFds
<1>2. PreparedFromOptions'
  BY <1>1 DEF PreparedFromOptions
<1>3. mirrors' \in [Sources -> Seq(Mirror)] /\ internal' \in Seq(Mirror)
  BY <1>1
<1>4. \A l \in Lists : ListFits(l)'
  BY <1>1 DEF ListFits, Sources
<1> QED
  BY <1>1, <1>2, <1>3, <1>4 DEF HandleInv, Sources

LEMMA ProvideKeeps ==
    ASSUME HandleInv, NEW list \in Lists, Provide(list)
    PROVE  HandleInv'
<1>1. /\ UNCHANGED <<opt, mirrors, internal, pc>> /\ mirrors[list] = <<>>
      /\ fd' = [fd EXCEPT ![list] = "open"]
  BY DEF Provide, optionVars
<1>2. PreparedFromOptions'
  BY <1>1, PreparedKept DEF HandleInv
<1>3. UrlPairs' = UrlPairs
  BY <1>1, UrlPairsKept
<1>4. \A l \in Lists : ListFits(l)'
  BY <1>1 DEF HandleInv, ListFits
<1> QED
  BY <1>1, <1>2, <1>3, <1>4 DEF HandleInv

LEMMA PrepareUrlsKeeps == HandleInv /\ PrepareUrls => HandleInv'
<1> SUFFICES ASSUME HandleInv, PrepareUrls PROVE HandleInv'
  OBVIOUS
<1>1. UNCHANGED <<opt, fd, internal>> /\ pc' = "mirrorlist"
  BY DEF PrepareUrls, optionVars
<1>2. PreparedFromOptions'
  BY <1>1, PreparedKept DEF HandleInv
<1>3. UrlPairs' = UrlPairs
  BY <1>1, UrlPairsKept
<1>4. /\ opt.urls \in Seq(AllUrls) /\ UpToLost \in Seq(AllUrls)
      /\ opt.urls = <<>> => Len(UpToLost) = 0
  BY UpToLostIsSeq DEF HandleInv
<1>5. CASE mirrors["urls"] = <<>> /\ opt.urls # <<>>
  <2> DEFINE made == [i \in DOMAIN UpToLost |-> Substituted("urls", UpToLost[i])]
  <2>1. mirrors' = [mirrors EXCEPT !["urls"] = made]
    BY <1>5 DEF PrepareUrls
  <2>2. \A u \in AllUrls : Substituted("urls", u) \in Mirror
    BY DEF Substituted, Mirror, Sources, AllUrls, HandleInv, Options
  <2>3. made \in Seq(Mirror)
    BY <1>4, <2>2
  <2>4. Pairs(made) = UrlPairs
    BY DEF Pairs, UrlPairs, Substituted
  <2> HIDE DEF made
  <2>5. mirrors' \in [Sources -> Seq(Mirror)] /\ mirrors'["urls"] = made
        /\ \A l \in Lists : mirrors'[l] = mirrors[l]
    BY <2>1, <2>3 DEF HandleInv, Sources, Lists
  <2>6. \A l \in Lists : ListFits(l)'
    BY <1>1, <2>5 DEF HandleInv, ListFits
  <2> QED
    BY <1>1, <1>2, <1>3, <2>4, <2>5, <2>6 DEF HandleInv
<1>6. CASE ~(mirrors["urls"] = <<>> /\ opt.urls # <<>>)
  <2>1. mirrors' = mirrors
    BY <1>6 DEF PrepareUrls
  <2>2. Pairs(mirrors["urls"]) = UrlPairs
    <3>1. CASE mirrors["urls"] # <<>>
      BY <3>1 DEF HandleInv
    <3>2. CASE mirrors["urls"] = <<>>
      <4>1. DOMAIN UpToLost = {}
        BY <1>4, <1>6, <3>2
      <4>2. UrlPairs = <<>>
        BY <4>1 DEF UrlPairs
      <4> QED
        BY <3>2, <4>2, PairsEmpty
    <3> QED
      BY <3>1, <3>2
  <2>3. \A l \in Lists : ListFits(l)'
    BY <1>1, <2>1 DEF HandleInv, ListFits
  <2> QED
    BY <1>1, <1>2, <1>3, <2>1, <2>2, <2>3 DEF HandleInv
<1> QED
  BY <1>5, <1>6

LEMMA PrepareListKeeps ==
    ASSUME HandleInv, NEW list \in Lists, PrepareList(list)
    PROVE  HandleInv'
<1>1. /\ UNCHANGED <<opt, internal>> /\ pc = list
      /\ pc' \in {"metalink", "join"}
  BY DEF PrepareList, optionVars
<1>2. PreparedFromOptions'
  BY <1>1, PreparedKept DEF HandleInv
<1>3. UrlPairs' = UrlPairs
  BY <1>1, UrlPairsKept
<1>4. Pairs(mirrors["urls"]) = UrlPairs
  BY <1>1 DEF HandleInv, Lists
<1>5. CASE UNCHANGED <<mirrors, fd>>
  BY <1>1, <1>2, <1>3, <1>4, <1>5 DEF HandleInv, ListFits
<1>6. ASSUME mirrors[list] = <<>>, Unparsable(list) PROVE HandleInv'
  <2>1. mirrors' = mirrors /\ fd' \in [Lists -> {NULL, "open", "closed"}]
        /\ \A l \in Lists : fd'[l] # fd[l] => l = list
    BY <1>6 DEF Unparsable, HandleInv
  <2>2. \A l \in Lists : ListFits(l)'
    BY <1>1, <1>6, <2>1 DEF HandleInv, ListFits
  <2> QED
    BY <1>1, <1>2, <1>3, <1>4, <2>1, <2>2 DEF HandleInv
<1>7. ASSUME opt[list] # NULL \/ LocalPath # NULL, Parsed(list) PROVE HandleInv'
  <2> DEFINE from == IF opt[list] = NULL THEN LocalPath ELSE opt[list]
             made == Substituted(list, from)
  <2>1. mirrors' = [mirrors EXCEPT ![list] = <<made>>] /\ fd' = [fd EXCEPT ![list] = "open"]
    BY <1>7 DEF Parsed
  <2>2. opt[list] \in ListUrls \cup {NULL}
    BY DEF HandleInv, Options, Lists
  <2>3. from \in ListUrls \cup LocalUrls
    BY <1>7, <2>2 DEF LocalPath
  <2>4. opt.vars \in VarLists
    BY DEF HandleInv, Options
  <2> HIDE DEF from
  <2>5. made \in Mirror
    <3>1. list \in Sources
      BY DEF Sources
    <3>2. made = [source |-> list, from |-> from, vars |-> opt.vars]
      BY DEF Substituted
    <3> DEFINE all == (UNION {Range(u) : u \in UrlLists}) \cup ListUrls \cup LocalUrls
    <3>3. from \in all
      BY <2>3
    <3>4. Mirror = [source : Sources, from : all, vars : VarLists]
      BY DEF Mirror
    <3> HIDE DEF all
    <3> QED
      BY <2>4, <3>1, <3>2, <3>3, <3>4
  <2>6. Pairs(<<made>>) = <<<<list, from>>>>
    BY PairsOne DEF Substituted
  <2> HIDE DEF made
  <2>7. <<made>> \in Seq(Mirror)
    BY <2>5
  <2>8. mirrors' \in [Sources -> Seq(Mirror)] /\ fd' \in [Lists -> {NULL, "open", "closed"}]
    BY <2>1, <2>7 DEF HandleInv
  <2>9. ASSUME NEW l \in Lists PROVE ListFits(l)'
    <3>1. CASE l = list
      <4>1. mirrors'[l] = <<made>> /\ fd'[l] = "open"
        BY <2>1, <3>1 DEF HandleInv, Sources
      <4>2. opt'[l] # NULL => Pairs(mirrors'[l]) = <<<<l, opt'[l]>>>>
        BY <1>1, <2>6, <3>1, <4>1 DEF from
      <4> QED
        BY <4>1, <4>2 DEF ListFits
    <3>2. CASE l # list
      BY <1>1, <2>1, <3>2 DEF HandleInv, ListFits
    <3> QED
      BY <3>1, <3>2
  <2>10. mirrors'["urls"] = mirrors["urls"]
    BY <2>1 DEF HandleInv, Lists, Sources
  <2> QED
    BY <1>1, <1>2, <1>3, <1>4, <2>8, <2>9, <2>10 DEF HandleInv
<1> QED
  BY <1>5, <1>6, <1>7 DEF PrepareList, Unobtainable

LEMMA JoinKeeps == HandleInv /\ Join => HandleInv'
<1> SUFFICES ASSUME HandleInv, Join PROVE HandleInv'
  OBVIOUS
<1>1. UNCHANGED <<opt, mirrors, fd>> /\ pc = "join" /\ pc' = "prepared"
  BY DEF Join, optionVars
<1>2. UrlPairs' = UrlPairs
  BY <1>1, UrlPairsKept
<1>3. CASE internal' = internal
  BY <1>1, <1>3, QuietKeeps
<1>4. CASE internal' = Joined
  <2>1. internal' \in Seq(Mirror) /\ PreparedFromOptions'
    BY <1>1, <1>4, JoinedIsRight
  <2> QED
    BY <1>1, <1>2, <2>1 DEF HandleInv, ListFits
<1> QED
  BY <1>3, <1>4 DEF Join

LEMMA HandleInvInit == HandleInit => HandleInv
<1> SUFFICES ASSUME HandleInit PROVE HandleInv
  OBVIOUS
<1>1. opt \in Options
  BY DEF HandleInit, Options
<1>2. mirrors = [s \in Sources |-> <<>>] /\ fd = [l \in Lists |-> NULL] /\ internal = <<>>
      /\ pc = "idle"
  BY DEF HandleInit, NewLists, NoFds
<1>3. mirrors \in [Sources -> Seq(Mirror)] /\ internal \in Seq(Mirror)
  BY <1>2
<1>4. \A l \in Lists : ListFits(l)
  BY <1>2 DEF ListFits, Sources
<1> QED
  BY <1>1, <1>2, <1>3, <1>4 DEF HandleInv, PreparedFromOptions, Sources

LEMMA HandleInvKept == HandleInv /\ [Next]_vars => HandleInv'
<1> SUFFICES ASSUME HandleInv, [Next]_vars PROVE HandleInv'
  OBVIOUS
<1>1. CASE SetOpt
  BY <1>1, SetOptKeeps
<1>2. CASE Renew
  BY <1>2, RenewKeeps
<1>3. CASE \E l \in Lists : Provide(l) \/ PrepareList(l)
  BY <1>3, ProvideKeeps, PrepareListKeeps
<1>4. CASE PrepareUrls
  BY <1>4, PrepareUrlsKeeps
<1>5. CASE Join
  BY <1>5, JoinKeeps
<1>6. CASE \/ Perform \/ PerformUnprepared \/ PerformPrepared \/ YumPerform \/ PerformReturns
           \/ Sigint
  <2>1. UNCHANGED <<opt, mirrors, fd, internal>>
        /\ (pc' \in {"mirrorlist", "metalink", "join"} => pc' = pc)
    BY <1>6 DEF Perform, PerformUnprepared, PerformPrepared, YumPerform, PerformReturns, Sigint,
                EnterPrepare, RestoreHandler, optionVars, listVars
  <2> QED
    BY <2>1, QuietKeeps
<1>7. CASE \/ DownloadPackages \/ Examine \/ Queue \/ Sort \/ DownloadReturnsTrue \/ Cleanup
           \/ CheckPackages \/ CheckReturns \/ UNCHANGED vars
           \/ (\E p \in Packages, ok \in BOOLEAN : Decide(p, ok))
           \/ (\E S \in SUBSET Packages : DownloadReturnsFalse(S))
  <2>1. UNCHANGED <<opt, mirrors, fd, internal>>
        /\ (pc' \in {"mirrorlist", "metalink", "join"} => pc' = pc)
    BY <1>7 DEF DownloadPackages, Examine, Queue, Sort, DownloadReturnsTrue, Cleanup,
                CheckPackages, CheckReturns, Decide, DownloadReturnsFalse,
                EnterPrepare, RestoreHandler, optionVars, listVars, handleVars, vars
  <2> QED
    BY <2>1, QuietKeeps
<1> QED
  BY <1>1, <1>2, <1>3, <1>4, <1>5, <1>6, <1>7 DEF Next, HandleSteps, HandleNext, Finished
-------------------------------------------------------------------------------
(* The inductive invariant of the packages: how far each of them is at     *)
(* every place of lr_download_packages().                                  *)

Preparing == pc \in {"urls", "mirrorlist", "metalink", "join", "prepared"}
InLoop == pc = "examine" \/ (Preparing /\ caller = "packages")

ToCome(p)  == p \notin queue /\ ends[p] = <<>> /\ status[p] = "pending"
Already(p) == p \notin queue /\ ends[p] = <<"ALREADYEXISTS">> /\ err[p] = "already"
Waiting(p) == /\ p \in queue /\ ends[p] = <<>> /\ status[p] = "pending" /\ err[p] = "none"
Decided(p) == /\ p \in queue
              /\ \/ /\ ends[p] = <<"SUCCESSFUL">> /\ status[p] = "ok" /\ err[p] = "none"
                    /\ disk[p] = "package"
                 \/ ends[p] = <<"ERROR">> /\ status[p] = "failed"

Callers == /\ Preparing => caller \in {"perform", "packages"}
           /\ pc \in {"yum", "restore"} => caller = "perform"
           /\ pc \in {"examine", "download", "cleanup"} => caller = "packages"
           /\ pc = "checked" => caller = "check"

PackageInv ==
    /\ next \in 1 .. NumPackages + 1 /\ queue \subseteq Packages
    /\ DOMAIN ends = Packages /\ DOMAIN err = Packages
    /\ DOMAIN status = Packages /\ DOMAIN disk = Packages
    /\ Callers
    /\ InLoop => \A p \in Packages : IF p < next THEN Already(p) \/ Waiting(p) ELSE ToCome(p)
    /\ InLoop /\ pc # "examine" => next \in Packages /\ err[next] = "none"
    /\ pc = "download" => \A p \in Packages : Already(p) \/ Waiting(p) \/ Decided(p)
    /\ pc = "cleanup" /\ ret = "ok" => \A p \in Packages : Already(p) \/ Decided(p)
    /\ PackagesReported
    /\ "read" \notin PackageFaults => AlreadyMeansVerified

LEMMA PackageInvInit == Init => PackageInv
<1> SUFFICES ASSUME Init PROVE PackageInv
  OBVIOUS
<1>1. /\ pc = "idle" /\ caller = NULL /\ queue = {} /\ next = 1
      /\ ends = [p \in Packages |-> <<>>] /\ err = [p \in Packages |-> "none"]
      /\ DOMAIN status = Packages /\ DOMAIN disk = Packages
  BY DEF Init, HandleInit
<1>2. caller # "packages" /\ 1 \in 1 .. NumPackages + 1
  BY <1>1, HandleAssumption, PackageAssumption DEF HandleAssumption, PackageAssumption
<1> QED
  BY <1>1, <1>2 DEF PackageInv, Callers, Preparing, InLoop, PackagesReported, AlreadyMeansVerified

\* The handle's steps leave the packages alone; only a preparation for
\* lr_download_packages() goes on where it was.
LEMMA HandleStepsKeepPackages == PackageInv /\ HandleSteps => PackageInv'
<1> SUFFICES ASSUME PackageInv, HandleNext, UNCHANGED packageVars PROVE PackageInv'
  BY DEF HandleSteps
<1>1. UNCHANGED <<kind, disk, err, ends, resumed, queue, status, failfast, next>>
  BY DEF packageVars
<1>2. CASE UNCHANGED <<pc, caller, ret>>
  BY <1>1, <1>2 DEF PackageInv, Callers, Preparing, InLoop, ToCome, Already, Waiting, Decided,
                    PackagesReported, AlreadyMeansVerified
<1>3. CASE Preparing /\ Preparing' /\ caller' = caller
  BY <1>1, <1>3 DEF PackageInv, Callers, Preparing, InLoop, ToCome, Already, Waiting, Decided,
                    PackagesReported, AlreadyMeansVerified
<1>4. CASE caller' = "perform" /\ (Preparing' \/ pc' \in {"idle", "yum", "restore"})
  BY <1>1, <1>4 DEF PackageInv, Callers, Preparing, InLoop, ToCome, Already, Waiting, Decided,
                    PackagesReported, AlreadyMeansVerified
<1>5. CASE SetOpt \/ Renew \/ (\E l \in Lists : Provide(l)) \/ Sigint
  <2>1. UNCHANGED <<pc, caller, ret>>
    BY <1>5 DEF SetOpt, SetUrls, SetListUrl, SetMirrorlist, SetReach, SetPlain, SetOption, Renew,
                Provide, Sigint
  <2> QED
    BY <1>2, <2>1
<1>6. CASE PrepareUrls \/ (\E l \in Lists : PrepareList(l)) \/ Join
  <2>1. Preparing /\ Preparing' /\ caller' = caller
    BY <1>6 DEF PrepareUrls, PrepareList, Join, Preparing, Lists
  <2> QED
    BY <1>3, <2>1
<1>7. CASE Perform \/ PerformUnprepared \/ PerformPrepared \/ YumPerform \/ PerformReturns
  <2>1. caller' = "perform" /\ (Preparing' \/ pc' \in {"idle", "yum", "restore"})
    BY <1>7 DEF Perform, PerformUnprepared, PerformPrepared, YumPerform, PerformReturns,
                EnterPrepare, RestoreHandler, Preparing, PackageInv, Callers
  <2> QED
    BY <1>4, <2>1
<1> QED
  BY <1>5, <1>6, <1>7 DEF HandleNext

LEMMA DownloadPackagesKeeps == PackageInv /\ DownloadPackages => PackageInv'
<1> SUFFICES ASSUME PackageInv, DownloadPackages PROVE PackageInv'
  OBVIOUS
<1>1. /\ pc' = "examine" /\ caller' = "packages" /\ queue' = {} /\ next' = 1
      /\ ends' = [p \in Packages |-> <<>>] /\ status' = [p \in Packages |-> "pending"]
      /\ UNCHANGED <<disk, err, kind>>
  BY DEF DownloadPackages
<1>2. 1 \in 1 .. NumPackages + 1 /\ \A p \in Packages : ~(p < 1)
  BY PackageAssumption DEF PackageAssumption, Packages
<1> QED
  BY <1>1, <1>2 DEF PackageInv, Callers, Preparing, InLoop, ToCome, PackagesReported,
                    AlreadyMeansVerified

\* A package found complete, or one that gets its target prepared.
LEMMA ExamineKeeps == PackageInv /\ Examine => PackageInv'
<1> SUFFICES ASSUME PackageInv, Examine PROVE PackageInv'
  OBVIOUS
<1>1. /\ pc = "examine" /\ caller = "packages" /\ next \in Packages
      /\ UNCHANGED <<kind, disk, queue, status>>
  BY DEF Examine, PackageInv, Callers
<1>2. /\ ToCome(next)
      /\ \A p \in Packages : IF p < next THEN Already(p) \/ Waiting(p) ELSE ToCome(p)
  BY <1>1 DEF PackageInv, InLoop, Packages
<1>3. next \in Int /\ next + 1 \in 1 .. NumPackages + 1
      /\ \A p \in Packages : p < next + 1 <=> p < next \/ p = next
  BY <1>1, PackageAssumption DEF PackageAssumption, Packages
<1>4. PICK verdict \in Verdicts(next) :
          IF AlreadyThere(next, verdict)
          THEN /\ Result(next, "already", "ALREADYEXISTS")
               /\ next' = next + 1
               /\ UNCHANGED <<resumed, prepVars, caller, ret, pc>>
          ELSE /\ err' = [err EXCEPT ![next] = "none"]
               /\ resumed' = IF Resumes(next, verdict) THEN resumed \cup {next} ELSE resumed
               /\ EnterPrepare("packages")
               /\ UNCHANGED <<ends, next>>
  BY DEF Examine
<1>5. CASE AlreadyThere(next, verdict)
  <2>1. /\ err' = [err EXCEPT ![next] = "already"]
        /\ ends' = [ends EXCEPT ![next] = <<"ALREADYEXISTS">>]
        /\ next' = next + 1 /\ UNCHANGED <<caller, ret, pc>>
    BY <1>1, <1>2, <1>4, <1>5 DEF Result, ToCome, PackageInv
  <2>2. \A p \in Packages : p = next => Already(p)'
    BY <1>1, <1>2, <2>1 DEF PackageInv, Already, ToCome
  <2>3. \A p \in Packages : p # next => ends'[p] = ends[p] /\ err'[p] = err[p]
    BY <2>1 DEF PackageInv
  <2>4. \A p \in Packages : IF p < next' THEN Already(p)' \/ Waiting(p)' ELSE ToCome(p)'
    BY <1>1, <1>2, <1>3, <2>1, <2>2, <2>3 DEF Already, Waiting, ToCome
  <2>5. PackagesReported'
    BY <1>1, <2>1, <2>2, <2>3 DEF PackageInv, PackagesReported, Already
  <2>6. ASSUME "read" \notin PackageFaults PROVE AlreadyMeansVerified'
    <3>1. kind[next].checksum => disk[next] = "package"
      BY <1>5, <2>6 DEF AlreadyThere, Verdicts, Exists, Resumes, SizeMatches, SizeSeen
    <3> QED
      BY <1>1, <2>3, <2>6, <3>1 DEF PackageInv, AlreadyMeansVerified
  <2> QED
    BY <1>1, <1>3, <2>1, <2>4, <2>5, <2>6 DEF PackageInv, Callers, Preparing, InLoop
<1>6. CASE ~AlreadyThere(next, verdict)
  <2>1. /\ err' = [err EXCEPT ![next] = "none"] /\ caller' = "packages"
        /\ pc' \in {"prepared", "urls"} /\ UNCHANGED <<ends, next>>
    BY <1>4, <1>6 DEF EnterPrepare
  <2>2. \A p \in Packages : p # next => err'[p] = err[p]
    BY <2>1 DEF PackageInv
  <2>3. \A p \in Packages : IF p < next' THEN Already(p)' \/ Waiting(p)' ELSE ToCome(p)'
    BY <1>1, <1>2, <1>3, <2>1, <2>2 DEF Already, Waiting, ToCome
  <2> QED
    BY <1>1, <2>1, <2>3 DEF PackageInv, Callers, Preparing, InLoop, PackagesReported,
                            AlreadyMeansVerified
<1> QED
  BY <1>5, <1>6

LEMMA QueueKeeps == PackageInv /\ Queue => PackageInv'
<1> SUFFICES ASSUME PackageInv, Queue PROVE PackageInv'
  OBVIOUS
<1>1. /\ pc = "prepared" /\ caller = "packages" /\ caller' = "packages" /\ ret' = ret
      /\ UNCHANGED <<kind, disk, err, ends, status>>
  BY DEF Queue
<1>2. /\ next \in Packages /\ err[next] = "none" /\ ToCome(next)
      /\ \A p \in Packages : IF p < next THEN Already(p) \/ Waiting(p) ELSE ToCome(p)
  BY <1>1 DEF PackageInv, InLoop, Preparing, Packages
<1>3. next \in Int /\ next + 1 \in 1 .. NumPackages + 1
      /\ \A p \in Packages : p < next + 1 <=> p < next \/ p = next
  BY <1>2, PackageAssumption DEF PackageAssumption, Packages
<1>4. CASE ret = "ok"
  <2>1. queue' = queue \cup {next} /\ next' = next + 1 /\ pc' = "examine"
    BY <1>4 DEF Queue
  <2>2. \A p \in Packages : IF p < next' THEN Already(p)' \/ Waiting(p)' ELSE ToCome(p)'
    BY <1>1, <1>2, <1>3, <2>1 DEF Already, Waiting, ToCome
  <2> QED
    BY <1>1, <1>2, <1>3, <2>1, <2>2 DEF PackageInv, Callers, Preparing, InLoop,
                                        PackagesReported, AlreadyMeansVerified
<1>5. CASE ret # "ok"
  <2>1. pc' = "cleanup" /\ UNCHANGED <<queue, next>>
    BY <1>5 DEF Queue
  <2> QED
    BY <1>1, <1>5, <2>1 DEF PackageInv, Callers, Preparing, InLoop, PackagesReported,
                            AlreadyMeansVerified
<1> QED
  BY <1>4, <1>5

LEMMA SortKeeps == PackageInv /\ Sort => PackageInv'
<1> SUFFICES ASSUME PackageInv, Sort PROVE PackageInv'
  OBVIOUS
<1>1. /\ pc = "examine" /\ next > NumPackages /\ caller' = caller /\ caller = "packages"
      /\ UNCHANGED <<kind, disk, err, ends, resumed, queue, status, failfast, next>>
  BY DEF Sort, packageVars, PackageInv, Callers
<1>2. CASE pc' = "download"
  <2>1. \A p \in Packages : p < next
    BY <1>1, PackageAssumption DEF PackageInv, PackageAssumption, Packages
  <2>2. \A p \in Packages : Already(p) \/ Waiting(p)
    BY <1>1, <2>1 DEF PackageInv, InLoop
  <2> QED
    BY <1>1, <1>2, <2>2 DEF PackageInv, Callers, Preparing, InLoop, Already, Waiting,
                            PackagesReported, AlreadyMeansVerified
<1>3. CASE pc' = "idle" /\ ret' = "error"
  BY <1>1, <1>3 DEF PackageInv, Callers, Preparing, InLoop, PackagesReported, AlreadyMeansVerified
<1> QED
  BY <1>2, <1>3 DEF Sort

LEMMA OneWord ==
    ASSUME NEW s, NEW x, s = <<x>>
    PROVE  Len(s) <= 1
OBVIOUS

LEMMA DecideKeeps ==
    ASSUME PackageInv, NEW p \in Packages, NEW ok \in BOOLEAN, Decide(p, ok)
    PROVE  PackageInv'
<1>1. /\ pc = "download" /\ UNCHANGED <<pc, caller, ret, kind, err, queue, next>>
      /\ p \in queue /\ status[p] = "pending"
      /\ status' = [status EXCEPT ![p] = IF ok THEN "ok" ELSE "failed"]
      /\ ends' = [ends EXCEPT ![p] = Append(@, IF ok THEN "SUCCESSFUL" ELSE "ERROR")]
      /\ disk' = [disk EXCEPT ![p] = IF ok THEN "package" ELSE Leftover(p)]
  BY DEF Decide, Unfinished, handleVars
<1>2. Waiting(p)
  BY <1>1 DEF PackageInv, Already, Decided, Waiting
<1>3. ends'[p] = <<IF ok THEN "SUCCESSFUL" ELSE "ERROR">>
  BY <1>1, <1>2 DEF PackageInv, Waiting
<1>4. Decided(p)'
  BY <1>1, <1>2, <1>3 DEF PackageInv, Decided, Waiting
<1>5. \A q \in Packages : q # p => /\ ends'[q] = ends[q] /\ status'[q] = status[q]
                                   /\ disk'[q] = disk[q] /\ err'[q] = err[q]
  BY <1>1 DEF PackageInv
<1>6. \A q \in Packages : Already(q)' \/ Waiting(q)' \/ Decided(q)'
  <2> SUFFICES ASSUME NEW q \in Packages, q # p PROVE Already(q)' \/ Waiting(q)' \/ Decided(q)'
    BY <1>4
  <2>1. Already(q) \/ Waiting(q) \/ Decided(q)
    BY <1>1 DEF PackageInv
  <2> QED
    BY <1>1, <1>5, <2>1 DEF Already, Waiting, Decided
<1>7. PackagesReported'
  <2>0. Len(ends'[p]) <= 1
    BY <1>3, OneWord
  <2>1. \A q \in Packages : Len(ends'[q]) <= 1
    <3>1. \A q \in Packages : Len(ends[q]) <= 1
      BY DEF PackageInv, PackagesReported
    <3>2. \A q \in Packages : q # p => Len(ends'[q]) <= 1
      BY <3>1, <1>5
    <3> SUFFICES ASSUME NEW q \in Packages PROVE Len(ends'[q]) <= 1
      OBVIOUS
    <3>3. CASE q # p
      BY <3>2, <3>3
    <3>4. CASE q = p
      BY <2>0, <3>4
    <3> QED
      BY <3>3, <3>4
  <2> QED
    BY <1>1, <2>1 DEF PackagesReported
<1>8. "read" \notin PackageFaults => AlreadyMeansVerified'
  BY <1>1, <1>3, <1>5 DEF PackageInv, AlreadyMeansVerified
<1> QED
  BY <1>1, <1>6, <1>7, <1>8 DEF PackageInv, Callers, Preparing, InLoop

LEMMA DownloadReturnsTrueKeeps == PackageInv /\ DownloadReturnsTrue => PackageInv'
<1> SUFFICES ASSUME PackageInv, DownloadReturnsTrue PROVE PackageInv'
  OBVIOUS
<1>1. /\ pc = "download" /\ pc' = "cleanup" /\ caller' = caller /\ Unfinished = {}
      /\ UNCHANGED <<kind, disk, err, ends, resumed, queue, status, failfast, next>>
  BY DEF DownloadReturnsTrue, packageVars
<1>2. \A p \in Packages : Already(p) \/ Decided(p)
  BY <1>1 DEF PackageInv, Waiting, Unfinished
<1> QED
  BY <1>1, <1>2 DEF PackageInv, Callers, Preparing, InLoop, Already, Decided,
                    PackagesReported, AlreadyMeansVerified

LEMMA DownloadReturnsFalseKeeps ==
    ASSUME PackageInv, NEW S \in SUBSET Packages, DownloadReturnsFalse(S)
    PROVE  PackageInv'
<1>1. /\ pc = "download" /\ S \subseteq Unfinished
      /\ pc' = "cleanup" /\ ret' = "error" /\ caller' = caller
      /\ status' = [p \in Packages |-> IF p \in S THEN "unfinished" ELSE status[p]]
      /\ ends' = [p \in Packages |-> IF p \in S THEN Append(ends[p], "ERROR") ELSE ends[p]]
      /\ disk' = [p \in Packages |-> IF p \in Unfinished THEN Leftover(p) ELSE disk[p]]
      /\ UNCHANGED <<kind, err, queue, next>>
  BY DEF DownloadReturnsFalse
<1>2. \A p \in Unfinished : p \in Packages /\ ends[p] = <<>>
  BY <1>1 DEF PackageInv, Unfinished, Already, Waiting, Decided
<1>3. \A p \in S : ends'[p] = <<"ERROR">>
  <2> SUFFICES ASSUME NEW p \in S PROVE ends'[p] = <<"ERROR">>
    OBVIOUS
  <2>1. p \in Packages /\ ends[p] = <<>>
    BY <1>1, <1>2
  <2>2. ends'[p] = Append(ends[p], "ERROR")
    BY <1>1, <2>1
  <2>3. Append(<<>>, "ERROR") = <<"ERROR">>
    OBVIOUS
  <2> QED
    BY <2>1, <2>2, <2>3
<1>4. \A p \in Packages : p \notin S => ends'[p] = ends[p]
  BY <1>1
<1>5. PackagesReported'
  <2>1. \A p \in Packages : Len(ends'[p]) <= 1
    <3>1. \A p \in Packages : Len(ends[p]) <= 1
      BY DEF PackageInv, PackagesReported
    <3>2. \A p \in Packages : p \notin S => Len(ends'[p]) <= 1
      BY <3>1, <1>4
    <3>4. \A p \in S : Len(ends'[p]) <= 1
      BY <1>3, OneWord
    <3> SUFFICES ASSUME NEW p \in Packages PROVE Len(ends'[p]) <= 1
      OBVIOUS
    <3>5. CASE p \in S
      BY <3>4, <3>5
    <3>6. CASE p \notin S
      BY <3>2, <3>6
    <3> QED
      BY <3>5, <3>6
  <2> QED
    BY <1>1, <2>1 DEF PackagesReported
<1>6. "read" \notin PackageFaults => AlreadyMeansVerified'
  <2> SUFFICES ASSUME "read" \notin PackageFaults, NEW p \in Packages,
                      ends'[p] = <<"ALREADYEXISTS">>, kind[p].checksum
               PROVE  disk'[p] = "package"
    BY <1>1 DEF AlreadyMeansVerified
  <2>1. p \notin S /\ ends[p] = <<"ALREADYEXISTS">>
    BY <1>3, <1>4
  <2>2. p \notin Unfinished
    BY <1>2, <2>1
  <2> QED
    BY <1>1, <2>1, <2>2 DEF PackageInv, AlreadyMeansVerified
<1> QED
  BY <1>1, <1>5, <1>6 DEF PackageInv, Callers, Preparing, InLoop

\* The errors of the packages, and the end of the call.
LEMMA CleanupKeeps == PackageInv /\ Cleanup => PackageInv'
<1> SUFFICES ASSUME PackageInv, Cleanup PROVE PackageInv'
  OBVIOUS
<1>1. /\ pc = "cleanup" /\ pc' = "idle" /\ ret' \in {"interrupted", ret} /\ caller' = caller
      /\ err' = [p \in Packages |->
             IF p \in queue /\ status[p] \in {"failed", "unfinished"} THEN "failed" ELSE err[p]]
      /\ UNCHANGED <<kind, disk, ends, queue, status, next>>
  BY DEF Cleanup, RestoreHandler
<1>2. PackagesReported'
  <2>1. ASSUME ret' = "ok", NEW p \in Packages
        PROVE  \/ err'[p] = "none" /\ ends'[p] = <<"SUCCESSFUL">> /\ disk'[p] = "package"
               \/ err'[p] = "already" /\ ends'[p] = <<"ALREADYEXISTS">>
               \/ err'[p] = "failed" /\ ends'[p] = <<"ERROR">>
    <3>1. Already(p) \/ Decided(p)
      BY <1>1, <2>1 DEF PackageInv
    <3> QED
      BY <1>1, <3>1 DEF Already, Decided
  <2> QED
    BY <1>1, <2>1 DEF PackageInv, PackagesReported
<1> QED
  BY <1>1, <1>2 DEF PackageInv, Callers, Preparing, InLoop, AlreadyMeansVerified

LEMMA CheckKeeps == PackageInv /\ (CheckPackages \/ CheckReturns) => PackageInv'
<1> SUFFICES ASSUME PackageInv, CheckPackages \/ CheckReturns PROVE PackageInv'
  OBVIOUS
<1>1. /\ pc' \in {"idle", "checked"} /\ caller' = "check" /\ DOMAIN err' = Packages
      /\ UNCHANGED <<kind, disk, ends, queue, status, next>>
  BY DEF CheckPackages, CheckReturns, RestoreHandler, PackageInv, Callers, packageVars
<1> QED
  BY <1>1 DEF PackageInv, Callers, Preparing, InLoop, PackagesReported, AlreadyMeansVerified

LEMMA PackageInvKept == PackageInv /\ [Next]_vars => PackageInv'
<1> SUFFICES ASSUME PackageInv, [Next]_vars PROVE PackageInv'
  OBVIOUS
<1>1. CASE UNCHANGED vars
  <2>1. UNCHANGED <<pc, caller, ret, kind, disk, err, ends, queue, status, next>>
    BY <1>1 DEF vars, handleVars, packageVars
  <2> QED
    BY <2>1 DEF PackageInv, Callers, Preparing, InLoop, ToCome, Already, Waiting, Decided,
                PackagesReported, AlreadyMeansVerified
<1> QED
  BY <1>1, HandleStepsKeepPackages, DownloadPackagesKeeps, ExamineKeeps, QueueKeeps, SortKeeps,
     DecideKeeps, DownloadReturnsTrueKeeps, DownloadReturnsFalseKeeps, CleanupKeeps, CheckKeeps
     DEF Next, Finished
-------------------------------------------------------------------------------
(* lr_check_packages()                                                     *)

\* The first bad file and those before it are what a check that fails fast looked at.
LEMMA CheckMarks == CheckPackages => CheckMarksBadFiles'
<1> SUFFICES ASSUME CheckPackages PROVE CheckMarksBadFiles'
  OBVIOUS
<1> DEFINE bad == {p \in Packages : disk[p] # "package"}
           seen(r) == IF r = "ok" THEN Packages ELSE {p \in Packages : \A q \in bad : q >= p}
<1>1. /\ disk' = disk /\ failfast' = failfast
      /\ err' = [p \in Packages |-> IF p \in Looked THEN Verdict(p) ELSE err[p]]
      /\ ret' = IF failfast /\ \E p \in Packages : Verdict(p) # "none" THEN "error" ELSE "ok"
  BY DEF CheckPackages
<1>2. \A p \in Packages : Verdict(p) = "none" <=> p \notin bad
  BY DEF Verdict, Exists
<1>3. \A p \in Packages : p \in Int
  BY DEF Packages
<1> HIDE DEF bad
<1>4. bad \subseteq Packages /\ bad \subseteq Nat
  BY DEF bad, Packages
<1>5. ASSUME ret' = "error" PROVE bad \cap seen(ret') # {}
  <2>1. bad # {}
    BY <1>1, <1>2, <1>5
  <2>2. PICK m \in bad : \A n \in bad : m <= n
    BY <1>4, <2>1, LeastOf
  <2>3. m \in seen(ret')
    BY <1>3, <1>4, <1>5, <2>2
  <2> QED
    BY <2>3
<1>6. ASSUME NEW p \in seen(ret') PROVE err'[p] = "none" <=> p \notin bad
  <2>1. p \in Packages /\ p \in Looked
    <3>1. CASE ret' = "ok"
      BY <1>1, <1>2, <1>6, <3>1 DEF Looked
    <3>2. CASE ret' # "ok"
      <4>1. p \in Packages /\ \A q \in bad : q >= p
        BY <1>6, <3>2
      <4>2. \A q \in Packages : q < p => q \notin bad
        BY <1>3, <4>1
      <4> QED
        BY <1>2, <4>1, <4>2 DEF Looked
    <3> QED
      BY <3>1, <3>2
  <2> QED
    BY <1>1, <1>2, <2>1
<1> HIDE DEF seen
<1>7. seen(ret') = IF ret' = "ok" THEN Packages ELSE {p \in Packages : \A q \in bad : q >= p}
  BY DEF seen
<1> QED
  BY <1>1, <1>5, <1>6, <1>7 DEF CheckMarksBadFiles, bad

LEMMA CheckMarksKept == PackageInv /\ CheckMarksBadFiles /\ [Next]_vars => CheckMarksBadFiles'
<1> SUFFICES ASSUME PackageInv, CheckMarksBadFiles, [Next]_vars PROVE CheckMarksBadFiles'
  OBVIOUS
<1>1. CASE UNCHANGED vars \/ (Sigint /\ UNCHANGED packageVars)
  <2>1. UNCHANGED <<pc, ret, disk, err>>
    BY <1>1 DEF vars, handleVars, packageVars, Sigint
  <2> QED
    BY <2>1 DEF CheckMarksBadFiles
<1>2. CASE pc' # "checked"
  BY <1>2 DEF CheckMarksBadFiles
<1>3. CASE CheckPackages
  BY <1>3, CheckMarks
<1>4. ASSUME [Next]_vars, ~CheckPackages, ~UNCHANGED vars, ~(Sigint /\ UNCHANGED packageVars)
      PROVE  pc' # "checked"
  <2>1. CASE HandleSteps
    BY <1>4, <2>1 DEF HandleSteps, HandleNext, SetOpt, SetUrls, SetListUrl, SetMirrorlist, SetReach,
          SetPlain, SetOption, Renew, Provide, PrepareUrls, PrepareList, Join, Perform,
          PerformUnprepared, PerformPrepared, YumPerform, PerformReturns, EnterPrepare,
          RestoreHandler, Lists
  <2>2. CASE DownloadPackages \/ Examine \/ Queue \/ Sort
    BY <2>2 DEF DownloadPackages, Examine, Queue, Sort, EnterPrepare
  <2>3. CASE \E p \in Packages, ok \in BOOLEAN : Decide(p, ok)
    BY <2>3 DEF Decide, handleVars
  <2>4. CASE DownloadReturnsTrue \/ (\E S \in SUBSET Packages : DownloadReturnsFalse(S))
             \/ Cleanup \/ CheckReturns
    BY <2>4 DEF DownloadReturnsTrue, DownloadReturnsFalse, Cleanup, CheckReturns, RestoreHandler
  <2> QED
    BY <1>4, <2>1, <2>2, <2>3, <2>4 DEF Next, Finished
<1> QED
  BY <1>1, <1>2, <1>3, <1>4
-------------------------------------------------------------------------------
(* Theorems                                                                *)

\* What a handle made of its options agrees with them at every moment.
THEOREM Invariant == Spec => [](HandleInv /\ PackageInv)
<1>1. Init => HandleInv /\ PackageInv
  BY HandleInvInit, PackageInvInit DEF Init
<1>2. (HandleInv /\ PackageInv) /\ [Next]_vars => (HandleInv /\ PackageInv)'
  BY HandleInvKept, PackageInvKept
<1> QED
  BY <1>1, <1>2, PTL DEF Spec

\* The mirrors used for transfers are those of the options as they are now, whatever
\* was set, prepared, failed or provided before.
THEOREM PreparedFromOptionsHolds == Spec => []PreparedFromOptions
<1>1. HandleInv => PreparedFromOptions
  BY DEF HandleInv
<1> QED
  BY Invariant, <1>1, PTL

\* A list that was parsed has its descriptor.
THEOREM ParsedListHasDescriptorHolds == Spec => []ParsedListHasDescriptor
<1>1. HandleInv => ParsedListHasDescriptor
  BY DEF HandleInv, ListFits, ParsedListHasDescriptor
<1> QED
  BY Invariant, <1>1, PTL

\* What lr_download_packages() says of every package agrees with the disk, and no end
\* is reported twice in a call.
THEOREM PackagesReportedHolds == Spec => []PackagesReported
<1>1. PackageInv => PackagesReported
  BY DEF PackageInv
<1> QED
  BY Invariant, <1>1, PTL

\* A package with a checksum is not taken for downloaded unless it is, provided that
\* the files can be read.
THEOREM AlreadyMeansVerifiedHolds ==
    ASSUME "read" \notin PackageFaults
    PROVE  Spec => []AlreadyMeansVerified
<1>1. PackageInv => AlreadyMeansVerified
  BY DEF PackageInv
<1> QED
  BY Invariant, <1>1, PTL

\* A check marks exactly the bad files, up to the first one when it fails fast.
THEOREM CheckMarksBadFilesHolds == Spec => []CheckMarksBadFiles
<1>1. Init => CheckMarksBadFiles
  BY DEF Init, HandleInit, CheckMarksBadFiles
<1>2. Spec => []PackageInv
  BY Invariant, PTL
<1> QED
  BY <1>1, <1>2, CheckMarksKept, PTL DEF Spec
===============================================================================
