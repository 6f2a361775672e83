---------------------------- MODULE DocumentsProofs ----------------------------
(***************************************************************************)
(* Theorems about the files that librepo parses.                           *)
(*                                                                         *)
(* Documents, for documents of any length and depth, any attributes, texts *)
(* and answers of the callback: the handlers build what the paths of the   *)
(* elements mean, and none of their assertions fails.                      *)
(*                                                                         *)
(* RepoConf, for any files, repositories, options, values and texts: what  *)
(* is set is read, from memory and from the file, and lists are read       *)
(* wherever their lines are broken.                                        *)
(***************************************************************************)
EXTENDS Documents, RepoConf, FiniteSetTheorems, SequenceTheorems, WellFoundedInduction, TLAPS

-------------------------------------------------------------------------------
(* The tables: what leads to a state, which states read text, how deep the *)
(* states of a metalink are.                                               *)

RepomdFrom(s) ==
    CASE s = "REPOMD" -> "START"
      [] s \in {"REVISION", "REPOID", "TAGS", "DATA"} -> "REPOMD"
      [] s \in Tags -> "TAGS"
      [] OTHER -> "DATA"
RepomdTexts == {"REVISION", "REPOID"} \cup Tags \cup Sums \cup Numbers
InData == {"DATA", "LOCATION"} \cup Sums \cup Numbers

MetalinkFrom(s) ==
    CASE s = "METALINK" -> "START"
      [] s = "FILES" -> "METALINK"
      [] s = "FILE" -> "FILES"
      [] s = "HASH" -> "VERIFICATION"
      [] s = "ALTERNATE" -> "ALTERNATES"
      [] s \in {"ALTERNATE_TIMESTAMP", "ALTERNATE_SIZE", "ALTERNATE_VERIFICATION"} -> "ALTERNATE"
      [] s = "ALTERNATE_HASH" -> "ALTERNATE_VERIFICATION"
      [] s = "URL" -> "RESOURCES"
      [] OTHER -> "FILE"
Hashes == {"HASH", "ALTERNATE_HASH"}
MetalinkTexts == {"TIMESTAMP", "SIZE", "ALTERNATE_TIMESTAMP", "ALTERNATE_SIZE", "URL"} \cup Hashes
InAlternate == {"ALTERNATE", "ALTERNATE_TIMESTAMP", "ALTERNATE_SIZE", "ALTERNATE_VERIFICATION",
                "ALTERNATE_HASH"}
Level(s) ==
    CASE s = "START" -> 0
      [] s = "METALINK" -> 1
      [] s = "FILES" -> 2
      [] s = "FILE" -> 3
      [] s \in {"HASH", "ALTERNATE", "URL"} -> 5
      [] s \in {"ALTERNATE_TIMESTAMP", "ALTERNATE_SIZE", "ALTERNATE_VERIFICATION"} -> 6
      [] s = "ALTERNATE_HASH" -> 7
      [] OTHER -> 4

From(s) == IF IsRepomd THEN RepomdFrom(s) ELSE MetalinkFrom(s)
Texts == IF IsRepomd THEN RepomdTexts ELSE MetalinkTexts
States == {sw.to : sw \in Table}

\* A state is reached from one state only, and reads text or has elements in it.
LEMMA RepomdTable ==
    \A sw \in RepomdSwitches :
        /\ sw.from = RepomdFrom(sw.to) /\ (sw.text <=> sw.to \in RepomdTexts)
        /\ sw.from \notin RepomdTexts /\ sw.from # "none" /\ sw.to \notin {"none", "START"}
BY DEF RepomdSwitches, Switch, RepomdFrom, RepomdTexts, Tags, Sums, Numbers

LEMMA MetalinkTable ==
    \A sw \in MetalinkSwitches :
        /\ sw.from = MetalinkFrom(sw.to) /\ (sw.text <=> sw.to \in MetalinkTexts)
        /\ sw.from \notin MetalinkTexts /\ sw.from # "none" /\ sw.to \notin {"none", "START"}
        /\ Level(sw.to) = Level(sw.from) + 1
BY DEF MetalinkSwitches, Switch, MetalinkFrom, MetalinkTexts, Hashes, Level

LEMMA Tables ==
    \A sw \in Table :
        /\ sw.from = From(sw.to) /\ (sw.text <=> sw.to \in Texts)
        /\ sw.from \notin Texts /\ sw.from # "none" /\ sw.to \notin {"none", "START"}
<1>1. CASE IsRepomd
  BY <1>1, RepomdTable DEF Table, From, Texts
<1>2. CASE ~IsRepomd
  BY <1>2, MetalinkTable DEF Table, From, Texts
<1>. QED
  BY <1>1, <1>2

\* Whether text is read is TRUE or FALSE.
LEMMA TextIsBoolean == \A sw \in Table : sw.text \in BOOLEAN
<1>1. \A f, n, t : /\ Switch(f, n, t, TRUE).text \in BOOLEAN
                   /\ Switch(f, n, t, FALSE).text \in BOOLEAN
  BY DEF Switch
<1>2. \A sw \in RepomdSwitches :
         \E f, n, t : sw = Switch(f, n, t, TRUE) \/ sw = Switch(f, n, t, FALSE)
  BY Zenon DEF RepomdSwitches
<1>3. \A sw \in MetalinkSwitches :
         \E f, n, t : sw = Switch(f, n, t, TRUE) \/ sw = Switch(f, n, t, FALSE)
  BY Zenon DEF MetalinkSwitches
<1>. QED
  BY <1>1, <1>2, <1>3 DEF Table

\* No text is read outside of the elements.
LEMMA StartReadsNothing == "START" \notin Texts
BY DEF Texts, RepomdTexts, MetalinkTexts, Tags, Sums, Numbers, Hashes

\* An element is one level below the one that it is in.
LEMMA Levels == ~IsRepomd => \A s \in States : Level(s) = Level(From(s)) + 1
BY MetalinkTable DEF States, Table, From

-------------------------------------------------------------------------------
(* The invariant.                                                          *)

Names == UNION {DOMAIN Attributes[f] : f \in Formats}
Values ==
    {NoAttr} \cup UNION {UNION {Attributes[f][n] : n \in DOMAIN Attributes[f]} : f \in Formats}
Words == Seq({Digit, Other})
Element == [name : Names, attr : Values, text : Words, place : States \cup {"none"},
            wanted : BOOLEAN]
Parser == [state : States \cup {"START"}, depth : Nat, statedepth : Nat, docontent : BOOLEAN,
           content : Words, err : BOOLEAN]
IsSequence(s) == \E S : s \in Seq(S)

Typed ==
    /\ format \in Formats
    /\ open \in Seq(Element)
    /\ pd \in Parser

\* The elements the parser knows are the first of the open ones; each was found from the
\* state of the one before, and the last is the one that the parser is in.
Stack ==
    /\ pd.depth = Len(open) /\ pd.statedepth <= pd.depth
    /\ \A i \in DOMAIN open : open[i].place = "none" <=> i > pd.statedepth
    /\ \A i \in DOMAIN open : i <= pd.statedepth =>
          From(open[i].place) = IF i = 1 THEN "START" ELSE open[i - 1].place
    /\ pd.state = IF pd.statedepth = 0 THEN "START" ELSE open[pd.statedepth].place
    /\ pd.state \in Texts => pd.docontent /\ pd.content = open[pd.statedepth].text

SInv == Typed /\ Stack

-------------------------------------------------------------------------------
(* Sequences.                                                              *)

\* The indices and the elements of a sequence.
LEMMA SequenceDomain ==
    ASSUME NEW S, NEW s \in Seq(S)
    PROVE  Len(s) \in Nat /\ DOMAIN s = 1 .. Len(s) /\ \A i \in DOMAIN s : s[i] \in S
BY LenProperties, ElementOfSeq

\* A sequence with one more element, or without its last one.
LEMMA AppendFacts ==
    ASSUME NEW S, NEW s \in Seq(S), NEW e \in S
    PROVE  /\ Append(s, e) \in Seq(S) /\ Len(Append(s, e)) = Len(s) + 1
           /\ \A i \in 1 .. Len(s) : Append(s, e)[i] = s[i]
           /\ Append(s, e)[Len(s) + 1] = e
BY AppendProperties

LEMMA FrontFacts ==
    ASSUME NEW S, NEW s \in Seq(S), s # <<>>
    PROVE  /\ Len(s) \in Nat \ {0}
           /\ Front(s) \in Seq(S) /\ Len(Front(s)) = Len(s) - 1
           /\ \A i \in 1 .. Len(s) - 1 : Front(s)[i] = s[i]
<1>1. Len(s) \in Nat \ {0}
  BY EmptySeq, LenProperties
<1>. DEFINE n == Len(s) - 1
<1>2. n \in Nat /\ 1 \in 1 .. n + 1 /\ n \in (1 - 1) .. n /\ n \in Int
  BY <1>1
<1>3. \A i \in 1 .. n : s[i] \in S
  BY <1>1, SequenceDomain
<1>. HIDE DEF n
<1>4. /\ SubSeq(s, 1, n) \in Seq(S)
      /\ Len(SubSeq(s, 1, n)) = IF 1 <= n THEN n - 1 + 1 ELSE 0
      /\ \A i \in 1 .. n - 1 + 1 : SubSeq(s, 1, n)[i] = s[1 + i - 1]
  BY <1>2, <1>3, SubSeqProperties
<1>5. Len(SubSeq(s, 1, n)) = n /\ \A i \in 1 .. n : SubSeq(s, 1, n)[i] = s[i]
  <2>1. Len(SubSeq(s, 1, n)) = n
    BY <1>2, <1>4
  <2>2. ASSUME NEW i \in 1 .. n PROVE SubSeq(s, 1, n)[i] = s[i]
    <3>1. i \in 1 .. n - 1 + 1 /\ 1 + i - 1 = i
      BY <1>2
    <3>. QED
      BY <1>4, <3>1
  <2>. QED
    BY <2>1, <2>2
<1>6. Front(s) = SubSeq(s, 1, n)
  BY DEF Front, n
<1>. QED
  BY <1>1, <1>4, <1>5, <1>6 DEF n

\* A sequence stays one whatever is appended or put into it.
LEMMA SequenceAppend ==
    ASSUME NEW s, IsSequence(s), NEW e
    PROVE  IsSequence(Append(s, e)) /\ Len(Append(s, e)) = Len(s) + 1 /\ Len(s) \in Nat
<1>1. PICK S : s \in Seq(S)
  BY DEF IsSequence
<1>2. s \in Seq(S \cup {e})
  BY <1>1, SequenceDomain, SeqDef
<1>3. Append(s, e) \in Seq(S \cup {e}) /\ Len(Append(s, e)) = Len(s) + 1
  BY <1>2, AppendFacts
<1>. QED
  BY <1>1, <1>3, LenProperties DEF IsSequence

LEMMA SequenceExcept ==
    ASSUME NEW s, IsSequence(s), NEW r, NEW e
    PROVE  IsSequence([s EXCEPT ![r] = e]) /\ Len([s EXCEPT ![r] = e]) = Len(s)
<1>1. PICK S : s \in Seq(S)
  BY DEF IsSequence
<1>2. s \in [1 .. Len(s) -> S \cup {e}] /\ Len(s) \in Nat
  BY <1>1, SequenceDomain, LenProperties
<1>. DEFINE t == [s EXCEPT ![r] = e]
<1>3. t \in [1 .. Len(s) -> S \cup {e}]
  BY <1>2
<1>. HIDE DEF t
<1>4. t \in Seq(S \cup {e})
  BY <1>2, <1>3, SeqDef
<1>5. DOMAIN t = 1 .. Len(t) /\ Len(t) \in Nat /\ DOMAIN t = 1 .. Len(s)
  BY <1>3, <1>4, LenProperties
<1>6. Len(t) = Len(s)
  <2>1. Len(s) \in Nat /\ Len(t) \in Nat /\ 1 .. Len(s) = 1 .. Len(t)
    BY <1>2, <1>5
  <2>. QED
    BY <2>1, SMT
<1>. QED
  BY <1>4, <1>6 DEF IsSequence, t

-------------------------------------------------------------------------------
(* The parser and the paths.                                               *)

\* The last of the open elements is the one the parser is in, or it is not known.
LEMMA Innermost ==
    ASSUME SInv
    PROVE  /\ pd.depth \in Nat /\ pd.statedepth \in Nat /\ pd.statedepth <= pd.depth
           /\ DOMAIN open = 1 .. pd.depth /\ pd.depth = Len(open)
           /\ pd.statedepth = pd.depth =>
                 pd.state = IF open = <<>> THEN "START" ELSE Last(open).place
           /\ pd.statedepth # pd.depth => open # <<>> /\ Last(open).place = "none"
           /\ open = <<>> <=> pd.depth = 0
<1>1. /\ pd.depth \in Nat /\ pd.statedepth \in Nat /\ pd.statedepth <= pd.depth
      /\ DOMAIN open = 1 .. pd.depth /\ pd.depth = Len(open)
  BY SequenceDomain DEF SInv, Typed, Stack, Parser
<1>2. open = <<>> <=> pd.depth = 0
  BY <1>1, EmptySeq DEF SInv, Typed
<1>3. Last(open) = open[pd.depth]
  BY <1>1 DEF Last
<1>. QED
  BY <1>1, <1>2, <1>3 DEF SInv, Stack

\* The parser recognises an element exactly when its path is one of the table, as the
\* state that its path stands for.
LEMMA KnownIsPlaced ==
    ASSUME SInv, NEW name
    PROVE  /\ Known(Table, pd, name) <=> Place(name) # "none"
           /\ Known(Table, pd, name) =>
                 /\ Place(name) \in States /\ From(Place(name)) = pd.state
                 /\ pd.statedepth = pd.depth /\ pd.state \notin Texts
                 /\ Opened(Table, pd, name) =
                       [pd EXCEPT !.state = Place(name), !.docontent = (Place(name) \in Texts),
                                  !.depth = @ + 1, !.statedepth = pd.depth + 1, !.content = <<>>]
<1>. DEFINE above == IF open = <<>> THEN "START" ELSE Last(open).place
            sws == SwitchesFor(Table, above, name)
<1>1. Place(name) = IF sws = {} THEN "none" ELSE (CHOOSE sw \in sws : TRUE).to
  BY DEF Place
<1>2. CASE pd.statedepth # pd.depth
  <2>1. above = "none"
    BY <1>2, Innermost
  <2>2. sws = {}
    BY <2>1, Tables DEF SwitchesFor
  <2>. QED
    BY <1>1, <1>2, <2>2 DEF Known
<1>3. CASE pd.statedepth = pd.depth
  <2>1. above = pd.state
    BY <1>3, Innermost
  <2>2. Known(Table, pd, name) <=> sws # {}
    BY <1>3, <2>1, Zenon DEF Known
  <2>3. CASE sws = {}
    BY <1>1, <2>2, <2>3
  <2>4. CASE sws # {}
    <3>. DEFINE sw == CHOOSE x \in sws : TRUE
    <3>1. sw \in sws
      BY <2>4
    <3>2. Place(name) = sw.to
      BY <1>1, <2>4
    <3>3. sw \in Table /\ sw.from = pd.state
      BY <3>1, <2>1 DEF SwitchesFor
    <3>4. Opened(Table, pd, name) =
             [pd EXCEPT !.state = sw.to, !.docontent = sw.text, !.depth = @ + 1,
                        !.statedepth = pd.depth + 1, !.content = <<>>]
      BY <2>1, <2>2, <2>4, Zenon DEF Opened
    <3>. HIDE DEF sw
    <3>5. sw.text = (sw.to \in Texts)
      BY <3>3, Tables, TextIsBoolean
    <3>6. sw.to \in States /\ From(sw.to) = pd.state /\ pd.state \notin Texts /\ sw.to # "none"
      BY <3>3, Tables DEF States
    <3>7. Known(Table, pd, name)
      BY <2>2, <2>4
    <3>. QED
      BY <1>3, <3>2, <3>4, <3>5, <3>6, <3>7
  <2>. QED
    BY <2>3, <2>4
<1>. QED
  BY <1>2, <1>3

\* An element of the table ends exactly when the parser goes back to where it came from.
LEMMA LeavesPlaced ==
    ASSUME SInv, open # <<>>
    PROVE  /\ Leaves(pd) <=> Last(open).place # "none"
           /\ Leaves(pd) => pd.state = Last(open).place /\ pd.state \in States
           /\ Closed(Table, pd) =
                 IF Leaves(pd)
                 THEN [pd EXCEPT !.depth = @ - 1, !.statedepth = @ - 1, !.docontent = FALSE,
                                 !.state = From(pd.state)]
                 ELSE [pd EXCEPT !.depth = @ - 1]
<1>1. Leaves(pd) <=> Last(open).place # "none"
  <2>1. CASE pd.statedepth = pd.depth
    <3>1. pd.depth \in DOMAIN open /\ Last(open) = open[pd.depth]
      BY Innermost DEF Last
    <3>. QED
      BY <2>1, <3>1, Innermost DEF Leaves, SInv, Stack
  <2>2. CASE pd.statedepth # pd.depth
    BY <2>2, Innermost DEF Leaves
  <2>. QED
    BY <2>1, <2>2
<1>2. Leaves(pd) => pd.state = Last(open).place
  BY Innermost DEF Leaves
<1>3. Leaves(pd) => pd.state \in States
  <2>1. Last(open) \in Element
    BY Innermost, SequenceDomain DEF Last, SInv, Typed
  <2>. QED
    BY <1>1, <1>2, <2>1 DEF Element
<1>4. ASSUME pd.state \in States
      PROVE  (CHOOSE sw \in Table : sw.to = pd.state).from = From(pd.state)
  <2>1. \E sw \in Table : sw.to = pd.state
    BY <1>4 DEF States
  <2>. DEFINE sw == CHOOSE sw \in Table : sw.to = pd.state
  <2>2. sw \in Table /\ sw.to = pd.state
    BY <2>1
  <2>. HIDE DEF sw
  <2>3. sw.from = From(pd.state)
    BY <2>2, Tables
  <2>. QED
    BY <2>3 DEF sw
<1>5. ASSUME Leaves(pd)
      PROVE  Closed(Table, pd) = [pd EXCEPT !.depth = @ - 1, !.statedepth = @ - 1,
                                            !.docontent = FALSE, !.state = From(pd.state)]
  BY <1>3, <1>4, <1>5 DEF Closed
<1>6. ASSUME ~Leaves(pd) PROVE Closed(Table, pd) = [pd EXCEPT !.depth = @ - 1]
  BY <1>6, Zenon DEF Closed
<1>7. Closed(Table, pd) =
         IF Leaves(pd)
         THEN [pd EXCEPT !.depth = @ - 1, !.statedepth = @ - 1, !.docontent = FALSE,
                         !.state = From(pd.state)]
         ELSE [pd EXCEPT !.depth = @ - 1]
  BY <1>5, <1>6, Zenon
<1>. QED
  BY <1>1, <1>2, <1>3, <1>7, Zenon

-------------------------------------------------------------------------------
(* The steps of the parser.                                                *)

LEMMA StackInit == Init => SInv
<1>. SUFFICES ASSUME Init PROVE SInv
  OBVIOUS
<1>1. open = <<>> /\ pd = NewParser /\ format \in Formats
  BY DEF Init
<1>2. open \in Seq(Element) /\ <<>> \in Words /\ Len(open) = 0 /\ DOMAIN open = {}
  BY <1>1, EmptySeq DEF Words
<1>3. pd \in Parser
  BY <1>1, <1>2 DEF NewParser, Parser
<1>. QED
  BY <1>1, <1>2, <1>3, StartReadsNothing DEF SInv, Typed, Stack, NewParser

\* What a handler changes of the parser.
LEMMA StartParser ==
    ASSUME NEW name, NEW attr, StartHandler(name, attr)
    PROVE  \E b \in BOOLEAN : pd' = [Opened(Table, pd, name) EXCEPT !.err = b]
<1>. DEFINE moved == Opened(Table, pd, name)
            acts == Known(Table, pd, name) /\ Acts(moved.state)
            warns == Strange(Table, pd, name) \/ (acts /\ StartWarns(moved.state, attr))
            stops(cb) == (warns /\ cb # "OK") \/ (acts /\ Nameless(moved.state, attr))
<1>1. \E cb \in WarningCb : pd' = [moved EXCEPT !.err = stops(cb)]
  BY Zenon DEF StartHandler
<1>2. \A cb : stops(cb) \in BOOLEAN
  OBVIOUS
<1>. HIDE DEF stops, moved
<1>3. \E b \in BOOLEAN : pd' = [moved EXCEPT !.err = b]
  BY <1>1, <1>2, Zenon
<1>. QED
  BY <1>3 DEF moved

LEMMA EndParser ==
    ASSUME EndHandler
    PROVE  \E b \in BOOLEAN : pd' = [Closed(Table, pd) EXCEPT !.err = b]
<1>. DEFINE acts == Leaves(pd) /\ Acts(pd.state)
            stops(cb) == acts /\ EndWarns(pd.state) /\ cb # "OK"
<1>1. \E cb \in WarningCb : pd' = [Closed(Table, pd) EXCEPT !.err = stops(cb)]
  BY Zenon DEF EndHandler
<1>2. \A cb : stops(cb) \in BOOLEAN
  OBVIOUS
<1>. HIDE DEF stops
<1>. QED
  BY <1>1, <1>2, Zenon

\* What the definitions that look at the format are after a step.
LEMMA FormatKept ==
    ASSUME format' = format
    PROVE  /\ Texts' = Texts /\ States' = States /\ Element' = Element /\ Parser' = Parser
           /\ Table' = Table /\ (IsRepomd' <=> IsRepomd) /\ \A s : From(s)' = From(s)
<1>1. IsRepomd' <=> IsRepomd
  BY DEF IsRepomd
<1>2. Table' = Table /\ Texts' = Texts
  BY <1>1 DEF Table, Texts
<1>3. States' = States
  BY <1>2, Zenon DEF States
<1>4. Element' = Element /\ Parser' = Parser
  BY <1>3, Zenon DEF Element, Parser
<1>5. \A s : From(s)' = From(s)
  BY <1>1 DEF From
<1>. QED
  BY <1>1, <1>2, <1>3, <1>4, <1>5

\* The element that is opened is the innermost one.
LEMMA StackStart ==
    ASSUME SInv, NEW name \in DOMAIN Attributes[format], NEW attr \in Attributes[format][name],
           Start(name, attr)
    PROVE  /\ SInv' /\ format' = format
           /\ \A i \in DOMAIN open : open'[i] = open[i]
           /\ ~Known(Table, pd, name) => pd'.state = pd.state /\ pd'.statedepth = pd.statedepth
           /\ Known(Table, pd, name) =>
                 /\ pd'.state = Place(name) /\ pd'.statedepth = pd.statedepth + 1
                 /\ open'[pd.statedepth + 1].place = Place(name)
                 /\ open'[pd.statedepth + 1].attr = attr
                 /\ open'[pd.statedepth + 1].wanted = (~IsRepomd /\ FirstWanted(attr))
<1>. DEFINE p == Place(name)
            e == [name |-> name, attr |-> attr, text |-> <<>>, place |-> p,
                  wanted |-> ~IsRepomd /\ FirstWanted(attr)]
<1>1. open' = Append(open, e) /\ format' = format /\ StartHandler(name, attr)
  BY DEF Start
<1>2. PICK b \in BOOLEAN : pd' = [Opened(Table, pd, name) EXCEPT !.err = b]
  BY <1>1, StartParser
<1>3. e \in Element
  <2>1. p \in States \cup {"none"}
    BY KnownIsPlaced
  <2>2. name \in Names /\ attr \in Values
    BY DEF Names, Values, SInv, Typed
  <2>3. <<>> \in Words
    BY EmptySeq DEF Words
  <2>4. (~IsRepomd /\ FirstWanted(attr)) \in BOOLEAN
    OBVIOUS
  <2>. HIDE DEF p
  <2>. QED
    BY <2>1, <2>2, <2>3, <2>4 DEF Element
<1>4. /\ Texts' = Texts /\ States' = States /\ Element' = Element /\ Parser' = Parser
      /\ \A s : From(s)' = From(s)
  BY <1>1, FormatKept
<1>. HIDE DEF e
<1>5. /\ open' \in Seq(Element) /\ Len(open') = pd.depth + 1 /\ DOMAIN open' = 1 .. pd.depth + 1
      /\ \A i \in DOMAIN open : open'[i] = open[i]
      /\ open'[pd.depth + 1] = e
  BY <1>1, <1>3, Innermost, AppendFacts, SequenceDomain DEF SInv, Typed
<1>6. /\ pd.depth \in Nat /\ pd.statedepth \in Nat /\ pd.statedepth <= pd.depth
      /\ DOMAIN open = 1 .. pd.depth /\ pd \in Parser
  BY Innermost DEF SInv, Typed
<1>7. /\ e.place = p /\ e.text = <<>> /\ e.attr = attr
      /\ e.wanted = (~IsRepomd /\ FirstWanted(attr))
  BY DEF e
<1>8. /\ Typed' /\ Stack'
      /\ ~Known(Table, pd, name) => pd'.state = pd.state /\ pd'.statedepth = pd.statedepth
      /\ Known(Table, pd, name) =>
            pd'.state = p /\ pd'.statedepth = pd.depth + 1 /\ pd.statedepth = pd.depth
  <2>1. CASE ~Known(Table, pd, name)
    <3>1. p = "none"
      BY <2>1, KnownIsPlaced
    <3>2. pd' = [[pd EXCEPT !.depth = pd.depth + 1] EXCEPT !.err = b]
      BY <1>2, <2>1 DEF Opened
    <3>3. /\ pd' \in Parser /\ pd'.depth = pd.depth + 1 /\ pd'.statedepth = pd.statedepth
          /\ pd'.state = pd.state /\ pd'.docontent = pd.docontent /\ pd'.content = pd.content
      <4>. DEFINE d == pd.depth + 1
      <4>1. d \in Nat /\ pd' = [[pd EXCEPT !.depth = d] EXCEPT !.err = b]
        BY <1>6, <3>2
      <4>. HIDE DEF d
      <4>2. /\ pd' \in Parser /\ pd'.depth = d /\ pd'.statedepth = pd.statedepth
            /\ pd'.state = pd.state /\ pd'.docontent = pd.docontent /\ pd'.content = pd.content
        BY <1>6, <4>1 DEF Parser
      <4>. QED
        BY <4>2 DEF d
    <3>. HIDE DEF p
    <3>4. Typed'
      BY <1>1, <1>4, <1>5, <3>3 DEF SInv, Typed
    <3>5. Stack'
      <4>1. ASSUME NEW i \in DOMAIN open'
            PROVE  /\ open'[i].place = "none" <=> i > pd.statedepth
                   /\ i <= pd.statedepth =>
                        From(open'[i].place) = IF i = 1 THEN "START" ELSE open'[i - 1].place
        <5>1. CASE i = pd.depth + 1
          BY <1>5, <1>6, <1>7, <3>1, <5>1
        <5>2. CASE i \in DOMAIN open
          <6>1. open'[i] = open[i] /\ (i # 1 => open'[i - 1] = open[i - 1])
            BY <1>5, <1>6, <5>2
          <6>. QED
            BY <5>2, <6>1 DEF SInv, Stack
        <5>. QED
          BY <1>5, <1>6, <5>1, <5>2
      <4>2. pd.statedepth # 0 => open'[pd.statedepth] = open[pd.statedepth]
        BY <1>5, <1>6
      <4>3. pd.state \in Texts => pd.statedepth # 0
        BY StartReadsNothing DEF SInv, Stack
      <4>. QED
        BY <1>4, <1>5, <1>6, <3>3, <4>1, <4>2, <4>3 DEF SInv, Stack
    <3>. QED
      BY <2>1, <3>3, <3>4, <3>5
  <2>2. CASE Known(Table, pd, name)
    <3>1. /\ p \in States /\ p # "none" /\ From(p) = pd.state
          /\ pd.statedepth = pd.depth /\ pd.state \notin Texts
      BY <2>2, KnownIsPlaced
    <3>2. pd' = [[pd EXCEPT !.state = p, !.docontent = (p \in Texts), !.depth = pd.depth + 1,
                            !.statedepth = pd.depth + 1, !.content = <<>>] EXCEPT !.err = b]
      BY <1>2, <2>2, KnownIsPlaced
    <3>. DEFINE t == p \in Texts
    <3>3. t \in BOOLEAN /\ pd.depth + 1 \in Nat
      BY <1>6
    <3>. HIDE DEF t
    <3>4. /\ pd' \in Parser /\ pd'.depth = pd.depth + 1 /\ pd'.statedepth = pd.depth + 1
          /\ pd'.state = p /\ pd'.docontent = t /\ pd'.content = <<>>
      <4>. DEFINE d == pd.depth + 1
      <4>1. d \in Nat /\ <<>> \in Words
        BY <3>3, EmptySeq DEF Words
      <4>2. pd' = [[pd EXCEPT !.state = p, !.docontent = t, !.depth = d,
                              !.statedepth = d, !.content = <<>>] EXCEPT !.err = b]
        BY <3>2 DEF t
      <4>. HIDE DEF d, p
      <4>3. /\ pd' \in Parser /\ pd'.depth = d /\ pd'.statedepth = d
            /\ pd'.state = p /\ pd'.docontent = t /\ pd'.content = <<>>
        BY <1>6, <3>1, <3>3, <4>1, <4>2 DEF Parser
      <4>. QED
        BY <4>3 DEF d
    <3>5. p \in Texts => pd'.docontent
      BY <3>4 DEF t
    <3>. HIDE DEF p
    <3>6. Typed'
      BY <1>1, <1>4, <1>5, <3>4 DEF SInv, Typed
    <3>7. Stack'
      BY <1>4, <1>5, <1>6, <1>7, <3>1, <3>4, <3>5 DEF SInv, Stack
    <3>. QED
      BY <2>2, <3>1, <3>4, <3>6, <3>7
  <2>. QED
    BY <2>1, <2>2
<1>. HIDE DEF p
<1>9. ASSUME Known(Table, pd, name)
      PROVE  pd'.statedepth = pd.statedepth + 1 /\ open'[pd.statedepth + 1] = e
  BY <1>5, <1>8, <1>9
<1>10. SInv' /\ format' = format
  BY <1>1, <1>8 DEF SInv
<1>. QED
  BY <1>5, <1>7, <1>8, <1>9, <1>10, Zenon DEF p

\* The text goes to all of the open elements, and to the parser when it reads text.
LEMMA StackText ==
    ASSUME SInv, NEW token \in {Digit, Other}, Text(token)
    PROVE  SInv' /\ pd'.state = pd.state /\ pd'.depth = pd.depth /\ pd'.statedepth = pd.statedepth
           /\ pd'.err = pd.err /\ DOMAIN open' = DOMAIN open
           /\ \A i \in DOMAIN open : /\ open'[i].name = open[i].name /\ open'[i].attr = open[i].attr
                                     /\ open'[i].place = open[i].place
                                     /\ open'[i].wanted = open[i].wanted
<1>1. /\ open' = [i \in DOMAIN open |-> [open[i] EXCEPT !.text = Append(@, token)]]
      /\ pd' = Read(pd, token) /\ format' = format /\ ~pd.err
  BY DEF Text, Running
<1>2. /\ Texts' = Texts /\ States' = States /\ Element' = Element /\ Parser' = Parser
      /\ \A s : From(s)' = From(s)
  BY <1>1, FormatKept
<1>3. /\ pd.depth \in Nat /\ pd.statedepth \in Nat /\ pd.statedepth <= pd.depth
      /\ DOMAIN open = 1 .. pd.depth /\ pd.depth = Len(open)
      /\ open \in Seq(Element) /\ pd \in Parser
  BY Innermost DEF SInv, Typed
<1>4. \A w \in Words : Append(w, token) \in Words
  <2>. SUFFICES ASSUME NEW w \in Seq({Digit, Other}) PROVE Append(w, token) \in Seq({Digit, Other})
    BY DEF Words
  <2>. QED
    BY AppendFacts
<1>5. ASSUME NEW i \in DOMAIN open
      PROVE  /\ open'[i] \in Element /\ open'[i].text = Append(open[i].text, token)
             /\ open'[i].name = open[i].name /\ open'[i].attr = open[i].attr
             /\ open'[i].place = open[i].place /\ open'[i].wanted = open[i].wanted
  <2>1. open[i] \in Element
    BY <1>3, SequenceDomain
  <2>2. open'[i] = [open[i] EXCEPT !.text = Append(@, token)]
    BY <1>1
  <2>. DEFINE w == Append(open[i].text, token)
  <2>3. w \in Words /\ open'[i] = [open[i] EXCEPT !.text = w]
    BY <1>4, <2>1, <2>2 DEF Element
  <2>. HIDE DEF w
  <2>4. /\ open'[i] \in Element /\ open'[i].text = w
        /\ open'[i].name = open[i].name /\ open'[i].attr = open[i].attr
        /\ open'[i].place = open[i].place /\ open'[i].wanted = open[i].wanted
    BY <2>1, <2>3 DEF Element
  <2>. QED
    BY <2>4 DEF w
<1>6. open' \in Seq(Element) /\ Len(open') = Len(open) /\ DOMAIN open' = DOMAIN open
  <2>1. DOMAIN open' = DOMAIN open
    BY <1>1
  <2>2. open' = [i \in 1 .. pd.depth |-> open'[i]]
    BY <1>1, <1>3
  <2>3. open' \in [1 .. pd.depth -> Element]
    BY <1>3, <1>5, <2>2
  <2>4. open' \in Seq(Element)
    BY <1>3, <2>3, SeqDef
  <2>5. Len(open') = pd.depth
    <3>1. Len(open') \in Nat /\ 1 .. Len(open') = 1 .. pd.depth
      BY <1>3, <2>1, <2>4, SequenceDomain
    <3>. QED
      BY <1>3, <3>1, SMT
  <2>. QED
    BY <1>3, <2>1, <2>4, <2>5
<1>7. /\ pd' \in Parser /\ pd'.state = pd.state /\ pd'.depth = pd.depth
      /\ pd'.statedepth = pd.statedepth /\ pd'.err = pd.err /\ pd'.docontent = pd.docontent
      /\ pd.docontent => pd'.content = Append(pd.content, token)
  <2>1. CASE pd.docontent
    <3>. DEFINE w == Append(pd.content, token)
    <3>1. w \in Words /\ pd' = [pd EXCEPT !.content = w]
      BY <1>1, <1>3, <1>4, <2>1 DEF Read, Parser
    <3>. HIDE DEF w
    <3>2. /\ pd' \in Parser /\ pd'.state = pd.state /\ pd'.depth = pd.depth
          /\ pd'.statedepth = pd.statedepth /\ pd'.err = pd.err /\ pd'.docontent = pd.docontent
          /\ pd'.content = w
      BY <1>3, <3>1 DEF Parser
    <3>. QED
      BY <3>2 DEF w
  <2>2. CASE ~pd.docontent
    <3>1. pd' = pd
      BY <1>1, <2>2, Zenon DEF Read
    <3>. QED
      BY <1>3, <2>2, <3>1
  <2>. QED
    BY <2>1, <2>2
<1>8. Typed'
  BY <1>1, <1>2, <1>6, <1>7 DEF SInv, Typed
<1>9. Stack'
  <2>1. pd.state \in Texts => pd.statedepth \in DOMAIN open
    BY <1>3, StartReadsNothing DEF SInv, Stack
  <2>2. pd.state \in Texts => pd'.content = open'[pd.statedepth].text
    BY <1>5, <1>7, <2>1 DEF SInv, Stack
  <2>3. \A i \in DOMAIN open : i # 1 => i - 1 \in DOMAIN open
    BY <1>3
  <2>4. pd.statedepth # 0 => pd.statedepth \in DOMAIN open
    BY <1>3
  <2>. QED
    BY <1>2, <1>3, <1>5, <1>6, <1>7, <2>2, <2>3, <2>4 DEF SInv, Stack
<1>. QED
  BY <1>5, <1>6, <1>7, <1>8, <1>9 DEF SInv

\* The parser leaves the innermost element, or only counts that an unknown one ended.
LEMMA StackEnd ==
    ASSUME SInv, End
    PROVE  /\ SInv' /\ pd'.statedepth <= pd.statedepth
           /\ \A i \in 1 .. pd.statedepth - 1 : open'[i] = open[i]
           /\ ~Leaves(pd) => pd'.state = pd.state /\ pd'.statedepth = pd.statedepth
                             /\ \A i \in 1 .. pd.statedepth : open'[i] = open[i]
           /\ Leaves(pd) => pd'.state = From(pd.state) /\ pd'.statedepth = pd.statedepth - 1
                            /\ From(pd.state) \notin Texts
<1>1. open' = Front(open) /\ open # <<>> /\ format' = format /\ EndHandler
  BY DEF End
<1>2. PICK b \in BOOLEAN : pd' = [Closed(Table, pd) EXCEPT !.err = b]
  BY <1>1, EndParser
<1>3. /\ Texts' = Texts /\ States' = States /\ Element' = Element /\ Parser' = Parser
      /\ \A s : From(s)' = From(s)
  BY <1>1, FormatKept
<1>. DEFINE d == pd.depth - 1
            e == pd.statedepth - 1
<1>4. /\ pd.depth \in Nat /\ pd.statedepth \in Nat /\ pd.statedepth <= pd.depth
      /\ DOMAIN open = 1 .. pd.depth /\ pd.depth = Len(open) /\ d \in Nat
      /\ open \in Seq(Element) /\ pd \in Parser
  BY <1>1, Innermost DEF SInv, Typed
<1>5. /\ open' \in Seq(Element) /\ Len(open') = d /\ DOMAIN open' = 1 .. d
      /\ \A i \in 1 .. d : open'[i] = open[i] /\ i \in DOMAIN open
  <2>1. /\ open' \in Seq(Element) /\ Len(open') = d
        /\ \A i \in 1 .. d : open'[i] = open[i]
    BY <1>1, <1>4, FrontFacts
  <2>2. DOMAIN open' = 1 .. Len(open')
    BY <2>1, SequenceDomain
  <2>3. \A i \in 1 .. d : i \in 1 .. pd.depth
    BY <1>4
  <2>4. \A i \in 1 .. d : i \in DOMAIN open
    BY <1>4, <2>3
  <2>. HIDE DEF d
  <2>5. DOMAIN open' = 1 .. d
    BY ONLY <2>1, <2>2, Zenon
  <2>. QED
    BY ONLY <2>1, <2>4, <2>5, Zenon
<1>6. CASE ~Leaves(pd)
  <2>1. pd' = [[pd EXCEPT !.depth = d] EXCEPT !.err = b]
    BY <1>1, <1>2, <1>6, LeavesPlaced
  <2>2. pd.statedepth <= d
    BY <1>4, <1>6 DEF Leaves
  <2>3. d = pd.depth - 1
    OBVIOUS
  <2>. HIDE DEF d
  <2>4. /\ pd' \in Parser /\ pd'.depth = d /\ pd'.statedepth = pd.statedepth
        /\ pd'.state = pd.state /\ pd'.docontent = pd.docontent /\ pd'.content = pd.content
    BY <1>4, <2>1 DEF Parser
  <2>5. Typed'
    BY <1>1, <1>3, <1>5, <2>4 DEF SInv, Typed
  <2>6. \A i \in 1 .. pd.statedepth : open'[i] = open[i]
    BY <1>4, <1>5, <2>2
  <2>7. Stack'
    <3>1. pd.state \in Texts => pd.statedepth # 0
      BY StartReadsNothing DEF SInv, Stack
    <3>2. \A i \in DOMAIN open' :
             /\ i \in DOMAIN open /\ open'[i] = open[i]
             /\ i # 1 => open'[i - 1] = open[i - 1]
      BY <1>4, <1>5
    <3>. QED
      BY <1>3, <1>4, <1>5, <2>2, <2>4, <2>6, <3>1, <3>2 DEF SInv, Stack
  <2>. QED
    BY <1>4, <1>6, <2>4, <2>5, <2>6, <2>7 DEF SInv
<1>7. CASE Leaves(pd)
  <2>. DEFINE f == From(pd.state)
  <2>1. pd.statedepth = pd.depth /\ e \in Nat /\ e = d /\ pd.state \in States
    BY <1>1, <1>4, <1>7, LeavesPlaced DEF Leaves
  <2>2. pd' = [[pd EXCEPT !.depth = d, !.statedepth = e, !.docontent = FALSE, !.state = f]
                  EXCEPT !.err = b]
    BY <1>1, <1>2, <1>7, LeavesPlaced
  <2>3. f \notin Texts
    BY <2>1, Tables DEF States
  <2>4. f = IF pd.depth = 1 THEN "START" ELSE open[pd.depth - 1].place
    <3>1. pd.depth \in DOMAIN open /\ pd.state = open[pd.depth].place
      BY <1>4, <2>1 DEF SInv, Stack
    <3>. QED
      BY <2>1, <1>4, <3>1 DEF SInv, Stack
  <2>5. f \in States \cup {"START"}
    <3>1. CASE pd.depth = 1
      BY <2>4, <3>1
    <3>2. CASE pd.depth # 1
      <4>1. pd.depth - 1 \in DOMAIN open
        BY <1>4, <2>1, <3>2
      <4>2. open[pd.depth - 1] \in Element /\ open[pd.depth - 1].place # "none"
        BY <1>4, <2>1, <4>1, SequenceDomain DEF SInv, Stack
      <4>. QED
        BY <2>4, <3>2, <4>2 DEF Element
    <3>. QED
      BY <3>1, <3>2
  <2>6. d = pd.depth - 1 /\ e = pd.statedepth - 1
    OBVIOUS
  <2>7. f = From(pd.state)
    OBVIOUS
  <2>. HIDE DEF d, e, f
  <2>8. /\ pd' \in Parser /\ pd'.depth = d /\ pd'.statedepth = e /\ pd'.state = f
    BY <1>4, <2>1, <2>2, <2>5 DEF Parser
  <2>9. Typed'
    BY <1>1, <1>3, <1>5, <2>8 DEF SInv, Typed
  <2>10. Stack'
    <3>1. \A i \in DOMAIN open' :
             /\ i \in DOMAIN open /\ open'[i] = open[i]
             /\ i # 1 => open'[i - 1] = open[i - 1]
      BY <1>4, <1>5
    <3>2. \A i \in DOMAIN open : i <= pd.statedepth /\ (open[i].place # "none")
      BY <1>4, <2>1 DEF SInv, Stack
    <3>3. f = IF e = 0 THEN "START" ELSE open'[e].place
      BY <1>4, <1>5, <2>1, <2>4, <2>6
    <3>. QED
      BY <1>3, <1>4, <1>5, <2>1, <2>3, <2>8, <3>1, <3>2, <3>3 DEF SInv, Stack
  <2>. QED
    BY <1>4, <1>5, <1>7, <2>1, <2>3, <2>6, <2>7, <2>8, <2>9, <2>10 DEF SInv
<1>. QED
  BY <1>6, <1>7

-------------------------------------------------------------------------------
(* What a repomd.xml is built of: the record that is begun is the last one *)
(* of the list, and the only one the handlers write to.                    *)

RepomdContextHolds ==
    /\ ctx \in [record : Nat, cpeid : Values, found : BOOLEAN]
    /\ "records" \in DOMAIN doc /\ IsSequence(doc.records)
    /\ ctx.record = IF pd.state \in InData THEN Len(doc.records) ELSE 0
    /\ pd.state \in InData => Len(doc.records) # 0
    /\ ctx.cpeid = IF pd.state = "DISTRO" THEN open[pd.statedepth].attr ELSE NoAttr

\* One field of one of the records of a document.
LEMMA RecordWritten ==
    ASSUME NEW D, "records" \in DOMAIN D, IsSequence(D.records), NEW r, NEW R,
           NEW E, E = [D EXCEPT !.records = [D.records EXCEPT ![r] = R]]
    PROVE  /\ "records" \in DOMAIN E /\ IsSequence(E.records)
           /\ Len(E.records) = Len(D.records) /\ Len(D.records) \in Nat
<1>. DEFINE S == [D.records EXCEPT ![r] = R]
<1>1. IsSequence(S) /\ Len(S) = Len(D.records)
  BY SequenceExcept
<1>2. Len(D.records) \in Nat
  BY SequenceAppend
<1>3. E = [D EXCEPT !.records = S]
  OBVIOUS
<1>. HIDE DEF S
<1>4. "records" \in DOMAIN E /\ E.records = S
  BY <1>3
<1>. QED
  BY <1>1, <1>2, <1>4

\* What the start and the end of an element do, case by case.
LEMMA RepomdStartedIs ==
    ASSUME NEW D, NEW r, NEW s, NEW a
    PROVE  /\ s = "DATA" =>
                 RepomdStarted(D, r, s, a) =
                    [D EXCEPT !.records = Append(@, NewRecord(RecordType(a)))]
           /\ s \in Sums \cup {"LOCATION"} /\ a # NoAttr =>
                 RepomdStarted(D, r, s, a) = [D EXCEPT !.records[r].attrs = (s :> a) @@ @]
           /\ s # "DATA" /\ ~(s \in Sums \cup {"LOCATION"} /\ a # NoAttr) =>
                 RepomdStarted(D, r, s, a) = IF s = "REPOID" /\ a # NoAttr
                     THEN [D EXCEPT !.fields = ("REPOIDTYPE" :> a) @@ @] ELSE D
<1>. DEFINE E == RepomdStarted(D, r, s, a)
            X == [D EXCEPT !.records = Append(@, NewRecord(RecordType(a)))]
            Y == [D EXCEPT !.records[r].attrs = (s :> a) @@ @]
            Z == [D EXCEPT !.fields = ("REPOIDTYPE" :> a) @@ @]
<1>1. E = CASE s = "DATA" -> X
            [] s \in Sums \cup {"LOCATION"} /\ a # NoAttr -> Y
            [] s = "REPOID" /\ a # NoAttr -> Z
            [] OTHER -> D
  BY Zenon DEF RepomdStarted
<1>2. s \in Sums \cup {"LOCATION"} => s # "DATA" /\ s # "REPOID"
  BY DEF Sums
<1>. HIDE DEF E, X, Y, Z
<1>3. s = "DATA" => E = X
  BY <1>1, <1>2, SMT
<1>4. s \in Sums \cup {"LOCATION"} /\ a # NoAttr => E = Y
  BY <1>1, <1>2, SMT
<1>5. s # "DATA" /\ ~(s \in Sums \cup {"LOCATION"} /\ a # NoAttr) =>
         E = IF s = "REPOID" /\ a # NoAttr THEN Z ELSE D
  BY <1>1, <1>2, SMT
<1>. QED
  BY <1>3, <1>4, <1>5, Zenon DEF E, X, Y, Z

\* The entry of a tag.
TagOf(s, t, c) == [kind |-> s, text |-> t, cpeid |-> IF s = "DISTRO" THEN c ELSE NoAttr]

LEMMA RepomdEndedIs ==
    ASSUME NEW D, NEW r, NEW s, NEW t, NEW c
    PROVE  /\ s \in Sums =>
                 RepomdEnded(D, r, s, t, c) = [D EXCEPT !.records[r].fields = (s :> t) @@ @]
           /\ s \in Numbers =>
                 RepomdEnded(D, r, s, t, c) = [D EXCEPT !.records[r].fields = (s :> Number(t)) @@ @]
           /\ s \notin Sums \cup Numbers \cup Tags =>
                 RepomdEnded(D, r, s, t, c) = IF s = "REPOID" \/ (s = "REVISION" /\ t # <<>>)
                                              THEN [D EXCEPT !.fields = (s :> t) @@ @] ELSE D
           /\ s \in Tags =>
                 RepomdEnded(D, r, s, t, c) = [D EXCEPT !.tags = Append(@, TagOf(s, t, c))]
<1>. DEFINE E == RepomdEnded(D, r, s, t, c)
            V == [D EXCEPT !.records[r].fields = (s :> t) @@ @]
            W == [D EXCEPT !.records[r].fields = (s :> Number(t)) @@ @]
            X == [D EXCEPT !.fields = (s :> t) @@ @]
            Y == [D EXCEPT !.tags = Append(@, TagOf(s, t, c))]
<1>1. E = CASE s \in Sums -> V
            [] s \in Numbers -> W
            [] s = "REPOID" \/ (s = "REVISION" /\ t # <<>>) -> X
            [] s \in Tags -> Y
            [] OTHER -> D
  BY Zenon DEF RepomdEnded, TagOf
<1>2. /\ s \in Sums => s \notin Numbers /\ s \notin Tags /\ s # "REPOID" /\ s # "REVISION"
      /\ s \in Numbers => s \notin Sums /\ s \notin Tags /\ s # "REPOID" /\ s # "REVISION"
      /\ s \in Tags => s \notin Sums /\ s \notin Numbers /\ s # "REPOID" /\ s # "REVISION"
  BY DEF Sums, Numbers, Tags
<1>. HIDE DEF E, V, W, X, Y
<1>3. s \in Sums => E = V
  BY <1>1, <1>2, SMT
<1>4. s \in Numbers => E = W
  BY <1>1, <1>2, SMT
<1>5. s \in Tags => E = Y
  BY <1>1, <1>2, SMT
<1>6. s \notin Sums \cup Numbers \cup Tags =>
         E = IF s = "REPOID" \/ (s = "REVISION" /\ t # <<>>) THEN X ELSE D
  BY <1>1, <1>2, SMT
<1>. QED
  BY <1>3, <1>4, <1>5, <1>6, Zenon DEF E, V, W, X, Y

LEMMA RepomdStartedRecords ==
    ASSUME NEW D, "records" \in DOMAIN D, IsSequence(D.records), NEW r, NEW s, NEW a,
           NEW E, E = RepomdStarted(D, r, s, a)
    PROVE  /\ "records" \in DOMAIN E /\ IsSequence(E.records) /\ Len(D.records) \in Nat
           /\ Len(E.records) = IF s = "DATA" THEN Len(D.records) + 1 ELSE Len(D.records)
<1>1. CASE s = "DATA"
  <2>. DEFINE S == Append(D.records, NewRecord(RecordType(a)))
  <2>1. IsSequence(S) /\ Len(S) = Len(D.records) + 1 /\ Len(D.records) \in Nat
    BY SequenceAppend
  <2>2. E = [D EXCEPT !.records = S]
    BY <1>1, RepomdStartedIs
  <2>. HIDE DEF S
  <2>3. "records" \in DOMAIN E /\ E.records = S
    BY <2>2
  <2>. QED
    BY <1>1, <2>1, <2>3
<1>2. CASE s \in Sums \cup {"LOCATION"} /\ a # NoAttr
  <2>. DEFINE A == (s :> a) @@ D.records[r].attrs
              R == [D.records[r] EXCEPT !.attrs = A]
  <2>1. s # "DATA"
    BY <1>2 DEF Sums
  <2>2. E = [D EXCEPT !.records[r].attrs = A]
    BY <1>2, RepomdStartedIs
  <2>. HIDE DEF A
  <2>3. E = [D EXCEPT !.records = [D.records EXCEPT ![r] = R]]
    BY <2>2
  <2>. HIDE DEF R
  <2>4. /\ "records" \in DOMAIN E /\ IsSequence(E.records)
        /\ Len(E.records) = Len(D.records) /\ Len(D.records) \in Nat
    BY <2>3, RecordWritten
  <2>. QED
    BY <2>1, <2>4
<1>3. CASE s # "DATA" /\ ~(s \in Sums \cup {"LOCATION"} /\ a # NoAttr)
  <2>. DEFINE F == ("REPOIDTYPE" :> a) @@ D.fields
  <2>1. E = D \/ E = [D EXCEPT !.fields = F]
    BY <1>3, RepomdStartedIs
  <2>. HIDE DEF F
  <2>2. "records" \in DOMAIN E /\ E.records = D.records
    BY <2>1
  <2>. QED
    BY <1>3, <2>2, SequenceAppend
<1>. QED
  BY <1>1, <1>2, <1>3

LEMMA RepomdEndedRecords ==
    ASSUME NEW D, "records" \in DOMAIN D, IsSequence(D.records), NEW r, NEW s, NEW t, NEW c,
           NEW E, E = RepomdEnded(D, r, s, t, c)
    PROVE  /\ "records" \in DOMAIN E /\ IsSequence(E.records) /\ Len(D.records) \in Nat
           /\ Len(E.records) = Len(D.records)
<1>1. ASSUME NEW A, E = [D EXCEPT !.records[r].fields = A]
      PROVE  /\ "records" \in DOMAIN E /\ IsSequence(E.records)
             /\ Len(E.records) = Len(D.records) /\ Len(D.records) \in Nat
  <2>. DEFINE R == [D.records[r] EXCEPT !.fields = A]
  <2>1. E = [D EXCEPT !.records = [D.records EXCEPT ![r] = R]]
    BY <1>1
  <2>. HIDE DEF R
  <2>. QED
    BY <2>1, RecordWritten
<1>2. CASE s \in Sums
  <2>. DEFINE A == (s :> t) @@ D.records[r].fields
  <2>1. E = [D EXCEPT !.records[r].fields = A]
    BY <1>2, RepomdEndedIs
  <2>. HIDE DEF A
  <2>. QED
    BY <1>1, <2>1
<1>3. CASE s \in Numbers
  <2>. DEFINE A == (s :> Number(t)) @@ D.records[r].fields
  <2>1. E = [D EXCEPT !.records[r].fields = A]
    BY <1>3, RepomdEndedIs
  <2>. HIDE DEF A
  <2>. QED
    BY <1>1, <2>1
<1>4. CASE s \notin Sums \cup Numbers
  <2>. DEFINE F == (s :> t) @@ D.fields
              G == Append(D.tags, TagOf(s, t, c))
  <2>1. E = D \/ E = [D EXCEPT !.fields = F] \/ E = [D EXCEPT !.tags = G]
    BY <1>4, RepomdEndedIs
  <2>. HIDE DEF F, G
  <2>2. "records" \in DOMAIN E /\ E.records = D.records
    BY <2>1
  <2>. QED
    BY <2>2, SequenceAppend
<1>. QED
  BY <1>2, <1>3, <1>4

\* Only the elements inside of data look at the record that is begun, only those with text at
\* the text, only a distro at the cpeid.
LEMMA RepomdStartedUses ==
    ASSUME NEW D, NEW r, NEW q, NEW s, NEW a, s \in Sums \cup {"LOCATION"} => r = q
    PROVE  RepomdStarted(D, r, s, a) = RepomdStarted(D, q, s, a)
<1>1. CASE r = q
  BY <1>1
<1>2. CASE s \notin Sums \cup {"LOCATION"}
  BY <1>2, RepomdStartedIs
<1>. QED
  BY <1>1, <1>2

LEMMA RepomdEndedUses ==
    ASSUME NEW D, NEW r, NEW q, NEW s, NEW t, NEW u, NEW c, NEW e,
           s \in Sums \cup Numbers => r = q, s \in RepomdTexts => t = u, s = "DISTRO" => c = e
    PROVE  RepomdEnded(D, r, s, t, c) = RepomdEnded(D, q, s, u, e)
<1>1. CASE s \in Sums
  <2>1. r = q /\ t = u
    BY <1>1 DEF RepomdTexts
  <2>. QED
    BY <1>1, <2>1, RepomdEndedIs
<1>2. CASE s \in Numbers
  <2>1. r = q /\ t = u
    BY <1>2 DEF RepomdTexts
  <2>. DEFINE n == Number(t)
  <2>2. n = Number(u)
    BY <2>1
  <2>. HIDE DEF n
  <2>. QED
    BY <1>2, <2>1, RepomdEndedIs
<1>3. CASE s \in Tags
  <2>1. t = u
    BY <1>3 DEF RepomdTexts
  <2>2. TagOf(s, t, c) = TagOf(s, u, e)
    BY <2>1 DEF TagOf
  <2>. QED
    BY <1>3, <2>2, RepomdEndedIs
<1>4. CASE s \notin Sums \cup Numbers \cup Tags
  <2>1. s \in {"REPOID", "REVISION"} => t = u
    BY DEF RepomdTexts
  <2>2. CASE s = "REPOID" \/ (s = "REVISION" /\ t # <<>>)
    <3>1. t = u
      BY <2>1, <2>2
    <3>2. s = "REPOID" \/ (s = "REVISION" /\ u # <<>>)
      BY <2>2, <3>1
    <3>. QED
      BY <1>4, <2>2, <3>1, <3>2, RepomdEndedIs
  <2>3. CASE ~(s = "REPOID" \/ (s = "REVISION" /\ t # <<>>))
    <3>1. ~(s = "REPOID" \/ (s = "REVISION" /\ u # <<>>))
      BY <2>1, <2>3
    <3>. QED
      BY <1>4, <2>3, <3>1, RepomdEndedIs
  <2>. QED
    BY <2>2, <2>3
<1>. QED
  BY <1>1, <1>2, <1>3, <1>4

\* Where the states of a record come from.
LEMMA RepomdStates ==
    IsRepomd => \A s \in States : /\ From(s) = "DATA" <=> s \in InData /\ s # "DATA"
                                  /\ From(s) \in InData => From(s) = "DATA"
                                  /\ From(s) # "DISTRO"
<1>1. \A sw \in RepomdSwitches : /\ sw.from = "DATA" <=> sw.to \in InData /\ sw.to # "DATA"
                                 /\ sw.from \in InData => sw.from = "DATA"
                                 /\ sw.from # "DISTRO"
  BY DEF RepomdSwitches, Switch, InData, Sums, Numbers
<1>. QED
  BY <1>1, RepomdTable DEF States, Table, From

\* The state that an element which is recognised leads to.
LEMMA KnownState ==
    ASSUME SInv, NEW name, Known(Table, pd, name)
    PROVE  Opened(Table, pd, name).state = Place(name)
<1>. DEFINE p == Place(name)
            t == p \in Texts
            d == pd.depth + 1
<1>1. Opened(Table, pd, name) =
         [pd EXCEPT !.state = p, !.docontent = t, !.depth = d, !.statedepth = d, !.content = <<>>]
  BY KnownIsPlaced
<1>2. pd \in Parser
  BY DEF SInv, Typed
<1>. HIDE DEF p, t, d
<1>3. Opened(Table, pd, name).state = p
  BY <1>1, <1>2 DEF Parser
<1>. QED
  BY <1>3 DEF p

LEMMA RepomdStart ==
    ASSUME SInv, RepomdContextHolds, IsRepomd, doc = meant,
           NEW name \in DOMAIN Attributes[format], NEW attr \in Attributes[format][name],
           Start(name, attr)
    PROVE  RepomdContextHolds' /\ doc' = meant'
<1>. DEFINE s == Place(name)
<1>1. meant' = MeantByStart(s, attr) /\ StartHandler(name, attr)
  BY DEF Start
<1>2. /\ \A i \in DOMAIN open : open'[i] = open[i]
      /\ ~Known(Table, pd, name) => pd'.state = pd.state /\ pd'.statedepth = pd.statedepth
      /\ Known(Table, pd, name) =>
            /\ pd'.state = s /\ pd'.statedepth = pd.statedepth + 1
            /\ open'[pd.statedepth + 1].attr = attr
  BY StackStart
<1>3. pd.state = "DISTRO" => pd.statedepth \in DOMAIN open
  BY Innermost DEF SInv, Stack
<1>4. CASE ~Known(Table, pd, name)
  <2>1. meant' = meant /\ ctx' = ctx /\ doc' = doc
    BY <1>1, <1>4, KnownIsPlaced, Zenon DEF MeantByStart, StartHandler
  <2>2. pd'.state = pd.state /\ (pd.state = "DISTRO" => open'[pd'.statedepth] = open[pd.statedepth])
    BY <1>2, <1>3, <1>4
  <2>. QED
    BY <2>1, <2>2 DEF RepomdContextHolds
<1>5. CASE Known(Table, pd, name)
  <2>1. s \in States /\ From(s) = pd.state /\ s # "none"
    BY <1>5, KnownIsPlaced, Tables DEF States
  <2>2. Opened(Table, pd, name).state = s
    BY <1>5, KnownState
  <2>3. ctx' = RepomdOpens(ctx, doc, s, attr) /\ doc' = RepomdStarted(doc, ctx.record, s, attr)
    BY <1>1, <1>5, <2>2, Zenon DEF StartHandler, Acts
  <2>4. meant' = RepomdStarted(meant, Len(meant.records), s, attr)
    BY <1>1, <2>1, Zenon DEF MeantByStart
  <2>5. pd'.state = s /\ open'[pd'.statedepth].attr = attr
    BY <1>2, <1>5
  <2>6. attr \in Values
    BY DEF Values, SInv, Typed
  <2>. HIDE DEF s
  <2>7. doc' = meant'
    <3>1. s \in Sums \cup {"LOCATION"} => s \in InData /\ s # "DATA"
      BY DEF InData, Sums
    <3>2. s \in Sums \cup {"LOCATION"} => ctx.record = Len(doc.records)
      BY <2>1, <3>1, RepomdStates DEF RepomdContextHolds, InData
    <3>. QED
      BY <2>3, <2>4, <3>2, RepomdStartedUses
  <2>8. /\ "records" \in DOMAIN doc' /\ IsSequence(doc'.records) /\ Len(doc.records) \in Nat
        /\ Len(doc'.records) = IF s = "DATA" THEN Len(doc.records) + 1 ELSE Len(doc.records)
    BY <2>3, RepomdStartedRecords DEF RepomdContextHolds
  <2>9. /\ ctx' \in [record : Nat, cpeid : Values, found : BOOLEAN]
        /\ ctx'.record = IF s = "DATA" THEN Len(doc.records) + 1 ELSE ctx.record
        /\ ctx'.cpeid = IF s = "DISTRO" /\ attr # NoAttr THEN attr ELSE ctx.cpeid
    <3>. DEFINE n == Len(doc.records) + 1
    <3>1. n \in Nat /\ ctx \in [record : Nat, cpeid : Values, found : BOOLEAN]
      BY <2>8 DEF RepomdContextHolds
    <3>2. ctx' = CASE s = "REPOMD" -> [ctx EXCEPT !.found = TRUE]
                   [] s = "DATA" -> [ctx EXCEPT !.record = n]
                   [] s = "DISTRO" /\ attr # NoAttr -> [ctx EXCEPT !.cpeid = attr]
                   [] OTHER -> ctx
      BY <2>3, Zenon DEF RepomdOpens
    <3>. HIDE DEF n
    <3>3. /\ ctx' \in [record : Nat, cpeid : Values, found : BOOLEAN]
          /\ ctx'.record = IF s = "DATA" THEN n ELSE ctx.record
          /\ ctx'.cpeid = IF s = "DISTRO" /\ attr # NoAttr THEN attr ELSE ctx.cpeid
      BY <2>6, <3>1, <3>2
    <3>. QED
      BY <3>3 DEF n
  <2>10. ctx'.record = IF s \in InData THEN Len(doc'.records) ELSE 0
    <3>1. "DATA" \in InData
      BY DEF InData
    <3>. QED
      BY <2>1, <2>8, <2>9, <3>1, RepomdStates DEF RepomdContextHolds
  <2>11. s \in InData => Len(doc'.records) # 0
    <3>1. "DATA" \in InData
      BY DEF InData
    <3>. QED
      BY <2>1, <2>8, <3>1, RepomdStates DEF RepomdContextHolds
  <2>12. ctx'.cpeid = IF s = "DISTRO" THEN attr ELSE NoAttr
    BY <2>1, <2>9, RepomdStates DEF RepomdContextHolds
  <2>. QED
    BY <2>5, <2>7, <2>8, <2>9, <2>10, <2>11, <2>12 DEF RepomdContextHolds
<1>. QED
  BY <1>4, <1>5

LEMMA RepomdEnd ==
    ASSUME SInv, RepomdContextHolds, IsRepomd, doc = meant, End
    PROVE  RepomdContextHolds' /\ doc' = meant'
<1>. DEFINE s == pd.state
            e == Last(open)
<1>1. open # <<>> /\ meant' = MeantByEnd /\ EndHandler
  BY DEF End
<1>2. /\ Leaves(pd) <=> e.place # "none"
      /\ Leaves(pd) => s = e.place /\ s \in States
  BY <1>1, LeavesPlaced
<1>. HIDE DEF s, e
<1>3. /\ ~Leaves(pd) => pd'.state = pd.state /\ pd'.statedepth = pd.statedepth
                        /\ \A i \in 1 .. pd.statedepth : open'[i] = open[i]
      /\ Leaves(pd) => pd'.state = From(pd.state)
  BY StackEnd, Zenon
<1>4. CASE ~Leaves(pd)
  <2>1. meant' = meant /\ ctx' = ctx /\ doc' = doc
    BY <1>1, <1>2, <1>4, Zenon DEF MeantByEnd, EndHandler, e
  <2>2. pd'.state = pd.state /\ (pd.state = "DISTRO" => open'[pd'.statedepth] = open[pd.statedepth])
    <3>1. pd.state = "DISTRO" => pd.statedepth \in 1 .. pd.statedepth
      BY Innermost DEF SInv, Stack
    <3>. QED
      BY <1>4, <1>3, <3>1
  <2>. QED
    BY <2>1, <2>2 DEF RepomdContextHolds
<1>5. CASE Leaves(pd)
  <2>1. /\ ctx' = RepomdCloses(ctx, s)
        /\ doc' = RepomdEnded(doc, ctx.record, s, pd.content, ctx.cpeid)
    BY <1>1, <1>5, Zenon DEF EndHandler, Acts, s
  <2>2. meant' = RepomdEnded(meant, Len(meant.records), s, e.text, e.attr)
    BY <1>1, <1>2, <1>5, Zenon DEF MeantByEnd, e
  <2>3. pd'.state = From(s) /\ s \in States
    BY <1>2, <1>5, <1>3 DEF s
  <2>4. e = open[pd.statedepth]
    BY <1>1, <1>5, Innermost DEF Last, Leaves, e
  <2>5. s \in Texts => pd.content = e.text
    BY <2>4 DEF SInv, Stack, s
  <2>6. Texts = RepomdTexts
    BY DEF Texts
  <2>7. s \in Sums \cup Numbers => ctx.record = Len(doc.records)
    BY DEF RepomdContextHolds, InData, s
  <2>8. s = "DISTRO" => ctx.cpeid = e.attr
    BY <2>4 DEF RepomdContextHolds, s
  <2>9. ctx \in [record : Nat, cpeid : Values, found : BOOLEAN] /\ NoAttr \in Values
    BY DEF RepomdContextHolds, Values
  <2>10. /\ ctx.record = IF s \in InData THEN Len(doc.records) ELSE 0
         /\ s \in InData => Len(doc.records) # 0
         /\ s # "DISTRO" => ctx.cpeid = NoAttr
    BY DEF RepomdContextHolds, s
  <2>11. doc' = meant'
    BY <2>1, <2>2, <2>5, <2>6, <2>7, <2>8, RepomdEndedUses
  <2>12. /\ "records" \in DOMAIN doc' /\ IsSequence(doc'.records) /\ Len(doc.records) \in Nat
         /\ Len(doc'.records) = Len(doc.records)
    BY <2>1, RepomdEndedRecords DEF RepomdContextHolds
  <2>13. /\ ctx' \in [record : Nat, cpeid : Values, found : BOOLEAN]
         /\ ctx'.record = IF s = "DATA" THEN 0 ELSE ctx.record
         /\ ctx'.cpeid = IF s = "DISTRO" THEN NoAttr ELSE ctx.cpeid
    <3>1. ctx' = CASE s = "DATA" -> [ctx EXCEPT !.record = 0]
                   [] s = "DISTRO" -> [ctx EXCEPT !.cpeid = NoAttr]
                   [] OTHER -> ctx
      BY <2>1, Zenon DEF RepomdCloses
    <3>. QED
      BY <2>9, <3>1
  <2>14. /\ ctx'.record = IF From(s) \in InData THEN Len(doc'.records) ELSE 0
         /\ From(s) \in InData => Len(doc'.records) # 0
    <3>1. "DATA" \in InData
      BY DEF InData
    <3>. QED
      BY <2>3, <2>10, <2>12, <2>13, <3>1, RepomdStates
  <2>15. ctx'.cpeid = NoAttr /\ From(s) # "DISTRO"
    BY <2>3, <2>10, <2>13, RepomdStates
  <2>. QED
    BY <2>3, <2>11, <2>12, <2>13, <2>14, <2>15 DEF RepomdContextHolds
<1>. QED
  BY <1>4, <1>5

-------------------------------------------------------------------------------
(* What a metalink is built of: the third of the open elements is the file *)
(* that is read or passed over, and an object is in the making exactly     *)
(* inside of its element.                                                  *)

Levelled ==
    /\ Level(pd.state) = pd.statedepth
    /\ \A i \in 1 .. pd.statedepth : Level(open[i].place) = i

MetalinkContexts == [ignore : BOOLEAN, found : BOOLEAN, url : BOOLEAN, hash : BOOLEAN,
                     alternate : BOOLEAN]

MetalinkContextHolds ==
    /\ ctx \in MetalinkContexts
    /\ "filename" \in DOMAIN doc
    /\ ctx.found <=> doc.filename # NoAttr
    /\ pd.statedepth >= 3 => (ctx.ignore <=> ~open[3].wanted)
    /\ ctx.hash <=> pd.state \in Hashes /\ ~ctx.ignore /\ open[pd.statedepth].attr # NoAttr
    /\ ctx.url <=> pd.state = "URL" /\ ~ctx.ignore
    /\ ctx.alternate <=> pd.state \in InAlternate /\ ~ctx.ignore

\* Where the states of a metalink come from.
LEMMA MetalinkStates ==
    ~IsRepomd => \A s \in States :
        /\ From(s) \notin Hashes \cup {"URL"}
        /\ From(s) \in InAlternate <=> s \in InAlternate /\ s # "ALTERNATE"
        /\ Level(s) = Level(From(s)) + 1 /\ (Level(s) = 3 <=> s = "FILE")
        /\ Level(s) < 3 <=> s \in {"METALINK", "FILES"}
<1>1. \A sw \in MetalinkSwitches :
        /\ sw.from \notin Hashes \cup {"URL"}
        /\ sw.from \in InAlternate <=> sw.to \in InAlternate /\ sw.to # "ALTERNATE"
        /\ Level(sw.to) = Level(sw.from) + 1 /\ (Level(sw.to) = 3 <=> sw.to = "FILE")
        /\ Level(sw.to) < 3 <=> sw.to \in {"METALINK", "FILES"}
  BY DEF MetalinkSwitches, Switch, Hashes, InAlternate, Level
<1>. QED
  BY <1>1, MetalinkTable DEF States, Table, From

\* What the start of an element does: which elements do nothing, and the name of the file.
LEMMA MetalinkStartedIs ==
    ASSUME NEW D, NEW s, NEW a
    PROVE  /\ s = "FILE" => MetalinkStarted(D, s, a) = [D EXCEPT !.filename = a]
           /\ s \notin {"FILE", "ALTERNATE", "HASH", "ALTERNATE_HASH", "URL"} =>
                 MetalinkStarted(D, s, a) = D
           /\ "filename" \in DOMAIN D =>
                 /\ "filename" \in DOMAIN MetalinkStarted(D, s, a)
                 /\ MetalinkStarted(D, s, a).filename = IF s = "FILE" THEN a ELSE D.filename
<1>. DEFINE E == MetalinkStarted(D, s, a)
            U == [D EXCEPT !.filename = a]
            v == Append(D.alternates, NewAlternate)
            V == [D EXCEPT !.alternates = v]
            w == Append(D.hashes, [type |-> a, value |-> <<>>])
            W == [D EXCEPT !.hashes = w]
            x == [D.alternates EXCEPT ![Len(D.alternates)].hashes =
                     Append(@, [type |-> a, value |-> <<>>])]
            X == [D EXCEPT !.alternates = x]
            y == Append(D.urls, [preference |-> Preference(a), url |-> <<>>])
            Y == [D EXCEPT !.urls = y]
<1>1. E = CASE s = "FILE" -> U
            [] s = "ALTERNATE" -> V
            [] s = "HASH" /\ a # NoAttr -> W
            [] s = "ALTERNATE_HASH" /\ a # NoAttr -> X
            [] s = "URL" -> Y
            [] OTHER -> D
  BY DEF MetalinkStarted
<1>. HIDE DEF E
<1>2. "filename" \in DOMAIN D =>
         /\ "filename" \in DOMAIN U /\ U.filename = a
         /\ "filename" \in DOMAIN V /\ V.filename = D.filename
         /\ "filename" \in DOMAIN W /\ W.filename = D.filename
         /\ "filename" \in DOMAIN X /\ X.filename = D.filename
         /\ "filename" \in DOMAIN Y /\ Y.filename = D.filename
  <2>. HIDE DEF v, w, x, y
  <2>. QED
    OBVIOUS
<1>. HIDE DEF U, V, W, X, Y
<1>3. s = "FILE" => E = U
  BY <1>1, SMT
<1>4. s \notin {"FILE", "ALTERNATE", "HASH", "ALTERNATE_HASH", "URL"} => E = D
  BY <1>1, SMT
<1>5. s # "FILE" => E \in {V, W, X, Y, D}
  BY <1>1, SMT
<1>6. "filename" \in DOMAIN D =>
         "filename" \in DOMAIN E /\ E.filename = IF s = "FILE" THEN a ELSE D.filename
  BY <1>2, <1>3, <1>5
<1>. QED
  BY <1>3, <1>4, <1>6, Zenon DEF E, U

\* What its end does: only an element with text looks at the text, only a hash at whether
\* there is one in the making.
LEMMA MetalinkEndedIs ==
    ASSUME NEW D, NEW s, NEW t, NEW u, NEW h, NEW g
    PROVE  /\ (s \in MetalinkTexts => t = u) /\ (s \in Hashes => (h <=> g)) =>
                 MetalinkEnded(D, s, t, h) = MetalinkEnded(D, s, u, g)
           /\ s \notin MetalinkTexts => MetalinkEnded(D, s, t, h) = D
           /\ "filename" \in DOMAIN D =>
                 /\ "filename" \in DOMAIN MetalinkEnded(D, s, t, h)
                 /\ MetalinkEnded(D, s, t, h).filename = D.filename
<1>. DEFINE a == Len(D.alternates)
            S(b) == [D EXCEPT !.timestamp = Number(b)]
            U(b) == [D EXCEPT !.size = Number(b)]
            V(b) == [D EXCEPT !.alternates[a].timestamp = Number(b)]
            W(b) == [D EXCEPT !.alternates[a].size = Number(b)]
            X(b) == [D EXCEPT !.hashes[Len(D.hashes)].value = b]
            Y(b) == [D EXCEPT !.alternates[a].hashes[Len(D.alternates[a].hashes)].value = b]
            Z(b) == [D EXCEPT !.urls[Len(D.urls)].url = b]
            C(b, k) == CASE s = "TIMESTAMP" -> S(b)
                         [] s = "SIZE" -> U(b)
                         [] s = "ALTERNATE_TIMESTAMP" -> V(b)
                         [] s = "ALTERNATE_SIZE" -> W(b)
                         [] s = "HASH" /\ k -> X(b)
                         [] s = "ALTERNATE_HASH" /\ k -> Y(b)
                         [] s = "URL" -> Z(b)
                         [] OTHER -> D
<1>1. \A b, k : MetalinkEnded(D, s, b, k) = C(b, k)
  BY Zenon DEF MetalinkEnded
<1>2. ASSUME NEW b, "filename" \in DOMAIN D, NEW E \in {S(b), U(b), V(b), W(b), X(b), Y(b), Z(b), D}
      PROVE  "filename" \in DOMAIN E /\ E.filename = D.filename
  <2>1. ASSUME NEW F, E = [D EXCEPT !.timestamp = F] \/ E = [D EXCEPT !.size = F]
               \/ E = [D EXCEPT !.alternates = F] \/ E = [D EXCEPT !.hashes = F]
               \/ E = [D EXCEPT !.urls = F] \/ E = D
        PROVE  "filename" \in DOMAIN E /\ E.filename = D.filename
    BY <1>2, <2>1
  <2>2. \E F : E = [D EXCEPT !.timestamp = F] \/ E = [D EXCEPT !.size = F]
               \/ E = [D EXCEPT !.alternates = F] \/ E = [D EXCEPT !.hashes = F]
               \/ E = [D EXCEPT !.urls = F] \/ E = D
    BY <1>2, Zenon
  <2>. QED
    BY <2>1, <2>2, Zenon
<1>. HIDE DEF S, U, V, W, X, Y, Z
<1>3. \A b, k : C(b, k) \in {S(b), U(b), V(b), W(b), X(b), Y(b), Z(b), D}
  BY SMT
<1>4. s \notin MetalinkTexts => \A b, k : C(b, k) = D
  BY SMT DEF MetalinkTexts, Hashes
<1>5. s \notin Hashes => \A b, k, l : C(b, k) = C(b, l)
  BY SMT DEF Hashes
<1>6. \A b, k, l : (k <=> l) => C(b, k) = C(b, l)
  BY SMT
<1>. HIDE DEF C
<1>7. (s \in MetalinkTexts => t = u) /\ (s \in Hashes => (h <=> g)) => C(t, h) = C(u, g)
  <2>1. CASE s \notin MetalinkTexts
    BY <1>4, <2>1, Zenon
  <2>2. CASE s \in Hashes
    <3>1. s \in MetalinkTexts
      BY <2>2 DEF MetalinkTexts
    <3>. SUFFICES ASSUME t = u, h <=> g PROVE C(t, h) = C(u, g)
      BY <2>2, <3>1
    <3>2. C(t, h) = C(t, g)
      BY <1>6, Zenon
    <3>. QED
      BY <3>2
  <2>3. CASE s \in MetalinkTexts /\ s \notin Hashes
    BY <1>5, <2>3, Zenon
  <2>. QED
    BY <2>1, <2>2, <2>3
<1>8. "filename" \in DOMAIN D => "filename" \in DOMAIN C(t, h) /\ C(t, h).filename = D.filename
  BY <1>2, <1>3, Zenon
<1>. QED
  BY <1>1, <1>4, <1>7, <1>8, Zenon

\* What an element does to the context.
LEMMA MetalinkOpensIs ==
    ASSUME NEW c \in MetalinkContexts, NEW s, NEW a, NEW o, o = MetalinkOpens(c, s, a)
    PROVE  /\ o \in MetalinkContexts
           /\ s # "FILE" => o.ignore = c.ignore /\ o.found = c.found
           /\ s = "FILE" /\ a # NoAttr => /\ o.ignore = Passes(c, a)
                                          /\ o.found = (c.found \/ ~Passes(c, a))
           /\ o.hash = (c.hash \/ (s \in Hashes /\ a # NoAttr))
           /\ o.url = (c.url \/ s = "URL")
           /\ o.alternate = (c.alternate \/ s = "ALTERNATE")
<1>1. CASE s = "FILE" /\ a = NoAttr
  <2>1. o = c
    BY <1>1, SMT DEF MetalinkOpens
  <2>. QED
    BY <1>1, <2>1 DEF MetalinkContexts, Hashes
<1>2. CASE s = "FILE" /\ a # NoAttr
  <2>1. o = IF Passes(c, a) THEN [c EXCEPT !.ignore = TRUE]
            ELSE [c EXCEPT !.ignore = FALSE, !.found = TRUE]
    BY <1>2, SMT DEF MetalinkOpens
  <2>2. Passes(c, a) \in BOOLEAN /\ (~Passes(c, a) => ~c.found)
    BY DEF Passes
  <2>3. CASE Passes(c, a)
    BY <1>2, <2>1, <2>2, <2>3 DEF MetalinkContexts, Hashes
  <2>4. CASE ~Passes(c, a)
    BY <1>2, <2>1, <2>2, <2>4 DEF MetalinkContexts, Hashes
  <2>. QED
    BY <2>3, <2>4
<1>3. CASE s = "ALTERNATE"
  <2>1. o = [c EXCEPT !.alternate = TRUE]
    BY <1>3, SMT DEF MetalinkOpens
  <2>. QED
    BY <1>3, <2>1 DEF MetalinkContexts, Hashes
<1>4. CASE s \in Hashes
  <2>. DEFINE h == c.hash \/ a # NoAttr
  <2>1. o = [c EXCEPT !.hash = h] /\ h \in BOOLEAN
    BY <1>4, SMT DEF MetalinkOpens, Hashes
  <2>2. h = (c.hash \/ (s \in Hashes /\ a # NoAttr))
    BY <1>4
  <2>. HIDE DEF h
  <2>3. /\ o \in MetalinkContexts /\ o.ignore = c.ignore /\ o.found = c.found
        /\ o.hash = h /\ o.url = c.url /\ o.alternate = c.alternate
    BY <2>1 DEF MetalinkContexts
  <2>4. s # "FILE" /\ s # "URL" /\ s # "ALTERNATE"
    BY <1>4 DEF Hashes
  <2>5. c.url \in BOOLEAN /\ c.alternate \in BOOLEAN
    BY DEF MetalinkContexts
  <2>. QED
    BY <2>2, <2>3, <2>4, <2>5
<1>5. CASE s = "URL"
  <2>1. o = [c EXCEPT !.url = TRUE]
    BY <1>5, SMT DEF MetalinkOpens
  <2>. QED
    BY <1>5, <2>1 DEF MetalinkContexts, Hashes
<1>6. CASE s \notin Hashes \cup {"FILE", "ALTERNATE", "URL"}
  <2>1. o = c
    BY <1>6, SMT DEF MetalinkOpens, Hashes
  <2>. QED
    BY <1>6, <2>1 DEF MetalinkContexts
<1>. QED
  BY <1>1, <1>2, <1>3, <1>4, <1>5, <1>6

LEMMA MetalinkClosesIs ==
    ASSUME NEW c \in MetalinkContexts, NEW s, NEW o, o = MetalinkCloses(c, s)
    PROVE  /\ o \in MetalinkContexts /\ o.ignore = c.ignore /\ o.found = c.found
           /\ o.hash = (c.hash /\ s \notin Hashes)
           /\ o.url = (c.url /\ s # "URL")
           /\ o.alternate = (c.alternate /\ s # "ALTERNATE")
<1>1. o = CASE s = "ALTERNATE" -> [c EXCEPT !.alternate = FALSE]
            [] s \in Hashes -> [c EXCEPT !.hash = FALSE]
            [] s = "URL" -> [c EXCEPT !.url = FALSE]
            [] OTHER -> c
  BY SMT DEF MetalinkCloses, Hashes
<1>2. CASE s = "ALTERNATE"
  BY <1>1, <1>2 DEF MetalinkContexts, Hashes
<1>3. CASE s \in Hashes
  BY <1>1, <1>3 DEF MetalinkContexts, Hashes
<1>4. CASE s = "URL"
  BY <1>1, <1>4 DEF MetalinkContexts, Hashes
<1>5. CASE s \notin Hashes \cup {"ALTERNATE", "URL"}
  BY <1>1, <1>5 DEF MetalinkContexts
<1>. QED
  BY <1>2, <1>3, <1>4, <1>5

\* The levels are those of the states, and the file element is the third.
LEMMA LevelledInit == Init /\ ~IsRepomd => Levelled
BY DEF Init, Levelled, NewParser, Level

LEMMA LevelledStart ==
    ASSUME SInv, Levelled, ~IsRepomd,
           NEW name \in DOMAIN Attributes[format], NEW attr \in Attributes[format][name],
           Start(name, attr)
    PROVE  Levelled'
<1>1. /\ \A i \in DOMAIN open : open'[i] = open[i]
      /\ ~Known(Table, pd, name) => pd'.state = pd.state /\ pd'.statedepth = pd.statedepth
      /\ Known(Table, pd, name) =>
            /\ pd'.state = Place(name) /\ pd'.statedepth = pd.statedepth + 1
            /\ open'[pd.statedepth + 1].place = Place(name)
  BY StackStart
<1>2. \A i \in 1 .. pd.statedepth : i \in DOMAIN open
  BY Innermost
<1>3. CASE ~Known(Table, pd, name)
  BY <1>1, <1>2, <1>3 DEF Levelled
<1>4. CASE Known(Table, pd, name)
  <2>. DEFINE s == Place(name)
  <2>1. Level(s) = Level(pd.state) + 1
    BY <1>4, KnownIsPlaced, Levels
  <2>. HIDE DEF s
  <2>2. pd.statedepth \in Nat
    BY Innermost
  <2>3. \A i \in 1 .. pd.statedepth + 1 : i = pd.statedepth + 1 \/ i \in 1 .. pd.statedepth
    BY <2>2
  <2>4. pd'.state = s /\ pd'.statedepth = pd.statedepth + 1 /\ open'[pd.statedepth + 1].place = s
    BY <1>1, <1>4 DEF s
  <2>. QED
    BY <1>1, <1>2, <2>1, <2>3, <2>4 DEF Levelled
<1>. QED
  BY <1>3, <1>4

LEMMA LevelledText ==
    ASSUME SInv, Levelled, NEW token \in {Digit, Other}, Text(token)
    PROVE  Levelled'
<1>1. /\ pd'.state = pd.state /\ pd'.statedepth = pd.statedepth
      /\ \A i \in DOMAIN open : open'[i].place = open[i].place
  BY StackText
<1>2. \A i \in 1 .. pd.statedepth : i \in DOMAIN open
  BY Innermost
<1>. QED
  BY <1>1, <1>2 DEF Levelled

LEMMA LevelledEnd ==
    ASSUME SInv, Levelled, ~IsRepomd, End
    PROVE  Levelled'
<1>1. /\ \A i \in 1 .. pd.statedepth - 1 : open'[i] = open[i]
      /\ ~Leaves(pd) => pd'.state = pd.state /\ pd'.statedepth = pd.statedepth
                        /\ \A i \in 1 .. pd.statedepth : open'[i] = open[i]
      /\ Leaves(pd) => pd'.state = From(pd.state) /\ pd'.statedepth = pd.statedepth - 1
  BY StackEnd, Zenon
<1>2. CASE ~Leaves(pd)
  BY <1>1, <1>2 DEF Levelled
<1>3. CASE Leaves(pd)
  <2>1. open # <<>>
    BY DEF End
  <2>2. pd.state \in States
    BY <1>3, <2>1, LeavesPlaced
  <2>. DEFINE s == pd.state
              f == From(s)
  <2>3. Level(s) = Level(f) + 1
    BY <2>2, Levels
  <2>4. Level(f) \in Nat /\ pd.statedepth \in Nat
    BY Innermost DEF Level
  <2>5. pd'.state = f /\ Level(s) = pd.statedepth
    BY <1>1, <1>3 DEF Levelled
  <2>. HIDE DEF s, f
  <2>6. \A i \in 1 .. pd.statedepth - 1 : i \in 1 .. pd.statedepth
    BY <2>4
  <2>. QED
    BY <1>1, <1>3, <2>3, <2>4, <2>5, <2>6 DEF Levelled
<1>. QED
  BY <1>2, <1>3

LEMMA InFileIs ==
    ASSUME SInv, Levelled, MetalinkContextHolds, ~IsRepomd, pd.statedepth = pd.depth
    PROVE  InFile <=> pd.statedepth >= 3 /\ ~ctx.ignore
<1>1. /\ pd.depth = Len(open) /\ pd.depth \in Nat /\ DOMAIN open = 1 .. pd.depth
      /\ open \in Seq(Element)
  BY Innermost DEF SInv, Typed
<1>2. ASSUME pd.statedepth >= 3 PROVE open[3].place = "FILE"
  <2>1. 3 \in 1 .. pd.statedepth /\ 3 \in DOMAIN open
    BY <1>1, <1>2
  <2>2. Level(open[3].place) = 3 /\ open[3] \in Element /\ open[3].place # "none"
    BY <1>1, <2>1, SequenceDomain DEF Levelled, SInv, Stack
  <2>3. open[3].place \in States
    BY <2>2 DEF Element
  <2>. QED
    BY <2>2, <2>3, MetalinkStates
<1>. QED
  BY <1>1, <1>2 DEF InFile, MetalinkContextHolds

\* A file without a name stops the parser.
LEMMA NamedStart ==
    ASSUME SInv, ~IsRepomd, NEW name, NEW attr, StartHandler(name, attr), Known(Table, pd, name),
           Place(name) = "FILE", ~pd'.err
    PROVE  attr # NoAttr
<1>. DEFINE moved == Opened(Table, pd, name)
            warns == Strange(Table, pd, name) \/ (Acts("FILE") /\ StartWarns("FILE", attr))
<1>1. moved.state = "FILE" /\ Acts("FILE")
  BY KnownState DEF Acts, Reads
<1>2. \E cb \in WarningCb : pd' = [moved EXCEPT !.err =
         (warns /\ cb # "OK") \/ Nameless("FILE", attr)]
  BY <1>1, Zenon DEF StartHandler
<1>3. "err" \in DOMAIN moved
  <2>1. pd \in Parser
    BY DEF SInv, Typed
  <2>. DEFINE p == Place(name)
              t == p \in Texts
              d == pd.depth + 1
  <2>2. moved = [pd EXCEPT !.state = p, !.docontent = t, !.depth = d, !.statedepth = d,
                           !.content = <<>>]
    BY KnownIsPlaced
  <2>. HIDE DEF moved, p, t, d
  <2>. QED
    BY <2>1, <2>2 DEF Parser
<1>. HIDE DEF moved, warns
<1>4. ~Nameless("FILE", attr)
  <2>1. PICK cb \in WarningCb :
           pd' = [moved EXCEPT !.err = (warns /\ cb # "OK") \/ Nameless("FILE", attr)]
    BY <1>2
  <2>. DEFINE b == (warns /\ cb # "OK") \/ Nameless("FILE", attr)
  <2>2. pd' = [moved EXCEPT !.err = b]
    BY <2>1
  <2>. HIDE DEF b
  <2>3. pd'.err = b
    BY <1>3, <2>2
  <2>. QED
    BY <2>3, Zenon DEF b
<1>. QED
  BY <1>4 DEF Nameless

LEMMA MetalinkStart ==
    ASSUME SInv, Levelled, MetalinkContextHolds, ~IsRepomd, doc = meant,
           NEW name \in DOMAIN Attributes[format], NEW attr \in Attributes[format][name],
           Start(name, attr), ~pd'.err
    PROVE  MetalinkContextHolds' /\ doc' = meant'
<1>. DEFINE s == Place(name)
            n == pd.statedepth
<1>1. meant' = MeantByStart(s, attr) /\ StartHandler(name, attr)
  BY DEF Start
<1>2. /\ \A i \in DOMAIN open : open'[i] = open[i]
      /\ ~Known(Table, pd, name) => pd'.state = pd.state /\ pd'.statedepth = n
      /\ Known(Table, pd, name) =>
            /\ pd'.state = s /\ pd'.statedepth = n + 1
            /\ open'[n + 1].attr = attr /\ open'[n + 1].wanted = FirstWanted(attr)
  <2>1. (~IsRepomd /\ FirstWanted(attr)) = FirstWanted(attr)
    BY Zenon DEF FirstWanted
  <2>. QED
    BY <2>1, StackStart, Zenon
<1>3. n \in Nat /\ (n # 0 => n \in DOMAIN open) /\ (n >= 3 => 3 \in DOMAIN open)
  BY Innermost
<1>4. /\ ctx \in MetalinkContexts /\ "filename" \in DOMAIN doc
      /\ ctx.found <=> doc.filename # NoAttr
      /\ n >= 3 => (ctx.ignore <=> ~open[3].wanted)
      /\ ctx.hash <=> pd.state \in Hashes /\ ~ctx.ignore /\ open[n].attr # NoAttr
      /\ ctx.url <=> pd.state = "URL" /\ ~ctx.ignore
      /\ ctx.alternate <=> pd.state \in InAlternate /\ ~ctx.ignore
  BY DEF MetalinkContextHolds
<1>5. CASE ~Known(Table, pd, name)
  <2>1. meant' = meant /\ ctx' = ctx /\ doc' = doc
    BY <1>1, <1>5, KnownIsPlaced, Zenon DEF MeantByStart, StartHandler
  <2>2. pd.state \in Hashes => n # 0
    BY DEF SInv, Stack, Hashes
  <2>3. /\ pd'.state = pd.state /\ pd'.statedepth = n
        /\ pd.state \in Hashes => open'[n] = open[n]
        /\ n >= 3 => open'[3] = open[3]
    BY <1>2, <1>3, <1>5, <2>2
  <2>. HIDE DEF n
  <2>. QED
    BY <1>4, <2>1, <2>3 DEF MetalinkContextHolds
<1>6. CASE Known(Table, pd, name)
  <2>1. s \in States /\ From(s) = pd.state /\ s # "none" /\ pd.statedepth = pd.depth
    BY <1>6, KnownIsPlaced, Tables DEF States
  <2>2. Opened(Table, pd, name).state = s
    BY <1>6, KnownState
  <2>3. IF Acts(s)
        THEN /\ ctx' = MetalinkOpens(ctx, s, attr)
             /\ doc' = IF s = "FILE" /\ (attr = NoAttr \/ Passes(ctx, attr)) THEN doc
                       ELSE MetalinkStarted(doc, s, attr)
        ELSE ctx' = ctx /\ doc' = doc
    BY <1>1, <1>6, <2>2, Zenon DEF StartHandler
  <2>4. Acts(s) <=> s = "FILE" \/ ~ctx.ignore
    BY DEF Acts, Reads
  <2>5. meant' = IF InFile \/ (s = "FILE" /\ FirstWanted(attr)) THEN MetalinkStarted(meant, s, attr)
                 ELSE meant
    BY <1>1, <2>1, Zenon DEF MeantByStart
  <2>6. InFile <=> n >= 3 /\ ~ctx.ignore
    BY <2>1, InFileIs
  <2>7. /\ Level(s) = n + 1
        /\ pd.state \notin Hashes \cup {"URL"}
        /\ pd.state \in InAlternate <=> s \in InAlternate /\ s # "ALTERNATE"
        /\ (Level(s) = 3 <=> s = "FILE") /\ (Level(s) < 3 <=> s \in {"METALINK", "FILES"})
    BY <2>1, MetalinkStates DEF Levelled
  <2>8. s = "FILE" => attr # NoAttr
    BY <1>1, <1>6, NamedStart
  <2>9. /\ pd'.state = s /\ pd'.statedepth = n + 1
        /\ open'[n + 1].attr = attr /\ open'[n + 1].wanted = FirstWanted(attr)
        /\ n >= 3 => open'[3] = open[3]
    BY <1>2, <1>3, <1>6
  <2>10. ~ctx.hash /\ ~ctx.url
    BY <1>4, <2>7
  <2>. HIDE DEF s, n
  <2>11. CASE Level(s) < 3
    <3>1. s \in {"METALINK", "FILES"} /\ ~(n >= 3)
      BY <1>3, <2>7, <2>11
    <3>2. MetalinkOpens(ctx, s, attr) = ctx
      BY <3>1, SMT DEF MetalinkOpens
    <3>3. MetalinkStarted(doc, s, attr) = doc
      BY <3>1, MetalinkStartedIs
    <3>4. ctx' = ctx /\ doc' = doc /\ meant' = meant
      BY <2>3, <2>5, <2>6, <3>1, <3>2, <3>3
    <3>5. ~(n + 1 >= 3) /\ s \notin Hashes /\ s # "URL" /\ s \notin InAlternate /\ s # "ALTERNATE"
      BY <1>3, <2>7, <2>11, <3>1 DEF Hashes, InAlternate
    <3>. QED
      BY <1>4, <2>7, <2>9, <2>10, <3>4, <3>5 DEF MetalinkContextHolds
  <2>12. CASE Level(s) = 3
    <3>1. s = "FILE" /\ n = 2 /\ ~InFile /\ attr # NoAttr
      BY <1>3, <2>6, <2>7, <2>8, <2>12
    <3>2. FirstWanted(attr) <=> ~Passes(ctx, attr)
      BY <1>4 DEF FirstWanted, Passes
    <3>3. /\ ctx' = MetalinkOpens(ctx, s, attr)
          /\ doc' = IF Passes(ctx, attr) THEN doc ELSE MetalinkStarted(doc, s, attr)
      BY <2>3, <2>4, <3>1
    <3>4. doc' = meant'
      BY <2>5, <3>1, <3>2, <3>3
    <3>5. /\ ctx' \in MetalinkContexts
          /\ ctx'.ignore = Passes(ctx, attr) /\ ctx'.found = (ctx.found \/ ~Passes(ctx, attr))
          /\ ctx'.hash = (ctx.hash \/ (s \in Hashes /\ attr # NoAttr))
          /\ ctx'.url = (ctx.url \/ s = "URL")
          /\ ctx'.alternate = (ctx.alternate \/ s = "ALTERNATE")
      BY <1>4, <3>1, <3>3, MetalinkOpensIs
    <3>6. s \notin Hashes /\ s # "URL" /\ s \notin InAlternate /\ s # "ALTERNATE"
      BY <3>1 DEF Hashes, InAlternate
    <3>7. /\ "filename" \in DOMAIN doc'
          /\ doc'.filename = IF Passes(ctx, attr) THEN doc.filename ELSE attr
      BY <1>4, <3>1, <3>3, MetalinkStartedIs
    <3>8. Passes(ctx, attr) \in BOOLEAN /\ ctx.found \in BOOLEAN
      BY <1>4 DEF Passes, MetalinkContexts
    <3>9. ~ctx'.hash /\ ~ctx'.url /\ ~ctx'.alternate
      BY <1>4, <2>7, <2>10, <3>5, <3>6
    <3>10. ctx'.found <=> doc'.filename # NoAttr
      BY <1>4, <3>1, <3>5, <3>7, <3>8
    <3>11. pd'.statedepth = 3 /\ (ctx'.ignore <=> ~open'[3].wanted)
      BY <2>9, <3>1, <3>2, <3>5, <3>8
    <3>. QED
      BY <2>9, <3>4, <3>5, <3>6, <3>7, <3>9, <3>10, <3>11 DEF MetalinkContextHolds
  <2>13. CASE Level(s) > 3
    <3>1. n >= 3 /\ n + 1 # 3 /\ s # "FILE" /\ (InFile <=> ~ctx.ignore)
      BY <1>3, <2>6, <2>7, <2>13
    <3>2. CASE ctx.ignore
      <4>1. ctx' = ctx /\ doc' = doc /\ meant' = meant
        BY <2>3, <2>4, <2>5, <3>1, <3>2
      <4>. QED
        BY <1>4, <2>9, <3>1, <3>2, <4>1 DEF MetalinkContextHolds
    <3>3. CASE ~ctx.ignore
      <4>1. /\ ctx' = MetalinkOpens(ctx, s, attr) /\ doc' = MetalinkStarted(doc, s, attr)
            /\ doc' = meant'
        BY <2>3, <2>4, <2>5, <3>1, <3>3
      <4>2. /\ ctx' \in MetalinkContexts /\ ctx'.ignore = ctx.ignore /\ ctx'.found = ctx.found
            /\ ctx'.hash = (ctx.hash \/ (s \in Hashes /\ attr # NoAttr))
            /\ ctx'.url = (ctx.url \/ s = "URL")
            /\ ctx'.alternate = (ctx.alternate \/ s = "ALTERNATE")
        BY <1>4, <3>1, <4>1, MetalinkOpensIs
      <4>3. "filename" \in DOMAIN doc' /\ doc'.filename = doc.filename
        <5>. DEFINE E == MetalinkStarted(doc, s, attr)
        <5>1. "filename" \in DOMAIN E /\ E.filename = doc.filename
          BY <1>4, <3>1, MetalinkStartedIs
        <5>. QED
          BY <4>1, <5>1
      <4>4. "ALTERNATE" \in InAlternate
        BY DEF InAlternate
      <4>5. ctx'.alternate <=> s \in InAlternate
        BY <1>4, <2>7, <3>3, <4>2, <4>4
      <4>6. ctx'.hash <=> s \in Hashes /\ attr # NoAttr
        BY <2>10, <4>2
      <4>7. ctx'.url <=> s = "URL"
        BY <2>10, <4>2
      <4>. QED
        BY <1>4, <2>9, <3>1, <3>3, <4>1, <4>2, <4>3, <4>5, <4>6, <4>7 DEF MetalinkContextHolds
    <3>. QED
      BY <3>2, <3>3
  <2>14. Level(s) \in Nat
    BY <1>3, <2>7
  <2>. QED
    BY <2>11, <2>12, <2>13, <2>14
<1>. QED
  BY <1>5, <1>6

LEMMA MetalinkEnd ==
    ASSUME SInv, Levelled, MetalinkContextHolds, ~IsRepomd, doc = meant, End
    PROVE  MetalinkContextHolds' /\ doc' = meant'
<1>. DEFINE s == pd.state
            n == pd.statedepth
            e == Last(open)
<1>1. open # <<>> /\ meant' = MeantByEnd /\ EndHandler
  BY DEF End
<1>2. /\ Leaves(pd) <=> e.place # "none"
      /\ Leaves(pd) => s = e.place /\ s \in States
  BY <1>1, LeavesPlaced
<1>3. /\ \A i \in 1 .. n - 1 : open'[i] = open[i]
      /\ ~Leaves(pd) => pd'.state = s /\ pd'.statedepth = n
                        /\ \A i \in 1 .. n : open'[i] = open[i]
      /\ Leaves(pd) => pd'.state = From(s) /\ pd'.statedepth = n - 1
  BY StackEnd, Zenon
<1>4. /\ ctx \in MetalinkContexts /\ "filename" \in DOMAIN doc
      /\ ctx.found <=> doc.filename # NoAttr
      /\ n >= 3 => (ctx.ignore <=> ~open[3].wanted)
      /\ ctx.hash <=> s \in Hashes /\ ~ctx.ignore /\ open[n].attr # NoAttr
      /\ ctx.url <=> s = "URL" /\ ~ctx.ignore
      /\ ctx.alternate <=> s \in InAlternate /\ ~ctx.ignore
  BY DEF MetalinkContextHolds
<1>5. n \in Nat /\ (s \in Hashes => n # 0)
  BY Innermost DEF SInv, Stack, Hashes
<1>6. CASE ~Leaves(pd)
  <2>1. meant' = meant /\ ctx' = ctx /\ doc' = doc
    BY <1>1, <1>2, <1>6, Zenon DEF MeantByEnd, EndHandler
  <2>2. /\ pd'.state = s /\ pd'.statedepth = n
        /\ s \in Hashes => open'[n] = open[n]
        /\ n >= 3 => open'[3] = open[3]
    BY <1>3, <1>5, <1>6
  <2>. HIDE DEF s, n
  <2>. QED
    BY <1>4, <2>1, <2>2 DEF MetalinkContextHolds
<1>7. CASE Leaves(pd)
  <2>1. IF Acts(s)
        THEN /\ ctx' = MetalinkCloses(ctx, s)
             /\ doc' = MetalinkEnded(doc, s, pd.content, ctx.hash)
        ELSE ctx' = ctx /\ doc' = doc
    BY <1>1, <1>7, Zenon DEF EndHandler
  <2>2. meant' = IF InFile THEN MetalinkEnded(meant, s, e.text, e.attr # NoAttr) ELSE meant
    BY <1>1, <1>2, <1>7, Zenon DEF MeantByEnd
  <2>3. InFile <=> n >= 3 /\ ~ctx.ignore
    BY <1>7, InFileIs DEF Leaves
  <2>4. /\ Level(s) = n /\ From(s) \notin Hashes \cup {"URL"}
        /\ From(s) \in InAlternate <=> s \in InAlternate /\ s # "ALTERNATE"
        /\ (Level(s) = 3 <=> s = "FILE") /\ (Level(s) < 3 <=> s \in {"METALINK", "FILES"})
    BY <1>2, <1>7, MetalinkStates DEF Levelled
  <2>5. e = open[n]
    BY <1>1, <1>7, Innermost DEF Last, Leaves
  <2>6. s \in MetalinkTexts => pd.content = e.text
    BY <2>5 DEF SInv, Stack, Texts
  <2>7. Acts(s) <=> s = "FILE" \/ ~ctx.ignore
    BY DEF Acts, Reads
  <2>8. /\ pd'.state = From(s) /\ pd'.statedepth = n - 1
        /\ n - 1 >= 3 => open'[3] = open[3]
    BY <1>3, <1>5, <1>7
  <2>9. "ALTERNATE" \in InAlternate
    BY DEF InAlternate
  <2>. HIDE DEF s, n, e
  <2>10. CASE s \notin MetalinkTexts
    <3>1. MetalinkEnded(doc, s, pd.content, ctx.hash) = doc
          /\ MetalinkEnded(meant, s, e.text, e.attr # NoAttr) = meant
      BY <2>10, MetalinkEndedIs
    <3>2. doc' = doc /\ meant' = meant
      BY <2>1, <2>2, <3>1
    <3>3. s \notin Hashes /\ s # "URL"
      BY <2>10 DEF MetalinkTexts
    <3>4. /\ ctx' \in MetalinkContexts /\ ctx'.ignore = ctx.ignore /\ ctx'.found = ctx.found
          /\ ~ctx'.hash /\ ~ctx'.url /\ (ctx'.alternate <=> ctx.alternate /\ s # "ALTERNATE")
      <4>1. CASE Acts(s)
        <5>1. ctx' = MetalinkCloses(ctx, s)
          BY <2>1, <4>1
        <5>2. /\ ctx' \in MetalinkContexts /\ ctx'.ignore = ctx.ignore /\ ctx'.found = ctx.found
              /\ ctx'.hash = (ctx.hash /\ s \notin Hashes) /\ ctx'.url = (ctx.url /\ s # "URL")
              /\ ctx'.alternate = (ctx.alternate /\ s # "ALTERNATE")
          BY <1>4, <5>1, MetalinkClosesIs
        <5>. QED
          BY <1>4, <3>3, <5>2
      <4>2. CASE ~Acts(s)
        BY <1>4, <2>1, <2>7, <2>9, <3>3, <4>2
      <4>. QED
        BY <4>1, <4>2
    <3>. QED
      BY <1>4, <1>5, <2>4, <2>8, <3>2, <3>4 DEF MetalinkContextHolds
  <2>11. CASE s \in MetalinkTexts
    <3>1. s # "FILE" /\ s # "METALINK" /\ s # "FILES" /\ s # "ALTERNATE"
      BY <2>11 DEF MetalinkTexts, Hashes
    <3>2. n >= 3 /\ (InFile <=> ~ctx.ignore) /\ (Acts(s) <=> ~ctx.ignore)
      BY <1>5, <2>3, <2>4, <2>7, <3>1
    <3>3. CASE ctx.ignore
      <4>1. ctx' = ctx /\ doc' = doc /\ meant' = meant
        BY <2>1, <2>2, <3>2, <3>3
      <4>2. ~ctx.hash /\ ~ctx.url /\ ~ctx.alternate
        BY <1>4, <3>3
      <4>. QED
        BY <1>4, <1>5, <2>4, <2>8, <3>3, <4>1, <4>2 DEF MetalinkContextHolds
    <3>4. CASE ~ctx.ignore
      <4>1. /\ ctx' = MetalinkCloses(ctx, s)
            /\ doc' = MetalinkEnded(doc, s, pd.content, ctx.hash)
            /\ meant' = MetalinkEnded(meant, s, e.text, e.attr # NoAttr)
        BY <2>1, <2>2, <3>2, <3>4
      <4>2. /\ ctx' \in MetalinkContexts /\ ctx'.ignore = ctx.ignore /\ ctx'.found = ctx.found
            /\ ctx'.hash = (ctx.hash /\ s \notin Hashes) /\ ctx'.url = (ctx.url /\ s # "URL")
            /\ ctx'.alternate = (ctx.alternate /\ s # "ALTERNATE")
        BY <1>4, <4>1, MetalinkClosesIs
      <4>3. doc' = meant'
        <5>1. s \in Hashes => (ctx.hash <=> e.attr # NoAttr)
          BY <1>4, <2>5, <3>4
        <5>2. MetalinkEnded(doc, s, pd.content, ctx.hash)
                 = MetalinkEnded(doc, s, e.text, e.attr # NoAttr)
          <6>. DEFINE t == pd.content
                      u == e.text
                      h == ctx.hash
                      g == e.attr # NoAttr
          <6>1. (s \in MetalinkTexts => t = u) /\ (s \in Hashes => (h <=> g))
            BY <2>6, <5>1
          <6>. HIDE DEF t, u, h, g
          <6>2. MetalinkEnded(doc, s, t, h) = MetalinkEnded(doc, s, u, g)
            BY <6>1, MetalinkEndedIs
          <6>. QED
            BY <6>2 DEF t, u, h, g
        <5>. QED
          BY <4>1, <5>2
      <4>4. "filename" \in DOMAIN doc' /\ doc'.filename = doc.filename
        <5>. DEFINE E == MetalinkEnded(doc, s, pd.content, ctx.hash)
        <5>1. "filename" \in DOMAIN E /\ E.filename = doc.filename
          BY <1>4, MetalinkEndedIs
        <5>. QED
          BY <4>1, <5>1
      <4>5. ~ctx'.hash /\ ~ctx'.url
        BY <1>4, <4>2
      <4>6. ctx'.alternate <=> From(s) \in InAlternate
        BY <1>4, <2>4, <3>1, <3>4, <4>2
      <4>. QED
        BY <1>4, <1>5, <2>4, <2>8, <3>4, <4>2, <4>3, <4>4, <4>5, <4>6 DEF MetalinkContextHolds
    <3>. QED
      BY <3>3, <3>4
  <2>. QED
    BY <2>10, <2>11
<1>. QED
  BY <1>6, <1>7

-------------------------------------------------------------------------------
(* The invariant is one.                                                   *)

ContextHolds == IF IsRepomd THEN RepomdContextHolds ELSE MetalinkContextHolds
IInv ==
    /\ SInv
    /\ ~IsRepomd => Levelled
    /\ ~pd.err => ContextHolds /\ doc = meant

LEMMA InvariantInit == Init => IInv
<1>. SUFFICES ASSUME Init PROVE IInv
  OBVIOUS
<1>1. SInv /\ (~IsRepomd => Levelled) /\ doc = meant
  BY StackInit, LevelledInit DEF Init
<1>2. pd = NewParser /\ doc = New /\ ctx = IF IsRepomd THEN RepomdContext ELSE MetalinkContext
  BY DEF Init
<1>3. CASE IsRepomd
  <2>1. doc = NewRepomd /\ ctx = RepomdContext
    BY <1>2, <1>3 DEF New
  <2>2. "records" \in DOMAIN doc /\ doc.records = <<>> /\ IsSequence(<<>>) /\ NoAttr \in Values
    BY <2>1, EmptySeq DEF NewRepomd, IsSequence, Values
  <2>3. pd.state = "START" /\ "START" \notin InData
    BY <1>2 DEF NewParser, InData, Sums, Numbers
  <2>. QED
    BY <1>1, <1>3, <2>1, <2>2, <2>3 DEF IInv, ContextHolds, RepomdContextHolds, RepomdContext
<1>4. CASE ~IsRepomd
  <2>1. doc = NewMetalink /\ ctx = MetalinkContext
    BY <1>2, <1>4 DEF New
  <2>2. "filename" \in DOMAIN doc /\ doc.filename = NoAttr
    BY <2>1 DEF NewMetalink
  <2>3. pd.state = "START" /\ pd.statedepth = 0 /\ "START" \notin InAlternate \cup Hashes
    BY <1>2 DEF NewParser, InAlternate, Hashes
  <2>4. MetalinkContextHolds
    BY <2>1, <2>2, <2>3 DEF MetalinkContextHolds, MetalinkContext, MetalinkContexts
  <2>. QED
    BY <1>1, <1>4, <2>4 DEF IInv, ContextHolds
<1>. QED
  BY <1>3, <1>4

\* The contexts look at the state, the depth and the attributes, which a text leaves alone.
LEMMA ContextText ==
    ASSUME SInv, ContextHolds, NEW token \in {Digit, Other}, Text(token)
    PROVE  ContextHolds'
<1>1. ctx' = ctx /\ doc' = doc /\ format' = format
  BY DEF Text
<1>2. /\ pd'.state = pd.state /\ pd'.statedepth = pd.statedepth
      /\ \A i \in DOMAIN open : open'[i].attr = open[i].attr /\ open'[i].wanted = open[i].wanted
  BY StackText
<1>3. /\ pd.state # "START" => pd.statedepth \in DOMAIN open
      /\ pd.statedepth >= 3 => 3 \in DOMAIN open
  BY Innermost DEF SInv, Stack
<1>4. IsRepomd' <=> IsRepomd
  BY <1>1 DEF IsRepomd
<1>5. RepomdContextHolds => RepomdContextHolds'
  BY <1>1, <1>2, <1>3 DEF RepomdContextHolds
<1>6. MetalinkContextHolds => MetalinkContextHolds'
  <2>1. "START" \notin Hashes
    BY DEF Hashes
  <2>. QED
    BY <1>1, <1>2, <1>3, <2>1 DEF MetalinkContextHolds
<1>. QED
  BY <1>4, <1>5, <1>6 DEF ContextHolds

LEMMA InvariantNext == IInv /\ [Next]_vars => IInv'
<1>. SUFFICES ASSUME IInv, [Next]_vars PROVE IInv'
  OBVIOUS
<1>1. SInv /\ (~IsRepomd => Levelled) /\ (~pd.err => ContextHolds /\ doc = meant)
  BY DEF IInv
<1>2. ASSUME NEW name \in DOMAIN Attributes[format], NEW attr \in Attributes[format][name],
             Start(name, attr)
      PROVE  IInv'
  <2>1. ContextHolds /\ doc = meant /\ SInv' /\ format' = format
    BY <1>1, <1>2, StackStart DEF Start, Running
  <2>2. IsRepomd' <=> IsRepomd
    BY <2>1 DEF IsRepomd
  <2>3. ~IsRepomd' => Levelled'
    BY <1>1, <1>2, <2>2, LevelledStart
  <2>4. ~pd'.err => ContextHolds' /\ doc' = meant'
    <3>1. CASE IsRepomd
      BY <1>1, <1>2, <2>1, <2>2, <3>1, RepomdStart DEF ContextHolds
    <3>2. CASE ~IsRepomd
      BY <1>1, <1>2, <2>1, <2>2, <3>2, MetalinkStart DEF ContextHolds
    <3>. QED
      BY <3>1, <3>2
  <2>. QED
    BY <2>1, <2>3, <2>4 DEF IInv
<1>3. ASSUME NEW token \in {Digit, Other}, Text(token) PROVE IInv'
  <2>1. ContextHolds /\ doc' = meant' /\ SInv' /\ format' = format
    BY <1>1, <1>3, StackText DEF Text, Running
  <2>2. IsRepomd' <=> IsRepomd
    BY <2>1 DEF IsRepomd
  <2>3. ~IsRepomd' => Levelled'
    BY <1>1, <1>3, <2>2, LevelledText
  <2>. QED
    BY <1>1, <1>3, <2>1, <2>3, ContextText DEF IInv
<1>4. ASSUME End PROVE IInv'
  <2>1. ContextHolds /\ doc = meant /\ SInv' /\ format' = format
    BY <1>1, <1>4, StackEnd DEF End, Running
  <2>2. IsRepomd' <=> IsRepomd
    BY <2>1 DEF IsRepomd
  <2>3. ~IsRepomd' => Levelled'
    BY <1>1, <1>4, <2>2, LevelledEnd
  <2>4. ContextHolds' /\ doc' = meant'
    <3>1. CASE IsRepomd
      BY <1>1, <1>4, <2>1, <2>2, <3>1, RepomdEnd DEF ContextHolds
    <3>2. CASE ~IsRepomd
      BY <1>1, <1>4, <2>1, <2>2, <3>2, MetalinkEnd DEF ContextHolds
    <3>. QED
      BY <3>1, <3>2
  <2>. QED
    BY <2>1, <2>3, <2>4 DEF IInv
<1>5. ASSUME UNCHANGED <<format, open, counts, meant, pd, ctx, doc>> PROVE IInv'
  <2>1. /\ Texts' = Texts /\ States' = States /\ Element' = Element /\ Parser' = Parser
        /\ (IsRepomd' <=> IsRepomd) /\ \A s : From(s)' = From(s)
    BY <1>5, FormatKept
  <2>2. SInv'
    BY <1>1, <1>5, <2>1 DEF SInv, Typed, Stack
  <2>3. (Levelled => Levelled') /\ (RepomdContextHolds => RepomdContextHolds')
        /\ (MetalinkContextHolds => MetalinkContextHolds')
    BY <1>5 DEF Levelled, RepomdContextHolds, MetalinkContextHolds
  <2>. QED
    BY <1>1, <1>5, <2>1, <2>2, <2>3 DEF IInv, ContextHolds
<1>6. CASE UNCHANGED vars
  BY <1>5, <1>6 DEF vars
<1>7. CASE Interrupted \/ Finished \/ Broken
  BY <1>5, <1>7 DEF Interrupted, Finished, Broken
<1>. QED
  BY <1>2, <1>3, <1>4, <1>6, <1>7 DEF Next

LEMMA Invariant == Spec => []IInv
BY InvariantInit, InvariantNext, PTL DEF Spec

-------------------------------------------------------------------------------
(* The theorems.                                                           *)

\* As long as nobody stopped the parsing, the handlers of repomd.c and metalink.c have built
\* what the paths of the elements say, for documents of any length and depth.
THEOREM ParsedIsMeantHolds == Spec => []ParsedIsMeant
<1>1. IInv => ParsedIsMeant
  BY DEF IInv, ParsedIsMeant
<1>. QED
  BY <1>1, Invariant, PTL

\* No document makes an assertion of a handler fail: a record, hash, url or alternate is there
\* when a handler writes to it, and none is left over when the next one begins.
THEOREM AssertionsHoldHolds == Spec => []AssertionsHold
<1>1. IInv => AssertionsHold
  <2>. SUFFICES ASSUME IInv, Running PROVE
         /\ \A sw \in Table : sw.from = pd.state /\ pd.depth = pd.statedepth /\ Acts(sw.to) =>
               IF IsRepomd THEN RepomdStartAsserts(ctx, sw.to)
                           ELSE MetalinkStartAsserts(ctx, sw.to)
         /\ Leaves(pd) /\ Acts(pd.state) =>
               IF IsRepomd THEN RepomdEndAsserts(ctx, pd.state)
                           ELSE MetalinkEndAsserts(ctx, pd.state)
    BY Zenon DEF AssertionsHold
  <2>1. SInv /\ (~IsRepomd => Levelled) /\ ContextHolds
    BY DEF IInv, Running
  <2>2. ASSUME NEW sw \in Table, sw.from = pd.state
        PROVE  sw.to \in States /\ From(sw.to) = pd.state
    BY <2>2, Tables DEF States
  <2>3. CASE IsRepomd
    <3>1. /\ ctx.record = IF pd.state \in InData THEN Len(doc.records) ELSE 0
          /\ pd.state \in InData => Len(doc.records) # 0
      BY <2>1, <2>3 DEF ContextHolds, RepomdContextHolds
    <3>2. ASSUME NEW sw \in Table, sw.from = pd.state PROVE RepomdStartAsserts(ctx, sw.to)
      <4>1. /\ pd.state = "DATA" <=> sw.to \in InData /\ sw.to # "DATA"
            /\ pd.state \in InData => pd.state = "DATA"
        BY <2>2, <2>3, <3>2, RepomdStates
      <4>2. /\ sw.to \in {"REPOID", "DISTRO", "DATA"} => ~(sw.to \in InData /\ sw.to # "DATA")
            /\ sw.to \in Sums \cup {"LOCATION"} => sw.to \in InData /\ sw.to # "DATA"
            /\ "DATA" \in InData
        BY DEF InData, Sums, Numbers
      <4>. QED
        BY <3>1, <4>1, <4>2 DEF RepomdStartAsserts
    <3>3. RepomdEndAsserts(ctx, pd.state)
      <4>1. /\ pd.state \in {"REVISION", "REPOID"} \cup Tags => pd.state \notin InData
            /\ pd.state \in Sums \cup Numbers \cup {"DATA"} => pd.state \in InData
        BY DEF InData, Sums, Numbers, Tags
      <4>. QED
        BY <3>1, <4>1 DEF RepomdEndAsserts
    <3>. QED
      BY <2>3, <3>2, <3>3
  <2>4. CASE ~IsRepomd
    <3>1. /\ ctx.hash <=> pd.state \in Hashes /\ ~ctx.ignore /\ open[pd.statedepth].attr # NoAttr
          /\ ctx.url <=> pd.state = "URL" /\ ~ctx.ignore
          /\ ctx.alternate <=> pd.state \in InAlternate /\ ~ctx.ignore
      BY <2>1, <2>4 DEF ContextHolds, MetalinkContextHolds
    <3>2. ASSUME NEW sw \in Table, sw.from = pd.state, Acts(sw.to)
          PROVE  MetalinkStartAsserts(ctx, sw.to)
      <4>1. /\ pd.state \notin Hashes \cup {"URL"}
            /\ pd.state \in InAlternate <=> sw.to \in InAlternate /\ sw.to # "ALTERNATE"
        BY <2>2, <2>4, <3>2, MetalinkStates
      <4>2. /\ sw.to = "HASH" => sw.to \notin InAlternate
            /\ sw.to = "ALTERNATE_HASH" => sw.to \in InAlternate /\ sw.to # "ALTERNATE"
        BY DEF InAlternate
      <4>3. sw.to = "ALTERNATE_HASH" => ~ctx.ignore
        BY <2>4, <3>2 DEF Acts, Reads
      <4>. QED
        BY <3>1, <4>1, <4>2, <4>3 DEF MetalinkStartAsserts
    <3>3. ASSUME Acts(pd.state) PROVE MetalinkEndAsserts(ctx, pd.state)
      <4>1. pd.state # "FILE" => ~ctx.ignore
        BY <2>4, <3>3 DEF Acts, Reads
      <4>. QED
        BY <3>1, <4>1 DEF MetalinkEndAsserts, InAlternate, Hashes
    <3>. QED
      BY <2>4, <3>2, <3>3
  <2>. QED
    BY <2>3, <2>4
<1>. QED
  BY <1>1, Invariant, PTL

-------------------------------------------------------------------------------
(* .repo files: numbers, positions and folds.                              *)

\* A set of natural numbers has a least one.
LEMMA LeastOf ==
    ASSUME NEW S, S \subseteq Nat, S # {}
    PROVE  \E m \in S : \A n \in S : m <= n
<1> DEFINE R == OpToRel(<, Nat)
<1>1. IsWellFoundedOn(R, Nat)
  BY NatLessThanWellFounded
<1>2. \A x, y \in Nat : x < y => <<x, y>> \in R
  BY DEF OpToRel
<1> HIDE DEF R
<1>3. PICK m \in S : \A n \in S : <<n, m>> \notin R
  BY <1>1, WFMin, Zenon
<1>4. ASSUME NEW n \in S PROVE m <= n
  <2>1. m \in Nat /\ n \in Nat /\ ~(n < m)
    BY <1>2, <1>3
  <2> QED
    BY <2>1
<1> QED
  BY <1>4

\* Induction, over a set of numbers.
LEMMA Upwards ==
    ASSUME NEW n \in Nat, NEW S, 0 \in S, \A k \in 1 .. n : k - 1 \in S => k \in S
    PROVE  \A k \in 0 .. n : k \in S
<1> DEFINE Bad == {k \in 0 .. n : k \notin S}
<1> SUFFICES ASSUME Bad # {} PROVE FALSE
  OBVIOUS
<1>1. PICK k \in Bad : \A j \in Bad : k <= j
  <2>1. Bad \subseteq Nat
    OBVIOUS
  <2> HIDE DEF Bad
  <2> QED BY <2>1, LeastOf
<1>2. k \in 0 .. n /\ k # 0
  BY <1>1
<1>3. k - 1 \in 0 .. n /\ ~(k <= k - 1)
  BY <1>2
<1>4. k - 1 \in S
  BY <1>1, <1>3
<1> QED
  BY <1>1, <1>2, <1>4

\* A set of positions has a first and a last one.
LEMMA MinMaxOf ==
    ASSUME NEW n \in Nat, NEW s \in SUBSET (1 .. n), s # {}
    PROVE  /\ Min(s) \in s /\ \A y \in s : Min(s) <= y
           /\ Max(s) \in s /\ \A y \in s : Max(s) >= y
<1>1. PICK m \in s : \A y \in s : m <= y
  <2>1. s \subseteq Nat
    OBVIOUS
  <2> QED BY <2>1, LeastOf
<1> DEFINE D == {n - y : y \in s}
<1>2. D \subseteq Nat /\ D # {}
  <2>1. \A y \in s : y \in 1 .. n /\ n - y \in Nat
    OBVIOUS
  <2> QED BY <2>1
<1>3. PICK d \in D : \A e \in D : d <= e
  <2> HIDE DEF D
  <2> QED BY <1>2, LeastOf
<1>4. PICK x \in s : d = n - x
  BY <1>3
<1>5. ASSUME NEW y \in s PROVE x >= y
  <2>1. n - x <= n - y
    BY <1>3, <1>4
  <2>2. x \in Int /\ y \in Int
    OBVIOUS
  <2> QED BY <2>1, <2>2
<1> QED
  BY <1>1, <1>5 DEF Min, Max

\* The last position of all.
LEMMA MaxOfAll ==
    ASSUME NEW k \in Nat \ {0}
    PROVE  Max(1 .. k) = k
<1>1. 1 .. k \in SUBSET (1 .. k) /\ k \in 1 .. k /\ 1 .. k # {}
  OBVIOUS
<1>2. Max(1 .. k) \in 1 .. k /\ Max(1 .. k) >= k
  BY <1>1, MinMaxOf
<1> QED BY <1>2

-------------------------------------------------------------------------------
(* Folds.  What FoldLeft is the value of is a function on the sets of      *)
(* positions; there is one for every step that stays in a set.             *)

Folding(g, V, n, base, step, seq) ==
    /\ g[{}] = base
    /\ \A s \in SUBSET (1 .. n) : s # {} /\ g[s \ {Max(s)}] \in V =>
          g[s] = step[<<g[s \ {Max(s)}], seq[Max(s)]>>]

\* There is such a function: it is extended position by position.
LEMMA FoldExists ==
    ASSUME NEW V, NEW T, NEW base \in V, NEW step \in [V \X T -> V],
           NEW n \in Nat, NEW seq \in [1 .. n -> T]
    PROVE  \E g \in [SUBSET (1 .. n) -> V] : Folding(g, V, n, base, step, seq)
<1> DEFINE Fold(g, k) == \A s \in SUBSET (1 .. k) :
              g[s] = IF s = {} THEN base ELSE step[<<g[s \ {Max(s)}], seq[Max(s)]>>]
           Folds(k) == \E g \in [SUBSET (1 .. k) -> V] : Fold(g, k)
           S == {k \in 0 .. n : Folds(k)}
<1>1. Folds(0)
  <2>1. 1 .. 0 = {}
    OBVIOUS
  <2> DEFINE g == [s \in SUBSET (1 .. 0) |-> base]
  <2>2. g \in [SUBSET (1 .. 0) -> V] /\ Fold(g, 0)
    BY <2>1
  <2> HIDE DEF g, Fold
  <2> QED BY <2>2
<1>2. ASSUME NEW k \in 1 .. n, Folds(k - 1) PROVE Folds(k)
  <2>1. PICK h \in [SUBSET (1 .. (k - 1)) -> V] : Fold(h, k - 1)
    BY <1>2
  <2> DEFINE Value(s) == IF k \in s THEN step[<<h[s \ {k}], seq[k]>>] ELSE h[s]
             g == [s \in SUBSET (1 .. k) |-> Value(s)]
  <2>2. ASSUME NEW s \in SUBSET (1 .. k)
        PROVE  /\ g[s] \in V
               /\ g[s] = IF s = {} THEN base ELSE step[<<g[s \ {Max(s)}], seq[Max(s)]>>]
    <3>0. k \in Nat
      OBVIOUS
    <3>1. CASE k \in s
      <4>1. Max(s) = k
        <5>1. Max(s) \in 1 .. k /\ Max(s) >= k
          BY <3>0, <3>1, MinMaxOf
        <5> QED BY <5>1
      <4>2. s \ {k} \in SUBSET (1 .. k) /\ k \notin s \ {k} /\ s \ {k} \in SUBSET (1 .. (k - 1))
        OBVIOUS
      <4>3. g[s] = step[<<h[s \ {k}], seq[k]>>] /\ g[s \ {k}] = h[s \ {k}]
        BY <3>1, <4>2
      <4>4. step[<<h[s \ {k}], seq[k]>>] \in V
        BY <4>2
      <4> QED BY <4>1, <4>3, <4>4, <3>1
    <3>2. CASE k \notin s
      <4>1. s \in SUBSET (1 .. (k - 1))
        BY <3>2
      <4>2. h[s] = IF s = {} THEN base ELSE step[<<h[s \ {Max(s)}], seq[Max(s)]>>]
        BY <4>1, <2>1
      <4>3. s \ {Max(s)} \in SUBSET (1 .. k) /\ k \notin s \ {Max(s)}
        BY <3>2
      <4>4. g[s] = h[s] /\ g[s \ {Max(s)}] = h[s \ {Max(s)}] /\ h[s] \in V
        BY <3>2, <4>1, <4>3
      <4> QED BY <4>2, <4>4
    <3> QED BY <3>1, <3>2
  <2>3. g \in [SUBSET (1 .. k) -> V] /\ Fold(g, k)
    <3>1. g = [s \in SUBSET (1 .. k) |-> g[s]]
      OBVIOUS
    <3> HIDE DEF g
    <3> QED BY <2>2, <3>1
  <2> HIDE DEF g, Fold
  <2> QED BY <2>3
<1>3. \A k \in 0 .. n : k \in S
  <2> HIDE DEF Folds
  <2>1. 0 \in S /\ \A k \in 1 .. n : k - 1 \in S => k \in S
    BY <1>1, <1>2
  <2> HIDE DEF S
  <2> QED BY <2>1, Upwards
<1>4. PICK g \in [SUBSET (1 .. n) -> V] : Fold(g, n)
  BY <1>3, n \in 0 .. n
<1>5. Folding(g, V, n, base, step, seq)
  <2>1. {} \in SUBSET (1 .. n)
    OBVIOUS
  <2> QED BY <1>4, <2>1 DEF Folding
<1> QED BY <1>5

\* The values that it has for the first positions are reached one by one.
Traced(f, n, base, step, seq) ==
    /\ f[0] = base
    /\ \A k \in 1 .. n : f[k] = step[<<f[k - 1], seq[k]>>]

\* Its values on the beginnings of the sequence are reached one by one.
LEMMA FoldTrace ==
    ASSUME NEW V, NEW T, NEW base \in V, NEW step \in [V \X T -> V],
           NEW n \in Nat, NEW seq \in [1 .. n -> T],
           NEW g, Folding(g, V, n, base, step, seq)
    PROVE  \E f \in [0 .. n -> V] : f[n] = g[1 .. n] /\ Traced(f, n, base, step, seq)
<1> DEFINE f == [k \in 0 .. n |-> g[1 .. k]]
           S == {k \in 0 .. n : f[k] \in V}
<1>1. f[0] = base /\ f[n] = g[1 .. n]
  BY 1 .. 0 = {} DEF Folding
<1>2. ASSUME NEW k \in 1 .. n, f[k - 1] \in V
      PROVE  f[k] = step[<<f[k - 1], seq[k]>>] /\ f[k] \in V
  <2>1. 1 .. k \in SUBSET (1 .. n) /\ k \in 1 .. k /\ (1 .. k) \ {k} = 1 .. (k - 1)
    OBVIOUS
  <2>2. Max(1 .. k) = k
    BY MaxOfAll
  <2>3. f[k] = g[1 .. k] /\ f[k - 1] = g[1 .. (k - 1)]
    OBVIOUS
  <2>4. f[k] = step[<<f[k - 1], seq[k]>>]
    <3> HIDE DEF f
    <3> QED BY <1>2, <2>1, <2>2, <2>3 DEF Folding
  <2>5. <<f[k - 1], seq[k]>> \in V \X T
    <3> HIDE DEF f
    <3> QED BY <1>2
  <2> HIDE DEF f
  <2> QED BY <2>4, <2>5
<1>3. \A k \in 0 .. n : k \in S
  <2>1. 0 \in S
    <3> HIDE DEF f
    <3> QED BY <1>1
  <2>2. ASSUME NEW k \in 1 .. n, k - 1 \in S PROVE k \in S
    <3>1. k \in 0 .. n /\ f[k - 1] \in V
      BY <2>2
    <3> HIDE DEF f
    <3> QED BY <1>2, <3>1
  <2> HIDE DEF S
  <2> QED BY <2>1, <2>2, Upwards
<1>4. f \in [0 .. n -> V]
  <2>1. f = [k \in 0 .. n |-> f[k]]
    OBVIOUS
  <2> HIDE DEF f
  <2> QED BY <1>3, <2>1
<1>5. ASSUME NEW k \in 1 .. n PROVE f[k] = step[<<f[k - 1], seq[k]>>]
  <2> HIDE DEF f
  <2> QED BY <1>2, <1>3
<1> HIDE DEF f
<1> QED BY <1>1, <1>4, <1>5 DEF Traced

\* The fold of a sequence goes through the folds of its beginnings.
Begins(short, long, d, base, step, seq, longer) ==
    /\ d \in Nat /\ \A k \in 1 .. d : longer[k] = seq[k]
    /\ Traced(short, d, base, step, seq) /\ Traced(long, d + 1, base, step, longer)

\* Two sequences that begin alike have folds that begin alike.
LEMMA TracesAgree ==
    ASSUME NEW short, NEW long, NEW d, NEW base, NEW step, NEW seq, NEW longer,
           Begins(short, long, d, base, step, seq, longer)
    PROVE  short[d] = long[d]
<1> USE DEF Begins
<1> DEFINE S == {k \in 0 .. d : short[k] = long[k]}
<1>1. 0 \in S
  BY DEF Traced
<1>2. ASSUME NEW k \in 1 .. d, k - 1 \in S PROVE k \in S
  <2>1. k \in 0 .. d /\ k \in 1 .. (d + 1) /\ short[k - 1] = long[k - 1]
    BY <1>2
  <2>2. short[k] = step[<<short[k - 1], seq[k]>>] /\ long[k] = step[<<long[k - 1], seq[k]>>]
    BY <2>1 DEF Traced
  <2> QED BY <2>1, <2>2
<1>3. \A k \in 0 .. d : k \in S
  <2> HIDE DEF S
  <2> QED BY <1>1, <1>2, Upwards
<1> QED BY <1>3, d \in 0 .. d

OnePart == << <<>> >>
\* One step of Parts, of NotEmpty and of WrittenList, and these as functions for the fold.
PartsStep(parts, t, seps) == IF t \in seps THEN Append(parts, <<>>)
                             ELSE [parts EXCEPT ![Len(parts)] = Append(@, t)]
TokenLists == Seq(Seq(Token))

\* A token is added to the parts: there is one part more, or a longer last one.
LEMMA PartsStepType ==
    ASSUME NEW parts \in TokenLists \ {<<>>}, NEW t \in Token, NEW seps
    PROVE  /\ PartsStep(parts, t, seps) \in TokenLists \ {<<>>}
           /\ t \in seps => /\ Last(PartsStep(parts, t, seps)) = <<>>
                            /\ Front(PartsStep(parts, t, seps)) = parts
           /\ t \notin seps => /\ Last(PartsStep(parts, t, seps)) = Append(Last(parts), t)
                               /\ Front(PartsStep(parts, t, seps)) = Front(parts)
<1> DEFINE next == PartsStep(parts, t, seps)
           n == Len(parts)
<1>1. n \in Nat \ {0} /\ DOMAIN parts = 1 .. n /\ \A i \in 1 .. n : parts[i] \in Seq(Token)
  BY DEF TokenLists
<1>2. CASE t \in seps
  <2>1. next = Append(parts, <<>>)
    BY <1>2 DEF PartsStep
  <2>2. <<>> \in Seq(Token)
    OBVIOUS
  <2>3. next \in TokenLists /\ Len(next) = n + 1 /\ next[n + 1] = <<>> /\ \A i \in 1 .. n : next[i] = parts[i]
    BY <2>1, <2>2 DEF TokenLists
  <2>4. Front(next) = parts
    BY <2>1 DEF Front, TokenLists
  <2> QED BY <1>1, <1>2, <2>3, <2>4 DEF Last
<1>3. CASE t \notin seps
  <2>1. next = [parts EXCEPT ![n] = Append(parts[n], t)]
    BY <1>3 DEF PartsStep
  <2>2. Append(parts[n], t) \in Seq(Token)
    BY <1>1
  <2>3. next \in TokenLists /\ Len(next) = n /\ next[n] = Append(parts[n], t)
        /\ \A i \in 1 .. (n - 1) : next[i] = parts[i]
    <3>1. parts \in [1 .. n -> Seq(Token)]
      BY <1>1 DEF TokenLists
    <3> HIDE DEF n
    <3>2. next \in [1 .. n -> Seq(Token)] /\ next[n] = Append(parts[n], t)
          /\ \A i \in 1 .. (n - 1) : next[i] = parts[i]
      <4> HIDE DEF next
      <4> QED BY <1>1, <2>1, <2>2, <3>1
    <3>3. next \in Seq(Seq(Token)) /\ Len(next) = n
      <4> HIDE DEF next
      <4> QED BY <1>1, <3>2
    <3> QED BY <3>2, <3>3 DEF TokenLists
  <2>4. Front(next) = Front(parts)
    BY <1>1, <2>3 DEF Front
  <2> QED BY <1>1, <1>3, <2>3, <2>4 DEF Last
<1> QED BY <1>2, <1>3

PartsNext(seps) == [x \in (TokenLists \ {<<>>}) \X Token |-> PartsStep(x[1], x[2], seps)]

\* Parts is reached token by token.
LEMMA PartsTrace ==
    ASSUME NEW seq \in Tokens, NEW seps
    PROVE  \E f \in [0 .. Len(seq) -> (TokenLists \ {<<>>})] :
              f[Len(seq)] = Parts(seq, seps) /\ Traced(f, Len(seq), OnePart, PartsNext(seps), seq)
<1> DEFINE n == Len(seq)
           V == (TokenLists \ {<<>>})
           base == OnePart
           next == PartsNext(seps)
           Step(g) == [s \in SUBSET DOMAIN seq |-> IF s = {} THEN base
                         ELSE PartsStep(g[s \ {Max(s)}], seq[Max(s)], seps)]
<1>1. Parts(seq, seps) = (CHOOSE g : g = Step(g))[DOMAIN seq]
  BY DEF Parts, FoldLeft, MapThenFoldSet, PartsStep, OnePart
<1>2. DOMAIN seq = 1 .. n /\ n \in Nat /\ seq \in [1 .. n -> Token] /\ base \in V
  BY DEF Tokens, TokenLists, OnePart
<1>3. next \in [V \X Token -> V] /\ \A x \in V, t \in Token : next[<<x, t>>] = PartsStep(x, t, seps)
  BY PartsStepType DEF PartsNext
<1> HIDE DEF n, V, base, next
<1>4. ASSUME NEW s \in SUBSET (1 .. n), s # {}, NEW x \in V
      PROVE  next[<<x, seq[Max(s)]>>] = PartsStep(x, seq[Max(s)], seps)
  <2>1. Max(s) \in 1 .. n
    BY <1>2, <1>4, MinMaxOf
  <2> QED BY <1>2, <1>3, <2>1
<1>5. PICK h \in [SUBSET (1 .. n) -> V] : Folding(h, V, n, base, next, seq)
  BY <1>2, <1>3, FoldExists
<1>6. h = Step(h)
  <2>1. ASSUME NEW s \in SUBSET (1 .. n), s # {}
        PROVE  h[s] = PartsStep(h[s \ {Max(s)}], seq[Max(s)], seps)
    BY <1>4, <1>5, <2>1 DEF Folding
  <2> QED BY <1>2, <1>5, <2>1 DEF Folding
<1> DEFINE g == CHOOSE g : g = Step(g)
<1>7. g = Step(g)
  <2> HIDE DEF Step
  <2> QED BY <1>6
<1>8. g[1 .. n] = Parts(seq, seps)
  BY <1>1, <1>2
<1> HIDE DEF g
<1>9. Folding(g, V, n, base, next, seq)
  BY <1>2, <1>4, <1>7 DEF Folding
<1>10. PICK f \in [0 .. n -> V] : f[n] = g[1 .. n] /\ Traced(f, n, base, next, seq)
  <2> HIDE DEF Step
  <2> QED BY <1>2, <1>3, <1>9, FoldTrace
<1> QED BY <1>8, <1>10 DEF n, V, base, next

\* The parts of a text: one empty part of an empty text, and then token by token.
LEMMA PartsOf ==
    ASSUME NEW seps
    PROVE  /\ Parts(<<>>, seps) = OnePart
           /\ \A text \in Tokens : Parts(text, seps) \in TokenLists \ {<<>>}
           /\ \A text \in Tokens, t \in Token :
                Parts(Append(text, t), seps) = PartsStep(Parts(text, seps), t, seps)
<1>1. Parts(<<>>, seps) = OnePart
  <2>1. <<>> \in Tokens /\ Len(<<>>) = 0
    BY DEF Tokens
  <2>2. PICK f : f[0] = Parts(<<>>, seps) /\ Traced(f, 0, OnePart, PartsNext(seps), <<>>)
    BY <2>1, PartsTrace
  <2> QED BY <2>2 DEF Traced
<1>2. ASSUME NEW text \in Tokens
      PROVE  Parts(text, seps) \in TokenLists \ {<<>>}
  <2>1. Len(text) \in 0 .. Len(text)
    BY DEF Tokens
  <2> QED BY <2>1, PartsTrace
<1>3. ASSUME NEW text \in Tokens, NEW t \in Token
      PROVE  Parts(Append(text, t), seps) = PartsStep(Parts(text, seps), t, seps)
  <2> DEFINE n == Len(text)
           more == Append(text, t)
           next == PartsNext(seps)
  <2>1. /\ n \in Nat /\ more \in Tokens /\ Len(more) = n + 1 /\ more[n + 1] = t
        /\ \A k \in 1 .. n : more[k] = text[k]
    BY DEF Tokens
  <2>2. PICK f : f[n] = Parts(text, seps) /\ Traced(f, n, OnePart, next, text)
    BY PartsTrace
  <2>3. PICK h : h[n + 1] = Parts(more, seps) /\ Traced(h, n + 1, OnePart, next, more)
    <3> HIDE DEF n, more
    <3> QED BY <2>1, PartsTrace
  <2> HIDE DEF n, more, next
  <2>4. f[n] = h[n]
    <3>1. Begins(f, h, n, OnePart, next, text, more)
      BY <2>1, <2>2, <2>3 DEF Begins
    <3> QED BY <3>1, TracesAgree
  <2>5. h[n + 1] = next[<<h[n], t>>]
    BY <2>1, <2>3, n + 1 \in 1 .. (n + 1) DEF Traced
  <2> QED BY <1>2, <2>2, <2>3, <2>4, <2>5 DEF PartsNext, next, more
<1> QED BY <1>1, <1>2, <1>3

PickedStep(found, part) == IF part = <<>> THEN found ELSE Append(found, part)

\* Picking an element or not leaves a list.
LEMMA PickedStepType ==
    ASSUME NEW found \in TokenLists, NEW part \in Seq(Token)
    PROVE  PickedStep(found, part) \in TokenLists
BY DEF PickedStep, TokenLists

NotEmptyNext == [x \in TokenLists \X Seq(Token) |-> PickedStep(x[1], x[2])]

\* NotEmpty is reached element by element.
LEMMA NotEmptyTrace ==
    ASSUME NEW seq \in TokenLists
    PROVE  \E f \in [0 .. Len(seq) -> TokenLists] :
              f[Len(seq)] = NotEmpty(seq) /\ Traced(f, Len(seq), <<>>, NotEmptyNext, seq)
<1> DEFINE n == Len(seq)
           V == TokenLists
           base == <<>>
           next == NotEmptyNext
           Step(g) == [s \in SUBSET DOMAIN seq |-> IF s = {} THEN base
                         ELSE PickedStep(g[s \ {Max(s)}], seq[Max(s)])]
<1>1. NotEmpty(seq) = (CHOOSE g : g = Step(g))[DOMAIN seq]
  BY DEF NotEmpty, FoldLeft, MapThenFoldSet, PickedStep
<1>2. DOMAIN seq = 1 .. n /\ n \in Nat /\ seq \in [1 .. n -> Seq(Token)] /\ base \in V
  BY DEF TokenLists
<1>3. next \in [V \X Seq(Token) -> V] /\ \A x \in V, t \in Seq(Token) : next[<<x, t>>] = PickedStep(x, t)
  BY PickedStepType DEF NotEmptyNext
<1> HIDE DEF n, V, base, next
<1>4. ASSUME NEW s \in SUBSET (1 .. n), s # {}, NEW x \in V
      PROVE  next[<<x, seq[Max(s)]>>] = PickedStep(x, seq[Max(s)])
  <2>1. Max(s) \in 1 .. n
    BY <1>2, <1>4, MinMaxOf
  <2> QED BY <1>2, <1>3, <2>1
<1>5. PICK h \in [SUBSET (1 .. n) -> V] : Folding(h, V, n, base, next, seq)
  BY <1>2, <1>3, FoldExists
<1>6. h = Step(h)
  <2>1. ASSUME NEW s \in SUBSET (1 .. n), s # {}
        PROVE  h[s] = PickedStep(h[s \ {Max(s)}], seq[Max(s)])
    BY <1>4, <1>5, <2>1 DEF Folding
  <2> QED BY <1>2, <1>5, <2>1 DEF Folding
<1> DEFINE g == CHOOSE g : g = Step(g)
<1>7. g = Step(g)
  <2> HIDE DEF Step
  <2> QED BY <1>6
<1>8. g[1 .. n] = NotEmpty(seq)
  BY <1>1, <1>2
<1> HIDE DEF g
<1>9. Folding(g, V, n, base, next, seq)
  BY <1>2, <1>4, <1>7 DEF Folding
<1>10. PICK f \in [0 .. n -> V] : f[n] = g[1 .. n] /\ Traced(f, n, base, next, seq)
  <2> HIDE DEF Step
  <2> QED BY <1>2, <1>3, <1>9, FoldTrace
<1> QED BY <1>8, <1>10 DEF n, V, base, next

WrittenStep(text, e) == text \o e \o <<";">>

\* An element is written after a text, with a separator.
LEMMA WrittenStepType ==
    ASSUME NEW text \in Tokens, NEW e \in Seq(Token)
    PROVE  WrittenStep(text, e) \in Tokens
<1>1. ";" \in Token
  BY ConfAssumption
<1>2. \A t \in Token : <<t>> \in Seq(Token)
  OBVIOUS
<1>3. <<";">> \in Tokens /\ text \o e \in Tokens
  <2>1. <<";">> \in Seq(Token)
    BY <1>1, <1>2, Zenon
  <2>2. text \o e \in Tokens
    BY DEF Tokens
  <2> QED BY <2>1, <2>2 DEF Tokens
<1>4. \A a, b \in Tokens : a \o b \in Tokens
  BY DEF Tokens
<1> QED BY <1>3, <1>4 DEF WrittenStep

WrittenListNext == [x \in Tokens \X Seq(Token) |-> WrittenStep(x[1], x[2])]

\* WrittenList is reached element by element.
LEMMA WrittenListTrace ==
    ASSUME NEW seq \in TokenLists
    PROVE  \E f \in [0 .. Len(seq) -> Tokens] :
              f[Len(seq)] = WrittenList(seq) /\ Traced(f, Len(seq), <<>>, WrittenListNext, seq)
<1> DEFINE n == Len(seq)
           V == Tokens
           base == <<>>
           next == WrittenListNext
           Step(g) == [s \in SUBSET DOMAIN seq |-> IF s = {} THEN base
                         ELSE WrittenStep(g[s \ {Max(s)}], seq[Max(s)])]
<1>1. WrittenList(seq) = (CHOOSE g : g = Step(g))[DOMAIN seq]
  BY DEF WrittenList, FoldLeft, MapThenFoldSet, WrittenStep
<1>2. DOMAIN seq = 1 .. n /\ n \in Nat /\ seq \in [1 .. n -> Seq(Token)] /\ base \in V
  BY DEF TokenLists, Tokens
<1>3. next \in [V \X Seq(Token) -> V] /\ \A x \in V, t \in Seq(Token) : next[<<x, t>>] = WrittenStep(x, t)
  BY WrittenStepType DEF WrittenListNext
<1> HIDE DEF n, V, base, next
<1>4. ASSUME NEW s \in SUBSET (1 .. n), s # {}, NEW x \in V
      PROVE  next[<<x, seq[Max(s)]>>] = WrittenStep(x, seq[Max(s)])
  <2>1. Max(s) \in 1 .. n
    BY <1>2, <1>4, MinMaxOf
  <2> QED BY <1>2, <1>3, <2>1
<1>5. PICK h \in [SUBSET (1 .. n) -> V] : Folding(h, V, n, base, next, seq)
  BY <1>2, <1>3, FoldExists
<1>6. h = Step(h)
  <2>1. ASSUME NEW s \in SUBSET (1 .. n), s # {}
        PROVE  h[s] = WrittenStep(h[s \ {Max(s)}], seq[Max(s)])
    BY <1>4, <1>5, <2>1 DEF Folding
  <2> QED BY <1>2, <1>5, <2>1 DEF Folding
<1> DEFINE g == CHOOSE g : g = Step(g)
<1>7. g = Step(g)
  <2> HIDE DEF Step
  <2> QED BY <1>6
<1>8. g[1 .. n] = WrittenList(seq)
  BY <1>1, <1>2
<1> HIDE DEF g
<1>9. Folding(g, V, n, base, next, seq)
  BY <1>2, <1>4, <1>7 DEF Folding
<1>10. PICK f \in [0 .. n -> V] : f[n] = g[1 .. n] /\ Traced(f, n, base, next, seq)
  <2> HIDE DEF Step
  <2> QED BY <1>2, <1>3, <1>9, FoldTrace
<1> QED BY <1>8, <1>10 DEF n, V, base, next

\* The elements that are not empty, element by element.
LEMMA NotEmptyOf ==
    /\ NotEmpty(<<>>) = <<>>
    /\ \A parts \in TokenLists : NotEmpty(parts) \in TokenLists
    /\ \A parts \in TokenLists, part \in Seq(Token) :
         NotEmpty(Append(parts, part)) = PickedStep(NotEmpty(parts), part)
<1>1. NotEmpty(<<>>) = <<>>
  <2>1. <<>> \in TokenLists /\ Len(<<>>) = 0
    BY DEF TokenLists
  <2>2. PICK f : f[0] = NotEmpty(<<>>) /\ Traced(f, 0, <<>>, NotEmptyNext, <<>>)
    BY <2>1, NotEmptyTrace
  <2> QED BY <2>2 DEF Traced
<1>2. ASSUME NEW parts \in TokenLists PROVE NotEmpty(parts) \in TokenLists
  <2>1. Len(parts) \in 0 .. Len(parts)
    BY DEF TokenLists
  <2> QED BY <2>1, NotEmptyTrace
<1>3. ASSUME NEW parts \in TokenLists, NEW part \in Seq(Token)
      PROVE  NotEmpty(Append(parts, part)) = PickedStep(NotEmpty(parts), part)
  <2> DEFINE n == Len(parts)
           more == Append(parts, part)
           next == NotEmptyNext
  <2>1. /\ n \in Nat /\ more \in TokenLists /\ Len(more) = n + 1 /\ more[n + 1] = part
        /\ \A k \in 1 .. n : more[k] = parts[k]
    BY DEF TokenLists
  <2>2. PICK f : f[n] = NotEmpty(parts) /\ Traced(f, n, <<>>, next, parts)
    BY NotEmptyTrace
  <2>3. PICK h : h[n + 1] = NotEmpty(more) /\ Traced(h, n + 1, <<>>, next, more)
    <3> HIDE DEF n, more
    <3> QED BY <2>1, NotEmptyTrace
  <2> HIDE DEF n, more, next
  <2>4. f[n] = h[n]
    <3>1. Begins(f, h, n, <<>>, next, parts, more)
      BY <2>1, <2>2, <2>3 DEF Begins
    <3> QED BY <3>1, TracesAgree
  <2>5. h[n + 1] = next[<<h[n], part>>]
    BY <2>1, <2>3, n + 1 \in 1 .. (n + 1) DEF Traced
  <2> QED BY <1>2, <2>2, <2>3, <2>4, <2>5 DEF NotEmptyNext, next, more
<1> QED BY <1>1, <1>2, <1>3

-------------------------------------------------------------------------------
(* What is written is read.                                                *)

\* The beginning of a sequence grows by its elements.
LEMMA BeginningGrows ==
    ASSUME NEW T, NEW s \in Seq(T), NEW k \in 1 .. Len(s)
    PROVE  /\ SubSeq(s, 1, k) = Append(SubSeq(s, 1, k - 1), s[k])
           /\ SubSeq(s, 1, k - 1) \in Seq(T) /\ s[k] \in T
<1>1. SubSeq(s, 1, k) = SubSeq(s, 1, k - 1) \o <<s[k]>>
  BY SubSeqRecursiveSecond
<1>2. SubSeq(s, 1, k - 1) \in Seq(T) /\ s[k] \in T
  <2>1. \A i \in 1 .. (k - 1) : s[i] \in T
    OBVIOUS
  <2> QED BY <2>1, SubSeqProperties
<1> QED BY <1>1, <1>2, AppendIsConcat

\* The last element of a sequence is changed.
LEMMA LastChanged ==
    ASSUME NEW T, NEW s \in Seq(T), NEW a \in T, NEW b \in T
    PROVE  /\ Append(s, a)[Len(Append(s, a))] = a
           /\ [Append(s, a) EXCEPT ![Len(Append(s, a))] = b] = Append(s, b)
<1> DEFINE n == Len(s) + 1
           x == Append(s, a)
           y == Append(s, b)
           z == [x EXCEPT ![n] = b]
<1>1. n \in Nat /\ Len(x) = n /\ x[n] = a /\ DOMAIN x = 1 .. n
  OBVIOUS
<1>2. DOMAIN y = 1 .. n /\ y[n] = b /\ \A i \in 1 .. n : i # n => y[i] = s[i] /\ x[i] = s[i]
  OBVIOUS
<1>3. y = [i \in 1 .. n |-> y[i]]
  <2>1. y \in Seq(T) /\ Len(y) = n
    OBVIOUS
  <2>2. y \in [1 .. n -> T]
    <3> HIDE DEF y, n
    <3> QED BY <2>1, LenProperties
  <2> HIDE DEF y, n
  <2> QED BY <2>2
<1> HIDE DEF n, x, y
<1>4. z = [i \in 1 .. n |-> z[i]] /\ \A i \in 1 .. n : z[i] = IF i = n THEN b ELSE x[i]
  BY <1>1
<1> HIDE DEF z
<1>5. z = y
  BY <1>1, <1>2, <1>3, <1>4
<1> QED BY <1>1, <1>5 DEF x, y, z

WithLast(parts, c) == [parts EXCEPT ![Len(parts)] = c]

\* The same for the last of the parts of a text.
LEMMA LastPartChanged ==
    ASSUME NEW pre \in TokenLists, NEW b \in Seq(Token), NEW c \in Seq(Token)
    PROVE  /\ Append(pre, b)[Len(Append(pre, b))] = b
           /\ WithLast(Append(pre, b), c) = Append(pre, c)
<1> DEFINE T == Seq(Token)
<1>1. pre \in Seq(T) /\ b \in T /\ c \in T
  BY DEF TokenLists
<1> HIDE DEF T
<1> QED BY <1>1, LastChanged DEF WithLast

\* An element without separators goes into the last part as a whole.
LEMMA PartsOfElement ==
    ASSUME NEW seps, NEW text \in Tokens, NEW pre \in TokenLists,
           Parts(text, seps) = Append(pre, <<>>),
           NEW e \in Seq(Token), \A i \in 1 .. Len(e) : e[i] \notin seps
    PROVE  Parts(text \o e, seps) = Append(pre, e)
<1> DEFINE begun(k) == SubSeq(e, 1, k)
           Upto(k) == Parts(text \o begun(k), seps) = Append(pre, begun(k))
           S == {k \in 0 .. Len(e) : Upto(k)}
<1>1. Len(e) \in Nat
  OBVIOUS
<1>2. Upto(0)
  <2>1. begun(0) = <<>>
    BY SubSeqEmpty
  <2>2. text \o <<>> = text
    BY DEF Tokens
  <2> QED BY <2>1, <2>2
<1>3. ASSUME NEW k \in 1 .. Len(e), Upto(k - 1) PROVE Upto(k)
  <2> DEFINE b == begun(k - 1)
  <2>1. begun(k) = Append(b, e[k]) /\ b \in Seq(Token) /\ e[k] \in Token /\ e[k] \notin seps
    BY BeginningGrows
  <2> HIDE DEF b
  <2>2. text \o b \in Tokens /\ text \o Append(b, e[k]) = Append(text \o b, e[k])
    BY <2>1 DEF Tokens
  <2>3. Parts(text \o Append(b, e[k]), seps) = PartsStep(Append(pre, b), e[k], seps)
    BY <2>1, <2>2, <1>3, PartsOf DEF b
  <2>4. PartsStep(Append(pre, b), e[k], seps) = Append(pre, Append(b, e[k]))
    <3>1. Append(b, e[k]) \in Seq(Token)
      BY <2>1
    <3> DEFINE x == Append(pre, b)
               c == Append(b, e[k])
    <3>2. x[Len(x)] = b /\ WithLast(x, c) = Append(pre, c)
      BY <2>1, <3>1, LastPartChanged
    <3>3. PartsStep(x, e[k], seps) = WithLast(x, Append(x[Len(x)], e[k]))
      <4> HIDE DEF x
      <4> QED BY <2>1 DEF PartsStep, WithLast
    <3> HIDE DEF x
    <3> QED BY <3>2, <3>3 DEF x
  <2> QED BY <2>1, <2>3, <2>4
<1>4. \A k \in 0 .. Len(e) : k \in S
  <2> HIDE DEF Upto
  <2>1. 0 \in S /\ \A k \in 1 .. Len(e) : k - 1 \in S => k \in S
    BY <1>1, <1>2, <1>3
  <2> HIDE DEF S
  <2> QED BY <1>1, <2>1, Upwards
<1>5. begun(Len(e)) = e
  BY SubSeqFull
<1>6. Upto(Len(e))
  <2> HIDE DEF Upto
  <2> QED BY <1>1, <1>4
<1> HIDE DEF begun
<1> QED BY <1>5, <1>6

\* An element that is written becomes a part, and an empty one follows it.
LEMMA PartsOfWritten ==
    ASSUME NEW text \in Tokens, NEW pre \in TokenLists, Parts(text, Separators) = Append(pre, <<>>),
           NEW e \in Seq(Token), \A i \in 1 .. Len(e) : e[i] \notin Separators
    PROVE  Parts(WrittenStep(text, e), Separators) = Append(Append(pre, e), <<>>)
<1>1. Parts(text \o e, Separators) = Append(pre, e) /\ text \o e \in Tokens
  BY PartsOfElement DEF Tokens
<1>2. ";" \in Token /\ ";" \in Separators
  BY ConfAssumption DEF Separators
<1>3. \A t \in Token : text \o e \o <<t>> = Append(text \o e, t)
  BY <1>1 DEF Tokens
<1>4. WrittenStep(text, e) = Append(text \o e, ";")
  BY <1>2, <1>3, Zenon DEF WrittenStep
<1>5. ASSUME NEW t \in Token, t \in Separators
      PROVE  Parts(Append(text \o e, t), Separators) = Append(Append(pre, e), <<>>)
  <2> DEFINE x == text \o e
  <2>1. Parts(x, Separators) = Append(pre, e) /\ x \in Tokens
    BY <1>1
  <2> HIDE DEF x
  <2>2. Parts(Append(x, t), Separators) = PartsStep(Append(pre, e), t, Separators)
    BY <2>1, PartsOf
  <2> QED BY <1>5, <2>2 DEF PartsStep, x
<1> QED BY <1>2, <1>4, <1>5, Zenon

\* A text that the key file keeps as it is: without line ends, no white space before it.
Kept(text) ==
    /\ text \in Tokens
    /\ \A i \in 1 .. Len(text) : text[i] # "NL"
    /\ text # <<>> => text[1] # " "


\* What an element of a list is made of.
Plain == Token \ (Separators \cup {"NL"})

\* Elements without separators and line ends are elements.
LEMMA PlainElements ==
    ASSUME NEW list \in Seq(Seq(Plain))
    PROVE  /\ list \in TokenLists
           /\ \A k \in 1 .. Len(list) :
                list[k] \in Seq(Token) /\ \A i \in 1 .. Len(list[k]) : list[k][i] \in Plain
<1>1. ASSUME NEW k \in 1 .. Len(list)
      PROVE  list[k] \in Seq(Token) /\ \A i \in 1 .. Len(list[k]) : list[k][i] \in Plain
  <2>1. list[k] \in Seq(Plain)
    <3> DEFINE T == Seq(Plain)
    <3>1. list \in Seq(T)
      OBVIOUS
    <3> HIDE DEF T
    <3>2. list[k] \in T
      BY <3>1
    <3> QED BY <3>2 DEF T
  <2> DEFINE e == list[k]
  <2>2. e \in Seq(Plain)
    BY <2>1
  <2> HIDE DEF e
  <2>3. \A i \in 1 .. Len(e) : e[i] \in Plain
    BY <2>2
  <2>4. Len(e) \in Nat /\ e = [i \in 1 .. Len(e) |-> e[i]] /\ \A i \in 1 .. Len(e) : e[i] \in Token
    BY <2>2, <2>3 DEF Plain
  <2>5. e \in Seq(Token)
    <3> DEFINE m == Len(e)
    <3>1. m \in Nat /\ e \in [1 .. m -> Token]
      BY <2>4
    <3> HIDE DEF m
    <3> QED BY <3>1
  <2> QED BY <2>3, <2>5 DEF e
<1>2. list \in TokenLists
  <2> DEFINE T == Seq(Token)
             U == Seq(Plain)
  <2>1. list \in Seq(U) /\ \A k \in 1 .. Len(list) : list[k] \in T
    BY <1>1
  <2> HIDE DEF T, U
  <2>2. Len(list) \in Nat /\ list = [k \in 1 .. Len(list) |-> list[k]]
    BY <2>1
  <2>3. list \in Seq(T)
    <3>1. list \in [1 .. Len(list) -> T]
      BY <2>1, <2>2
    <3> QED BY <2>2, <3>1
  <2> QED BY <2>3 DEF TokenLists, T
<1> QED BY <1>1, <1>2

\* No white space and no line end.
Solid(text) == \A i \in 1 .. Len(text) : text[i] # "NL" /\ text[i] # " "

\* Texts without white space and line ends are put together to one.
LEMMA SolidConcat ==
    ASSUME NEW a \in Tokens, NEW b \in Tokens, Solid(a), Solid(b)
    PROVE  Solid(a \o b) /\ a \o b \in Tokens
<1>1. a \o b \in Tokens
  BY DEF Tokens
<1>2. ASSUME NEW i \in 1 .. Len(a \o b) PROVE (a \o b)[i] # "NL" /\ (a \o b)[i] # " "
  <2>1. /\ Len(a) \in Nat /\ Len(b) \in Nat /\ Len(a \o b) = Len(a) + Len(b)
        /\ (a \o b)[i] = IF i <= Len(a) THEN a[i] ELSE b[i - Len(a)]
    BY DEF Tokens
  <2>2. CASE i <= Len(a)
    <3>1. i \in 1 .. Len(a)
      BY <2>1, <2>2
    <3> QED BY <2>1, <2>2, <3>1 DEF Solid
  <2>3. CASE ~(i <= Len(a))
    <3>1. i - Len(a) \in 1 .. Len(b)
      BY <2>1, <2>3
    <3> QED BY <2>1, <2>3, <3>1 DEF Solid
  <2> QED BY <2>2, <2>3
<1> QED BY <1>1, <1>2 DEF Solid

\* The parts of a list that was written are its elements, and an empty one.
LEMMA WrittenListParts ==
    ASSUME NEW list \in Seq(Seq(Plain))
    PROVE  /\ WrittenList(list) \in Tokens /\ Solid(WrittenList(list))
           /\ Parts(WrittenList(list), Separators) = Append(list, <<>>)
<1> DEFINE n == Len(list)
           begun(k) == SubSeq(list, 1, k)
<1>1. n \in Nat /\ list \in TokenLists
      /\ \A k \in 1 .. n : list[k] \in Seq(Token) /\ \A i \in 1 .. Len(list[k]) : list[k][i] \in Plain
  BY PlainElements
<1>2. PICK f \in [0 .. n -> Tokens] :
         f[n] = WrittenList(list) /\ Traced(f, n, <<>>, WrittenListNext, list)
  BY <1>1, WrittenListTrace
<1> DEFINE Upto(k) == /\ Solid(f[k])
                      /\ Parts(f[k], Separators) = Append(begun(k), <<>>)
           S == {k \in 0 .. n : Upto(k)}
<1>3. Upto(0)
  <2>1. f[0] = <<>> /\ begun(0) = <<>>
    BY <1>2, SubSeqEmpty DEF Traced
  <2>2. Solid(<<>>)
    <3>1. Len(<<>>) = 0 /\ 1 .. 0 = {}
      OBVIOUS
    <3> DEFINE nil == <<>>
    <3>2. 1 .. Len(nil) = {}
      BY <3>1
    <3> HIDE DEF nil
    <3>3. Solid(nil)
      BY <3>2 DEF Solid
    <3> QED BY <3>3 DEF nil
  <2>3. Append(<<>>, <<>>) = OnePart
    BY DEF OnePart
  <2> HIDE DEF begun
  <2> QED BY <2>1, <2>2, <2>3, PartsOf
<1>4. ASSUME NEW k \in 1 .. n, Upto(k - 1) PROVE Upto(k)
  <2> DEFINE b == begun(k - 1)
             e == list[k]
             t == f[k - 1]
  <2>1. k - 1 \in 0 .. n /\ t \in Tokens /\ e \in Seq(Token) /\ \A i \in 1 .. Len(e) : e[i] \in Plain
    <3>1. k - 1 \in 0 .. n
      OBVIOUS
    <3> HIDE DEF n
    <3> QED BY <1>1, <1>2, <3>1
  <2>2. f[k] = WrittenStep(t, e)
    <3>1. f[k] = WrittenListNext[<<t, e>>]
      BY <1>2 DEF Traced
    <3> HIDE DEF t, e
    <3> QED BY <2>1, <3>1 DEF WrittenListNext
  <2>3. begun(k) = Append(b, e) /\ b \in TokenLists
    <3> DEFINE T == Seq(Token)
    <3>1. list \in Seq(T)
      BY <1>1 DEF TokenLists
    <3> HIDE DEF T
    <3> QED BY <3>1, BeginningGrows DEF TokenLists, T
  <2>4. Parts(t, Separators) = Append(b, <<>>) /\ Solid(t)
    BY <1>4
  <2> HIDE DEF b, e, t, begun
  <2>5. \A i \in 1 .. Len(e) : e[i] \notin Separators /\ e[i] # "NL" /\ e[i] # " "
    BY <2>1 DEF Plain, Separators
  <2>6. Parts(WrittenStep(t, e), Separators) = Append(Append(b, e), <<>>)
    BY <2>1, <2>3, <2>4, <2>5, PartsOfWritten
  <2>7. Solid(WrittenStep(t, e))
    <3>1. Solid(t \o e) /\ t \o e \in Tokens
      BY <2>1, <2>4, <2>5, SolidConcat DEF Solid, Tokens
    <3>2. <<";">> \in Tokens
      <4>1. \A c \in Token : <<c>> \in Seq(Token)
        OBVIOUS
      <4>2. ";" \in Token
        BY ConfAssumption
      <4> QED BY <4>1, <4>2, Zenon DEF Tokens
    <3>3. Solid(<<";">>)
      <4> DEFINE one == <<";">>
      <4>1. Len(one) = 1 /\ one[1] = ";"
        OBVIOUS
      <4> HIDE DEF one
      <4>2. \A i \in 1 .. Len(one) : one[i] # "NL" /\ one[i] # " "
        <5>1. ";" # "NL" /\ ";" # " "
          OBVIOUS
        <5>2. \A i \in 1 .. 1 : i = 1
          OBVIOUS
        <5> QED BY <4>1, <5>1, <5>2, Zenon
      <4> QED BY <4>2 DEF Solid, one
    <3> QED BY <3>1, <3>2, <3>3, SolidConcat DEF WrittenStep
  <2> QED BY <2>2, <2>3, <2>6, <2>7
<1>5. \A k \in 0 .. n : k \in S
  <2> HIDE DEF Upto, n
  <2>1. 0 \in S /\ \A k \in 1 .. n : k - 1 \in S => k \in S
    BY <1>1, <1>3, <1>4
  <2> HIDE DEF S
  <2> QED BY <1>1, <2>1, Upwards
<1>6. begun(n) = list
  BY SubSeqFull
<1>7. Upto(n) /\ f[n] \in Tokens
  <2> HIDE DEF Upto, n
  <2> QED BY <1>1, <1>2, <1>5
<1> HIDE DEF begun
<1> QED BY <1>2, <1>6, <1>7

\* A list is read as it was written.
LEMMA WrittenListIsRead ==
    ASSUME NEW list \in Seq(Seq(Plain)), list # <<>>
    PROVE  StringList(WrittenList(list)) = list
<1> DEFINE text == WrittenList(list)
           parts == Append(list, <<>>)
<1>1. Parts(text, Separators) = parts
  BY WrittenListParts
<1>2. list \in Seq(Seq(Token)) /\ <<>> \in Seq(Token)
  BY PlainElements DEF TokenLists
<1>3. Len(parts) > 1 /\ Last(parts) = <<>> /\ Front(parts) = list
  <2> DEFINE T == Seq(Token)
             nil == <<>>
  <2>1. list \in Seq(T) /\ nil \in T /\ list # <<>>
    BY <1>2
  <2> HIDE DEF T, nil
  <2>2. /\ Len(list) \in Nat /\ Len(list) # 0
        /\ Len(Append(list, nil)) = Len(list) + 1 /\ Append(list, nil)[Len(list) + 1] = nil
    BY <2>1
  <2>3. Front(Append(list, nil)) = list
    BY <2>1 DEF Front
  <2> QED BY <2>2, <2>3 DEF Last, nil
<1>4. text # <<>>
  <2>1. Parts(<<>>, Separators) = OnePart /\ Len(OnePart) = 1
    BY PartsOf DEF OnePart
  <2>2. Len(parts) # 1
    BY <1>3
  <2> HIDE DEF text, parts
  <2> QED BY <1>1, <2>1, <2>2
<1> HIDE DEF text, parts
<1> QED BY <1>1, <1>3, <1>4 DEF StringList, Split, text


\* A part of a sequence.
LEMMA MiddleOf ==
    ASSUME NEW t \in Seq(Token), NEW a \in 1 .. Len(t), NEW b \in 1 .. Len(t), a <= b
    PROVE  /\ SubSeq(t, a, b) \in Seq(Token)
           /\ Len(SubSeq(t, a, b)) = b - a + 1
           /\ SubSeq(t, a, b)[1] = t[a] /\ SubSeq(t, a, b)[b - a + 1] = t[b]
           /\ \A i \in 1 .. (b - a + 1) : \E j \in 1 .. Len(t) : SubSeq(t, a, b)[i] = t[j]
<1> DEFINE s == SubSeq(t, a, b)
           n == Len(t)
<1>1. n \in Nat /\ a \in 1 .. n /\ b \in 1 .. n
  OBVIOUS
<1>2. \A i \in a .. b : t[i] \in Token
  OBVIOUS
<1>3. s \in Seq(Token) /\ Len(s) = b - a + 1 /\ \A i \in 1 .. (b - a + 1) : s[i] = t[a + i - 1]
  BY <1>1, <1>2, SubSeqProperties
<1> HIDE DEF s, n
<1>4. ASSUME NEW i \in 1 .. (b - a + 1) PROVE \E j \in 1 .. n : s[i] = t[j]
  <2>1. a + i - 1 \in 1 .. n
    BY <1>1
  <2> QED BY <2>1, <1>3
<1>5. 1 \in 1 .. (b - a + 1) /\ b - a + 1 \in 1 .. (b - a + 1)
  BY <1>1
<1>6. s[1] = t[a]
  BY <1>1, <1>3, <1>5
<1>7. s[b - a + 1] = t[b]
  <2>1. a + (b - a + 1) - 1 = b
    BY <1>1
  <2> QED BY <2>1, <1>3, <1>5
<1> QED BY <1>3, <1>4, <1>6, <1>7 DEF s, n

\* The lines of a text are put together.
Unbroken(t) == t \in Tokens /\ \A i \in 1 .. Len(t) : t[i] # "NL"
Lines == {t \in Tokens : Unbroken(t)}

\* A token is added to a line: it stays one.
LEMMA WithTokenType ==
    ASSUME NEW sofar \in Lines, NEW t \in Token
    PROVE  WithToken(sofar, t) \in Lines
<1>1. ASSUME NEW c \in Token, c # "NL" PROVE Append(sofar, c) \in Lines
  <2> DEFINE n == Len(sofar)
             more == Append(sofar, c)
  <2>1. /\ n \in Nat /\ more \in Tokens /\ Len(more) = n + 1 /\ more[n + 1] = c
        /\ \A i \in 1 .. n : more[i] = sofar[i]
    BY <1>1 DEF Tokens, Lines
  <2>2. \A i \in 1 .. n : sofar[i] # "NL"
    BY DEF Lines, Unbroken
  <2> HIDE DEF n, more
  <2>3. ASSUME NEW i \in 1 .. (n + 1) PROVE more[i] # "NL"
    <3>1. i = n + 1 \/ i \in 1 .. n
      BY <2>1
    <3>2. CASE i = n + 1
      BY <1>1, <2>1, <3>2
    <3>3. CASE i \in 1 .. n
      BY <2>1, <2>2, <3>3
    <3> QED BY <3>1, <3>2, <3>3
  <2> QED BY <2>1, <2>3 DEF Lines, Unbroken, more
<1>2. ";" \in Token /\ ";" # "NL"
  BY ConfAssumption
<1>3. CASE t # "NL"
  <2>1. WithToken(sofar, t) = Append(sofar, t)
    BY <1>3 DEF WithToken
  <2> QED BY <1>1, <1>3, <2>1
<1>4. CASE t = "NL"
  <2>1. WithToken(sofar, t) = sofar \/ WithToken(sofar, t) = Append(sofar, ";")
    BY <1>4 DEF WithToken
  <2>2. Append(sofar, ";") \in Lines
    BY <1>1, <1>2
  <2> QED BY <2>1, <2>2
<1> QED BY <1>3, <1>4

JoinedNext == [x \in Lines \X Token |-> WithToken(x[1], x[2])]
NoLine == <<>>

\* Joined is reached token by token.
LEMMA JoinedTrace ==
    ASSUME NEW seq \in Tokens
    PROVE  \E f \in [0 .. Len(seq) -> Lines] :
              f[Len(seq)] = Joined(seq) /\ Traced(f, Len(seq), NoLine, JoinedNext, seq)
<1> DEFINE n == Len(seq)
           V == Lines
           base == NoLine
           next == JoinedNext
           Step(g) == [s \in SUBSET DOMAIN seq |-> IF s = {} THEN base
                         ELSE WithToken(g[s \ {Max(s)}], seq[Max(s)])]
<1>1. Joined(seq) = (CHOOSE g : g = Step(g))[DOMAIN seq]
  BY DEF Joined, FoldLeft, MapThenFoldSet, NoLine
<1>2. DOMAIN seq = 1 .. n /\ n \in Nat /\ seq \in [1 .. n -> Token] /\ base \in V
  <2>1. <<>> \in Tokens /\ Len(<<>>) = 0
    BY DEF Tokens
  <2>2. NoLine \in Lines
    BY <2>1 DEF Lines, Unbroken, NoLine
  <2> QED BY <2>2 DEF Tokens
<1>3. next \in [V \X Token -> V] /\ \A x \in V, t \in Token : next[<<x, t>>] = WithToken(x, t)
  BY WithTokenType DEF JoinedNext
<1> HIDE DEF n, V, base, next
<1>4. ASSUME NEW s \in SUBSET (1 .. n), s # {}, NEW x \in V
      PROVE  next[<<x, seq[Max(s)]>>] = WithToken(x, seq[Max(s)])
  <2>1. Max(s) \in 1 .. n
    BY <1>2, <1>4, MinMaxOf
  <2> QED BY <1>2, <1>3, <2>1
<1>5. PICK h \in [SUBSET (1 .. n) -> V] : Folding(h, V, n, base, next, seq)
  BY <1>2, <1>3, FoldExists
<1>6. h = Step(h)
  <2>1. ASSUME NEW s \in SUBSET (1 .. n), s # {}
        PROVE  h[s] = WithToken(h[s \ {Max(s)}], seq[Max(s)])
    BY <1>4, <1>5, <2>1 DEF Folding
  <2> QED BY <1>2, <1>5, <2>1 DEF Folding
<1> DEFINE g == CHOOSE g : g = Step(g)
<1>7. g = Step(g)
  <2> HIDE DEF Step
  <2> QED BY <1>6
<1>8. g[1 .. n] = Joined(seq)
  BY <1>1, <1>2
<1> HIDE DEF g
<1>9. Folding(g, V, n, base, next, seq)
  BY <1>2, <1>4, <1>7 DEF Folding
<1>10. PICK f \in [0 .. n -> V] : f[n] = g[1 .. n] /\ Traced(f, n, base, next, seq)
  <2> HIDE DEF Step
  <2> QED BY <1>2, <1>3, <1>9, FoldTrace
<1> QED BY <1>8, <1>10 DEF n, V, base, next

\* lr_load_multiline_key_file() leaves no line end within a value.
LEMMA JoinedType ==
    ASSUME NEW text \in Tokens
    PROVE  Unbroken(Joined(text))
<1>1. Len(text) \in 0 .. Len(text)
  BY DEF Tokens
<1>2. Joined(text) \in Lines
  BY <1>1, JoinedTrace
<1> QED BY <1>2 DEF Lines

\* What is put together grows token by token.
LEMMA JoinedOf ==
    /\ Joined(<<>>) = <<>>
    /\ \A text \in Tokens, t \in Token : Joined(Append(text, t)) = WithToken(Joined(text), t)
<1>1. Joined(<<>>) = <<>>
  <2>1. <<>> \in Tokens /\ Len(<<>>) = 0
    BY DEF Tokens
  <2>2. PICK f : f[0] = Joined(<<>>) /\ Traced(f, 0, NoLine, JoinedNext, <<>>)
    BY <2>1, JoinedTrace
  <2> QED BY <2>2 DEF Traced, NoLine
<1>2. ASSUME NEW text \in Tokens, NEW t \in Token
      PROVE  Joined(Append(text, t)) = WithToken(Joined(text), t)
  <2> DEFINE n == Len(text)
             more == Append(text, t)
             next == JoinedNext
  <2>1. /\ n \in Nat /\ more \in Tokens /\ Len(more) = n + 1 /\ more[n + 1] = t
        /\ \A k \in 1 .. n : more[k] = text[k]
    BY DEF Tokens
  <2>2. PICK f : f[n] = Joined(text) /\ Traced(f, n, NoLine, next, text)
    BY JoinedTrace
  <2>3. PICK h : h[n + 1] = Joined(more) /\ Traced(h, n + 1, NoLine, next, more)
    <3> HIDE DEF n, more
    <3> QED BY <2>1, JoinedTrace
  <2> HIDE DEF n, more, next
  <2>4. f[n] = h[n]
    <3>1. Begins(f, h, n, NoLine, next, text, more)
      BY <2>1, <2>2, <2>3 DEF Begins
    <3> QED BY <3>1, TracesAgree
  <2>5. h[n + 1] = next[<<h[n], t>>]
    BY <2>1, <2>3, n + 1 \in 1 .. (n + 1) DEF Traced
  <2>6. Joined(text) \in Lines
    BY JoinedType DEF Lines, Unbroken
  <2> QED BY <2>2, <2>3, <2>4, <2>5, <2>6 DEF JoinedNext, next, more
<1> QED BY <1>1, <1>2

\* A single line stays as it is.
LEMMA JoinedLine ==
    ASSUME NEW text \in Lines
    PROVE  Joined(text) = text
<1> DEFINE n == Len(text)
           At(k) == SubSeq(text, 1, k)
           S == {k \in 0 .. n : Joined(At(k)) = At(k)}
<1>1. n \in Nat /\ text \in Tokens /\ \A k \in 1 .. n : text[k] # "NL"
  <2>1. text \in Tokens /\ \A k \in 1 .. n : text[k] # "NL"
    BY DEF Lines, Unbroken
  <2> QED BY <2>1 DEF Tokens
<1>2. At(0) = <<>> /\ At(n) = text
  BY <1>1, SubSeqEmpty, SubSeqFull DEF Tokens
<1>3. ASSUME NEW k \in 1 .. n
      PROVE  At(k) = Append(At(k - 1), text[k]) /\ At(k - 1) \in Tokens /\ text[k] \in Token
  BY <1>1, BeginningGrows DEF Tokens
<1> HIDE DEF n, At
<1>4. 0 \in S
  BY <1>1, <1>2, JoinedOf
<1>5. ASSUME NEW k \in 1 .. n, k - 1 \in S PROVE k \in S
  <2>1. Joined(At(k - 1)) = At(k - 1) /\ text[k] # "NL" /\ k \in 0 .. n
    BY <1>1, <1>5
  <2>2. Joined(At(k)) = WithToken(At(k - 1), text[k])
    BY <1>3, <2>1, JoinedOf
  <2>3. Joined(At(k)) = At(k)
    BY <1>3, <2>1, <2>2 DEF WithToken
  <2> QED BY <2>1, <2>3
<1>6. n \in S
  <2> HIDE DEF S
  <2>1. \A k \in 0 .. n : k \in S
    BY <1>1, <1>4, <1>5, Upwards
  <2> QED BY <1>1, <2>1
<1> QED BY <1>2, <1>6

\* A text that the key file keeps is read as it is, from the file too.
LEMMA KeptIsRead ==
    ASSUME NEW text, Kept(text)
    PROVE  Stripped(Joined(text)) = text
<1> DEFINE n == Len(text)
           D == DOMAIN text
<1>1. text \in Seq(Token) /\ n \in Nat /\ D = 1 .. n /\ \A i \in 1 .. n : text[i] # "NL"
  <2>1. text \in Tokens /\ \A i \in 1 .. Len(text) : text[i] # "NL"
    BY Zenon DEF Kept
  <2> QED BY <2>1 DEF Tokens
<1>2. text # <<>> => n >= 1 /\ text[1] # " "
  <2>1. text # <<>> => text[1] # " "
    BY Zenon DEF Kept
  <2>2. text # <<>> => n # 0
    BY <1>1
  <2> HIDE DEF n, D
  <2>3. n # 0 => n >= 1
    BY <1>1
  <2> QED BY <2>1, <2>2, <2>3
<1>3. text = [i \in 1 .. n |-> text[i]]
  <2>1. text \in [1 .. n -> Token]
    BY <1>1, LenProperties
  <2> HIDE DEF n
  <2> QED BY <2>1
<1>4. SubSeq(text, 1, n) = text
  BY <1>1, SubSeqFull
<1> HIDE DEF n, D
<1>5. Joined(text) = text
  <2>1. text \in Lines
    BY Zenon DEF Kept, Lines, Unbroken
  <2> QED BY <2>1, JoinedLine
<1>6. Stripped(text) = text
  <2> DEFINE words == {i \in D : text[i] # " "}
  <2>1. Stripped(text) = IF words = {} THEN <<>> ELSE SubSeq(text, Min(words), n)
    BY DEF Stripped, D, n
  <2>2. CASE text = <<>>
    <3>1. words = {}
      BY <1>1, <2>2 DEF n
    <3> QED BY <2>1, <2>2, <3>1
  <2>3. CASE text # <<>>
    <3>0. n >= 1 /\ 1 \in 1 .. n /\ text[1] # " "
      <4>1. n >= 1 /\ text[1] # " "
        BY <1>2, <2>3, Zenon
      <4>2. n >= 1
        BY <4>1, Zenon
      <4>3. 1 \in 1 .. n
        BY <1>1, <4>2
      <4> QED BY <4>1, <4>2, <4>3, Zenon
    <3>1. words # {} /\ words \in SUBSET (1 .. n) /\ 1 \in words /\ n >= 1
      BY <1>1, <3>0
    <3> HIDE DEF words
    <3>2. Min(words) \in 1 .. n /\ Min(words) <= 1
      <4>1. Min(words) \in words /\ \A y \in words : Min(words) <= y
        BY <1>1, <3>1, MinMaxOf
      <4> QED BY <1>1, <3>1, <4>1
    <3>3. Min(words) = 1
      BY <1>1, <3>2
    <3> QED BY <2>1, <3>1, <3>3, <1>4
  <2> QED BY <2>2, <2>3
<1> QED BY <1>5, <1>6

\* What is read from a file is kept when it is written.
LEMMA ReadIsKept ==
    ASSUME NEW text \in Tokens
    PROVE  Kept(Stripped(Joined(text)))
<1>0. Unbroken(<<>>) /\ Kept(<<>>)
  <2>1. Len(<<>>) = 0 /\ \A i \in 1 .. 0 : FALSE
    OBVIOUS
  <2>2. Unbroken(<<>>)
    BY <2>1 DEF Tokens, Unbroken
  <2> QED BY <2>2 DEF Kept, Unbroken
<1>2. ASSUME NEW t, Unbroken(t) PROVE Kept(Stripped(t))
  <2> DEFINE words == {i \in DOMAIN t : t[i] # " "}
             n == Len(t)
  <2>1. Stripped(t) = IF words = {} THEN <<>> ELSE SubSeq(t, Min(words), n)
    BY DEF Stripped
  <2>2. CASE words = {}
    BY <1>0, <2>1, <2>2
  <2>3. CASE words # {}
    <3>1. /\ n \in Nat /\ DOMAIN t = 1 .. n /\ t \in Seq(Token)
          /\ \A i \in 1 .. n : t[i] \in Token /\ t[i] # "NL"
      BY <1>2 DEF Tokens, Unbroken
    <3>0. ASSUME NEW k \in 1 .. n, NEW l \in 1 .. n, k <= l
          PROVE  /\ SubSeq(t, k, l) \in Seq(Token) /\ Len(SubSeq(t, k, l)) = l - k + 1
                 /\ SubSeq(t, k, l)[1] = t[k]
                 /\ \A i \in 1 .. (l - k + 1) : \E j \in 1 .. n : SubSeq(t, k, l)[i] = t[j]
      <4>1. t \in Seq(Token)
        BY <3>1
      <4>2. k \in 1 .. Len(t) /\ l \in 1 .. Len(t)
        OBVIOUS
      <4> QED BY ONLY <4>1, <4>2, k <= l, MiddleOf
    <3>2. words \in SUBSET (1 .. n) /\ \A i \in words : t[i] # " "
      BY <3>1
    <3> DEFINE a == Min(words)
               b == n
               s == SubSeq(t, a, b)
    <3> HIDE DEF words, n
    <3>3. a \in 1 .. n /\ b \in 1 .. n /\ a <= b /\ t[a] # " "
      <4>1. a \in words
        BY <3>1, <3>2, <2>3, MinMaxOf
      <4> HIDE DEF a
      <4>2. n \in Nat /\ a \in 1 .. n
        BY <3>1, <3>2, <4>1, Zenon
      <4>3. n \in 1 .. n /\ a <= n
        BY <4>2
      <4> QED BY <3>2, <4>1, <4>2, <4>3, Zenon
    <3>4. /\ s \in Seq(Token) /\ Len(s) = b - a + 1
          /\ s[1] = t[a]
          /\ \A i \in 1 .. (b - a + 1) : \E j \in 1 .. n : s[i] = t[j]
      <4>1. a \in 1 .. n /\ b \in 1 .. n /\ a <= b
        BY <3>3
      <4> HIDE DEF a, b
      <4> QED BY <3>0, <4>1
    <3>5. ASSUME NEW i \in 1 .. Len(s) PROVE s[i] # "NL"
      <4> HIDE DEF s
      <4>1. i \in 1 .. (b - a + 1)
        BY <3>4
      <4>2. PICK j \in 1 .. n : s[i] = t[j]
        BY <3>4, <4>1
      <4> QED BY <3>1, <4>2
    <3>6. s[1] # " "
      <4> HIDE DEF s
      <4> QED BY <3>3, <3>4
    <3> HIDE DEF s
    <3>7. Kept(s)
      BY <3>4, <3>5, <3>6 DEF Kept, Tokens
    <3> QED BY <2>1, <2>3, <3>7 DEF s, a, b
  <2> QED BY <2>2, <2>3
<1> QED BY <1>2, JoinedType


\* No line end and no white space.
Word(w) == w # "NL" /\ w # " "

\* A word is kept.
LEMMA OneWordIsKept ==
    ASSUME NEW w \in Token, Word(w)
    PROVE  Kept(<<w>>)
<1> DEFINE t == <<w>>
<1>1. t \in Seq(Token) /\ Len(t) = 1 /\ t[1] = w
  <2>1. \A c \in Token : <<c>> \in Seq(Token)
    OBVIOUS
  <2>2. Len(t) = 1 /\ t[1] = w
    OBVIOUS
  <2> QED BY <2>1, <2>2, Zenon
<1> HIDE DEF t
<1>2. \A i \in 1 .. Len(t) : t[i] # "NL"
  <2>1. \A i \in 1 .. 1 : i = 1
    OBVIOUS
  <2> QED BY <1>1, <2>1, Zenon DEF Word
<1>3. t[1] # " "
  BY <1>1, Zenon DEF Word
<1>4. Kept(t)
  BY <1>1, <1>2, <1>3, Zenon DEF Kept, Tokens
<1> QED BY <1>4 DEF t

\* A text without white space and line ends is kept.
LEMMA SolidIsKept ==
    ASSUME NEW text \in Tokens, Solid(text)
    PROVE  Kept(text)
<1> DEFINE n == Len(text)
<1>1. n \in Nat /\ (text # <<>> => n # 0)
  BY DEF Tokens
<1> HIDE DEF n
<1>2. n # 0 => 1 \in 1 .. n /\ n \in 1 .. n
  BY <1>1
<1>3. \A i \in 1 .. n : text[i] # "NL" /\ text[i] # " "
  BY Zenon DEF Solid, n
<1> QED BY <1>1, <1>2, <1>3, Zenon DEF Kept, n

\* The kinds of options that are not strings.
Interpreted == {"list", "boolean", "interval", "bandwidth", "ip_resolve"}

\* The kinds of options that are not plain strings differ.
LEMMA KindsApart ==
    /\ "list" # "boolean" /\ "list" # "interval" /\ "list" # "bandwidth" /\ "list" # "ip_resolve"
    /\ "boolean" # "interval" /\ "boolean" # "bandwidth" /\ "boolean" # "ip_resolve"
    /\ "interval" # "bandwidth" /\ "interval" # "ip_resolve" /\ "bandwidth" # "ip_resolve"
OBVIOUS

\* A number is written as a word for it.
LEMMA NumberIsRead ==
    ASSUME NEW v, \E w \in DOMAIN Numeral : Numeral[w] = v,
           NEW mult
    PROVE  LET text == <<CHOOSE w \in DOMAIN Numeral : Numeral[w] = v>>
           IN  Kept(text) /\ Scaled(text, mult) = Is(v)
<1> DEFINE w == CHOOSE w \in DOMAIN Numeral : Numeral[w] = v
           text == <<w>>
<1>1. w \in DOMAIN Numeral /\ Numeral[w] = v
  OBVIOUS
<1> HIDE DEF w
<1>2. w \in Token /\ w # "NL" /\ w # " "
  BY <1>1, ConfAssumption DEF Separators
<1>3. Kept(text)
  BY <1>2, OneWordIsKept, Zenon DEF Word
<1>4. text # <<>> /\ Len(text) = 1 /\ text[1] = w
  OBVIOUS
<1> HIDE DEF text
<1>5. Scaled(text, mult) = Is(v)
  BY <1>1, <1>4, Zenon DEF Scaled
<1> QED BY <1>3, <1>5 DEF text, w

\* What is set is written so that it is read again, with every kind of option.
LEMMA WrittenIsRead ==
    ASSUME NEW kind, NEW v, Settable(kind, v), ~(kind = "list" /\ v = <<>>)
    PROVE  Kept(WrittenAs(kind, v)) /\ Same(ReadAs(kind, WrittenAs(kind, v)), Is(v))
<1> DEFINE text == WrittenAs(kind, v)
<1> USE KindsApart
<1>1. CASE kind = "list"
  <2>1. v \in Seq(Seq(Plain)) /\ v # <<>>
    BY <1>1 DEF Settable, Plain
  <2>2. WrittenAs(kind, v) = WrittenList(v)
    BY <1>1 DEF WrittenAs
  <2>3. ReadAs(kind, text) = Is(StringList(text))
    BY <1>1 DEF ReadAs
  <2>4. Kept(WrittenList(v)) /\ StringList(WrittenList(v)) = v
    BY <2>1, WrittenListParts, WrittenListIsRead, SolidIsKept
  <2> QED BY <2>2, <2>3, <2>4 DEF Same
<1>2. CASE kind = "boolean"
  <2>1. v \in BOOLEAN
    BY <1>2 DEF Settable
  <2>2. text = IF v THEN <<"true">> ELSE <<"false">>
    BY <1>2 DEF WrittenAs
  <2>3. ReadAs(kind, text) = Is(text \in {<<"1">>, <<"yes">>, <<"true">>})
    BY <1>2 DEF ReadAs
  <2>4. Kept(<<"true">>) /\ Kept(<<"false">>)
    <3>1. "true" \in Token /\ "false" \in Token
      BY ConfAssumption
    <3>2. "true" # "NL" /\ "true" # " " /\ "false" # "NL" /\ "false" # " "
      OBVIOUS
    <3> QED BY <3>1, <3>2, OneWordIsKept, Zenon DEF Word
  <2>5. <<"false">> \notin {<<"1">>, <<"yes">>, <<"true">>}
    <3>1. "false" # "1" /\ "false" # "yes" /\ "false" # "true"
      OBVIOUS
    <3>2. \A a, b : <<a>> = <<b>> => a = b
      OBVIOUS
    <3> QED BY <3>1, <3>2, Zenon
  <2>6. CASE v = TRUE
    <3>1. text = <<"true">>
      BY <2>2, <2>6
    <3> HIDE DEF text
    <3>2. ReadAs(kind, text) = Is(TRUE)
      BY <2>3, <3>1
    <3> QED BY <2>4, <2>6, <3>1, <3>2 DEF Same, text
  <2>7. CASE v = FALSE
    <3>1. text = <<"false">>
      BY <2>2, <2>7
    <3> HIDE DEF text
    <3>2. ReadAs(kind, text) = Is(FALSE)
      <4>1. (text \in {<<"1">>, <<"yes">>, <<"true">>}) = FALSE
        BY <2>5, <3>1
      <4> QED BY <2>3, <4>1
    <3> QED BY <2>4, <2>7, <3>1, <3>2 DEF Same, text
  <2> QED BY <2>1, <2>6, <2>7
<1>3. CASE kind \in {"interval", "bandwidth"}
  <2>1. \E w \in DOMAIN Numeral : Numeral[w] = v
    BY <1>3 DEF Settable
  <2>2. text = <<CHOOSE w \in DOMAIN Numeral : Numeral[w] = v>>
    BY <1>3 DEF WrittenAs
  <2> HIDE DEF text
  <2>3. Kept(text) /\ \A mult : Scaled(text, mult) = Is(v)
    BY <2>1, <2>2, NumberIsRead
  <2>4. CASE kind = "interval"
    <3>1. ReadAs(kind, text) = Is(v)
      BY <2>3, <2>4 DEF ReadAs, Interval
    <3> QED BY <2>3, <3>1 DEF Same, text
  <2>5. CASE kind = "bandwidth"
    <3>1. v >= 0 /\ v \in Int
      BY <2>5, ConfAssumption DEF Settable
    <3>2. ReadAs(kind, text) = Bandwidth(text)
      BY <2>5 DEF ReadAs
    <3>3. Bandwidth(text) = Is(v)
      <4> DEFINE r == Is(v)
      <4>1. Bandwidth(text) = IF r.ok /\ r.value < 0 THEN BadValue ELSE r
        <5> HIDE DEF r
        <5>1. \A mult : Scaled(text, mult) = r
          BY <2>3 DEF r
        <5> QED BY <5>1, SMT DEF Bandwidth
      <4>2. r.value = v /\ ~(v < 0)
        <5>1. ~(v < 0)
          BY <3>1
        <5> QED BY <5>1 DEF Is
      <4> HIDE DEF r
      <4>3. Bandwidth(text) = r
        BY <4>1, <4>2, SMT
      <4> QED BY <4>3 DEF r
    <3> QED BY <2>3, <3>2, <3>3 DEF Same, text
  <2> QED BY <1>3, <2>4, <2>5
<1>4. CASE kind = "ip_resolve"
  <2>1. v \in {<<"ipv4">>, <<"ipv6">>, <<"whatever">>}
    BY <1>4 DEF Settable
  <2>2. text = v
    BY <1>4 DEF WrittenAs
  <2>3. ReadAs(kind, v) = Is(v)
    BY <1>4, <2>1 DEF ReadAs
  <2>4. Kept(v)
    <3>1. "ipv4" \in Token /\ "ipv6" \in Token /\ "whatever" \in Token
      BY ConfAssumption
    <3>2. /\ "ipv4" # "NL" /\ "ipv4" # " " /\ "ipv6" # "NL" /\ "ipv6" # " "
          /\ "whatever" # "NL" /\ "whatever" # " "
      OBVIOUS
    <3> QED BY <2>1, <3>1, <3>2, OneWordIsKept, Zenon DEF Word
  <2> QED BY <2>2, <2>3, <2>4 DEF Same
<1>5. CASE kind \notin Interpreted
  <2>1. v \in Seq(Token \ {"NL"}) /\ (v # <<>> => v[1] # " ")
    BY <1>5 DEF Settable, Interpreted
  <2>2. text = v /\ ReadAs(kind, v) = Is(v)
    BY <1>5 DEF WrittenAs, ReadAs, Interpreted
  <2>3. v \in Seq(Token) /\ \A i \in 1 .. Len(v) : v[i] # "NL"
    <3>1. v \in Seq(Token \ {"NL"})
      BY <2>1
    <3> DEFINE n == Len(v)
    <3>2. n \in Nat /\ v \in [1 .. n -> Token \ {"NL"}]
      BY <3>1, LenProperties
    <3> HIDE DEF n
    <3>3. v \in [1 .. n -> Token] /\ \A i \in 1 .. n : v[i] # "NL"
      BY <3>2
    <3>4. v \in Seq(Token)
      BY <3>2, <3>3
    <3> QED BY <3>3, <3>4 DEF n
  <2>4. Kept(v)
    BY <2>1, <2>3, Zenon DEF Kept, Tokens
  <2> QED BY <2>2, <2>4 DEF Same
<1> QED BY <1>1, <1>2, <1>3, <1>4, <1>5 DEF Interpreted


-------------------------------------------------------------------------------
(* The repositories of the .repo files: what their state is.               *)

\* The types: options and sections of a key file, with texts of T.
KeptTexts == {text \in Tokens : Kept(text)}
Options(T) == UNION {[O -> T] : O \in SUBSET DOMAIN Kind}
Sections(T) == UNION {[G -> Options(T)] : G \in SUBSET Ids}

\* Files on the disk hold any text, key files in memory what was loaded or set.
Disks == [Paths -> [state : {"none", "bad", "good"}, groups : Sections(Tokens)]]
KeyFiles == [path : Paths, groups : Sections(KeptTexts), modified : BOOLEAN]
Confs == {c \in [files : Seq(KeyFiles), repos : Seq([file : Nat, id : Ids]), ok : BOOLEAN] :
            \A r \in 1 .. Len(c.repos) : c.repos[r].file \in 1 .. Len(c.files)}

\* The types of the variables; every repository is of a file that is loaded.
ConfTypeOK ==
    /\ disk \in Disks /\ Conf \in Confs
    /\ DOMAIN given \subseteq Paths \X Ids \X DOMAIN Kind

\* A path that is loaded more than once is not looked at.
LoadedOnce == \A k \in DOMAIN given : \A i, j \in Objects(k[1]) : i = j

\* The inductive invariant.
ConfInv == ConfTypeOK /\ LoadedOnce /\ SetIsRead

\* What the sections of a key file are made of.
LEMMA SectionsOf ==
    ASSUME NEW T, NEW g \in Sections(T)
    PROVE  /\ DOMAIN g \in SUBSET Ids /\ g = [id \in DOMAIN g |-> g[id]]
           /\ \A id \in DOMAIN g : /\ DOMAIN g[id] \in SUBSET DOMAIN Kind
                                   /\ g[id] = [opt \in DOMAIN g[id] |-> g[id][opt]]
                                   /\ \A opt \in DOMAIN g[id] : g[id][opt] \in T
<1>1. PICK G \in SUBSET Ids : g \in [G -> Options(T)]
  BY DEF Sections
<1>2. DOMAIN g = G /\ g = [id \in DOMAIN g |-> g[id]] /\ \A id \in G : g[id] \in Options(T)
  BY <1>1
<1>3. ASSUME NEW id \in G
      PROVE  /\ DOMAIN g[id] \in SUBSET DOMAIN Kind
             /\ g[id] = [opt \in DOMAIN g[id] |-> g[id][opt]]
             /\ \A opt \in DOMAIN g[id] : g[id][opt] \in T
  <2> DEFINE h == g[id]
  <2>1. h \in Options(T)
    BY <1>2
  <2> HIDE DEF h
  <2>2. PICK O \in SUBSET DOMAIN Kind : h \in [O -> T]
    BY <2>1 DEF Options
  <2>3. /\ DOMAIN h \in SUBSET DOMAIN Kind
        /\ h = [opt \in DOMAIN h |-> h[opt]]
        /\ \A opt \in DOMAIN h : h[opt] \in T
    BY <2>2
  <2> QED BY <2>3 DEF h
<1> QED BY <1>2, <1>3

\* And what makes them sections,
LEMMA SectionsType ==
    ASSUME NEW T, NEW g, DOMAIN g \in SUBSET Ids, g = [id \in DOMAIN g |-> g[id]],
           \A id \in DOMAIN g : g[id] \in Options(T)
    PROVE  g \in Sections(T)
<1> DEFINE G == DOMAIN g
<1>1. g \in [G -> Options(T)] /\ G \in SUBSET Ids
  OBVIOUS
<1> HIDE DEF G
<1> QED BY <1>1 DEF Sections

\* and their options.
LEMMA OptionsType ==
    ASSUME NEW T, NEW h, DOMAIN h \in SUBSET DOMAIN Kind, h = [opt \in DOMAIN h |-> h[opt]],
           \A opt \in DOMAIN h : h[opt] \in T
    PROVE  h \in Options(T)
<1> DEFINE O == DOMAIN h
<1>1. h \in [O -> T] /\ O \in SUBSET DOMAIN Kind
  OBVIOUS
<1> HIDE DEF O
<1> QED BY <1>1 DEF Options

\* A file without sections, a section without options.
LEMMA NoSections ==
    ASSUME NEW T
    PROVE  <<>> \in Sections(T) /\ <<>> \in Options(T)
<1> DEFINE g == <<>>
<1>1. DOMAIN g = {} /\ g = [x \in DOMAIN g |-> g[x]]
  OBVIOUS
<1> HIDE DEF g
<1>2. DOMAIN g \in SUBSET Ids /\ DOMAIN g \in SUBSET DOMAIN Kind /\ \A x \in DOMAIN g : FALSE
  BY <1>1
<1>3. g \in Sections(T)
  BY <1>1, <1>2, SectionsType
<1>4. g \in Options(T)
  BY <1>1, <1>2, OptionsType
<1> QED BY <1>3, <1>4 DEF g

\* Sections of texts that are kept are sections of texts.
LEMMA SectionsOfKept ==
    ASSUME NEW g \in Sections(KeptTexts)
    PROVE  g \in Sections(Tokens)
<1>1. DOMAIN g \in SUBSET Ids /\ g = [id \in DOMAIN g |-> g[id]]
  BY SectionsOf
<1>2. ASSUME NEW id \in DOMAIN g PROVE g[id] \in Options(Tokens)
  <2> DEFINE h == g[id]
  <2>1. /\ DOMAIN h \in SUBSET DOMAIN Kind /\ h = [opt \in DOMAIN h |-> h[opt]]
        /\ \A opt \in DOMAIN h : h[opt] \in KeptTexts
    BY SectionsOf
  <2> HIDE DEF h
  <2>2. \A opt \in DOMAIN h : h[opt] \in Tokens
    BY <2>1 DEF KeptTexts
  <2>3. h \in Options(Tokens)
    BY <2>1, <2>2, OptionsType
  <2> QED BY <2>3 DEF h
<1> QED BY <1>1, <1>2, SectionsType

\* What is loaded from a file is kept.
LEMMA LoadedType ==
    ASSUME NEW g \in Sections(Tokens)
    PROVE  Loaded(g) \in Sections(KeptTexts) /\ DOMAIN Loaded(g) = DOMAIN g
<1> DEFINE l == Loaded(g)
           Of(id) == [opt \in DOMAIN g[id] |-> Stripped(Joined(g[id][opt]))]
<1>1. DOMAIN l = DOMAIN g /\ l = [id \in DOMAIN l |-> l[id]] /\ \A id \in DOMAIN g : l[id] = Of(id)
  BY DEF Loaded
<1>2. DOMAIN g \in SUBSET Ids
  BY SectionsOf
<1>3. ASSUME NEW id \in DOMAIN g PROVE Of(id) \in Options(KeptTexts)
  <2> DEFINE h == g[id]
             o == [opt \in DOMAIN h |-> Stripped(Joined(h[opt]))]
  <2>1. DOMAIN h \in SUBSET DOMAIN Kind /\ \A opt \in DOMAIN h : h[opt] \in Tokens
    BY SectionsOf
  <2> HIDE DEF h
  <2>2. \A opt \in DOMAIN h : Stripped(Joined(h[opt])) \in KeptTexts
    BY <2>1, ReadIsKept DEF KeptTexts, Kept
  <2>3. DOMAIN o = DOMAIN h /\ o = [opt \in DOMAIN o |-> o[opt]] /\ \A opt \in DOMAIN h : o[opt] \in KeptTexts
    BY <2>2
  <2> HIDE DEF o
  <2>4. o \in Options(KeptTexts)
    BY <2>1, <2>3, OptionsType
  <2> QED BY <2>4 DEF o, h
<1> HIDE DEF l, Of
<1>4. l \in Sections(KeptTexts)
  BY <1>1, <1>2, <1>3, SectionsType
<1> QED BY <1>1, <1>4 DEF l

\* A file that was saved is read as the key file in memory is.
LEMMA SavedIsRead ==
    ASSUME NEW g \in Sections(KeptTexts), NEW id, NEW opt
    PROVE  Get(Loaded(g), id, opt) = Get(g, id, opt)
<1>1. \A i \in DOMAIN g : \A o \in DOMAIN g[i] : g[i][o] \in KeptTexts
  BY SectionsOf
<1>2. \A i \in DOMAIN g : \A o \in DOMAIN g[i] : Stripped(Joined(g[i][o])) = g[i][o]
  BY <1>1, KeptIsRead DEF KeptTexts
<1>3. /\ DOMAIN Loaded(g) = DOMAIN g
      /\ \A i \in DOMAIN g : /\ DOMAIN Loaded(g)[i] = DOMAIN g[i]
                             /\ \A o \in DOMAIN g[i] : Loaded(g)[i][o] = Stripped(Joined(g[i][o]))
  BY DEF Loaded
<1> DEFINE l == Loaded(g)
<1> HIDE DEF l
<1>4. CASE id \in DOMAIN g /\ opt \in DOMAIN g[id]
  BY <1>2, <1>3, <1>4 DEF Get
<1>5. CASE ~(id \in DOMAIN g /\ opt \in DOMAIN g[id])
  BY <1>3, <1>5 DEF Get
<1> QED BY <1>4, <1>5

\* Setting an option changes no other.
LEMMA WithOptionOf ==
    ASSUME NEW g \in Sections(KeptTexts), NEW id \in Ids, NEW opt \in DOMAIN Kind,
           NEW text \in KeptTexts
    PROVE  /\ WithOption(g, id, opt, text) \in Sections(KeptTexts)
           /\ Get(WithOption(g, id, opt, text), id, opt) = ReadAs(Kind[opt], text)
           /\ \A i, o : i # id \/ o # opt =>
                Get(WithOption(g, id, opt, text), i, o) = Get(g, i, o)
<1> DEFINE old == IF id \in DOMAIN g THEN g[id] ELSE <<>>
           new == Put(old, opt, text)
           w == Put(g, id, new)
<1>1. WithOption(g, id, opt, text) = w
  BY DEF WithOption
<1>2. /\ DOMAIN g \in SUBSET Ids
      /\ \A i \in DOMAIN g : /\ DOMAIN g[i] \in SUBSET DOMAIN Kind
                             /\ g[i] = [o \in DOMAIN g[i] |-> g[i][o]]
                             /\ \A o \in DOMAIN g[i] : g[i][o] \in KeptTexts
  BY SectionsOf
<1>3. /\ DOMAIN old \in SUBSET DOMAIN Kind /\ \A o \in DOMAIN old : old[o] \in KeptTexts
  <2>1. CASE id \in DOMAIN g
    BY <1>2, <2>1
  <2>2. CASE id \notin DOMAIN g
    BY <2>2
  <2> QED BY <2>1, <2>2
<1>4. /\ \A o : o \in DOMAIN old <=> id \in DOMAIN g /\ o \in DOMAIN g[id]
      /\ id \in DOMAIN g => old = g[id]
  OBVIOUS
<1> HIDE DEF old
<1>5. /\ DOMAIN new = {opt} \cup DOMAIN old /\ new = [o \in DOMAIN new |-> new[o]]
      /\ new[opt] = text /\ \A o \in DOMAIN old : o # opt => new[o] = old[o]
  BY DEF Put
<1> HIDE DEF new
<1>6. /\ DOMAIN w = {id} \cup DOMAIN g /\ w = [i \in DOMAIN w |-> w[i]]
      /\ w[id] = new /\ \A i \in DOMAIN g : i # id => w[i] = g[i]
  BY DEF Put
<1> HIDE DEF w
<1>7. new \in Options(KeptTexts)
  <2>1. DOMAIN new \in SUBSET DOMAIN Kind /\ \A o \in DOMAIN new : new[o] \in KeptTexts
    BY <1>3, <1>5
  <2> QED BY <1>5, <2>1, OptionsType
<1>8. ASSUME NEW i \in DOMAIN w PROVE w[i] \in Options(KeptTexts)
  <2>1. CASE i = id
    BY <1>6, <1>7, <2>1
  <2>2. CASE i # id
    <3>1. i \in DOMAIN g /\ w[i] = g[i]
      BY <1>6, <2>2
    <3> DEFINE h == g[i]
    <3>2. /\ DOMAIN h \in SUBSET DOMAIN Kind
          /\ h = [o \in DOMAIN h |-> h[o]]
          /\ \A o \in DOMAIN h : h[o] \in KeptTexts
      BY <1>2, <3>1
    <3> HIDE DEF h
    <3>3. h \in Options(KeptTexts)
      BY <3>2, OptionsType
    <3> QED BY <3>1, <3>3 DEF h
  <2> QED BY <2>1, <2>2
<1>9. w \in Sections(KeptTexts)
  BY <1>2, <1>6, <1>8, SectionsType
<1>10. Get(w, id, opt) = ReadAs(Kind[opt], text)
  BY <1>5, <1>6 DEF Get
<1>11. ASSUME NEW i, NEW o, i # id \/ o # opt PROVE Get(w, i, o) = Get(g, i, o)
  <2>1. CASE i # id
    BY <1>6, <2>1 DEF Get
  <2>2. CASE i = id /\ o # opt
    <3>1. i \in DOMAIN w /\ w[i] = new /\ (o \in DOMAIN new <=> o \in DOMAIN old)
      BY <1>5, <1>6, <2>2
    <3>2. CASE o \in DOMAIN old
      <4>1. i \in DOMAIN g /\ o \in DOMAIN g[i] /\ new[o] = g[i][o]
        BY <1>4, <1>5, <2>2, <3>2
      <4> QED BY <3>1, <3>2, <4>1 DEF Get
    <3>3. CASE o \notin DOMAIN old
      <4>1. ~(i \in DOMAIN g /\ o \in DOMAIN g[i])
        BY <1>4, <2>2, <3>3
      <4> QED BY <3>1, <3>3, <4>1 DEF Get
    <3> QED BY <3>2, <3>3
  <2> QED BY <1>11, <2>1, <2>2
<1> QED BY <1>1, <1>9, <1>10, <1>11

\* Removing an option changes no other.
LEMMA WithoutOptionOf ==
    ASSUME NEW g \in Sections(KeptTexts), NEW id, NEW opt
    PROVE  /\ WithoutOption(g, id, opt) \in Sections(KeptTexts)
           /\ Get(WithoutOption(g, id, opt), id, opt) = Unset
           /\ \A i, o : i # id \/ o # opt =>
                Get(WithoutOption(g, id, opt), i, o) = Get(g, i, o)
<1>1. CASE id \notin DOMAIN g
  <2>1. WithoutOption(g, id, opt) = g
    BY <1>1 DEF WithoutOption
  <2> QED BY <1>1, <2>1 DEF Get
<1>2. CASE id \in DOMAIN g
  <2> DEFINE new == [o \in DOMAIN g[id] \ {opt} |-> g[id][o]]
             w == [g EXCEPT ![id] = new]
  <2>1. WithoutOption(g, id, opt) = w
    BY <1>2 DEF WithoutOption
  <2>2. /\ DOMAIN g \in SUBSET Ids /\ g = [i \in DOMAIN g |-> g[i]]
        /\ \A i \in DOMAIN g : /\ DOMAIN g[i] \in SUBSET DOMAIN Kind
                               /\ g[i] = [o \in DOMAIN g[i] |-> g[i][o]]
                               /\ \A o \in DOMAIN g[i] : g[i][o] \in KeptTexts
    BY SectionsOf
  <2>3. /\ DOMAIN new = DOMAIN g[id] \ {opt} /\ new = [o \in DOMAIN new |-> new[o]]
        /\ \A o \in DOMAIN new : new[o] = g[id][o]
    OBVIOUS
  <2> HIDE DEF new
  <2>4. /\ DOMAIN w = DOMAIN g /\ w = [i \in DOMAIN w |-> w[i]]
        /\ w[id] = new /\ \A i \in DOMAIN g : i # id => w[i] = g[i]
    BY <1>2
  <2> HIDE DEF w
  <2>5. new \in Options(KeptTexts)
    <3>1. DOMAIN new \in SUBSET DOMAIN Kind /\ \A o \in DOMAIN new : new[o] \in KeptTexts
      BY <1>2, <2>2, <2>3
    <3> QED BY <2>3, <3>1, OptionsType
  <2>6. ASSUME NEW i \in DOMAIN w PROVE w[i] \in Options(KeptTexts)
    <3>1. CASE i = id
      BY <2>4, <2>5, <3>1
    <3>2. CASE i # id
      <4>1. i \in DOMAIN g /\ w[i] = g[i]
        BY <2>4, <3>2
      <4> DEFINE h == g[i]
      <4>2. /\ DOMAIN h \in SUBSET DOMAIN Kind
            /\ h = [o \in DOMAIN h |-> h[o]]
            /\ \A o \in DOMAIN h : h[o] \in KeptTexts
        BY <2>2, <4>1
      <4> HIDE DEF h
      <4>3. h \in Options(KeptTexts)
        BY <4>2, OptionsType
      <4> QED BY <4>1, <4>3 DEF h
    <3> QED BY <3>1, <3>2
  <2>7. w \in Sections(KeptTexts)
    BY <2>2, <2>4, <2>6, SectionsType
  <2>8. Get(w, id, opt) = Unset
    BY <1>2, <2>3, <2>4 DEF Get
  <2>9. ASSUME NEW i, NEW o, i # id \/ o # opt PROVE Get(w, i, o) = Get(g, i, o)
    <3>1. CASE i # id
      BY <2>4, <3>1 DEF Get
    <3>2. CASE i = id /\ o # opt
      <4>1. i \in DOMAIN w /\ i \in DOMAIN g /\ w[i] = new
            /\ (o \in DOMAIN new <=> o \in DOMAIN g[i])
            /\ (o \in DOMAIN new => new[o] = g[i][o])
        BY <1>2, <2>3, <2>4, <3>2
      <4> QED BY <4>1 DEF Get
    <3> QED BY <2>9, <3>1, <3>2
  <2> QED BY <2>1, <2>7, <2>8, <2>9
<1> QED BY <1>1, <1>2


\* Some order of a finite set is a sequence of it.
LEMMA SetToSeqType ==
    ASSUME NEW S, IsFiniteSet(S)
    PROVE  SetToSeq(S) \in Seq(S)
<1> DEFINE n == Cardinality(S)
<1>1. n \in Nat /\ ExistsBijection(1 .. n, S)
  BY FS_CardinalityType
<1>2. \E f \in [1 .. n -> S] : IsInjective(f)
  BY <1>1 DEF ExistsBijection, Bijection, Injection
<1>3. SetToSeq(S) \in [1 .. n -> S]
  BY <1>2 DEF SetToSeq
<1> HIDE DEF n
<1> QED BY <1>1, <1>3

\* What is loaded: files, and repositories of these files.
LEMMA ConfsOf ==
    ASSUME NEW c \in Confs
    PROVE  /\ c.files \in Seq(KeyFiles) /\ c.repos \in Seq([file : Nat, id : Ids])
           /\ c.ok \in BOOLEAN
           /\ \A r \in 1 .. Len(c.repos) : c.repos[r].file \in 1 .. Len(c.files)
           /\ c = [files |-> c.files, repos |-> c.repos, ok |-> c.ok]
BY DEF Confs

\* A file is added to them with its repositories.
LEMMA AddedOf ==
    ASSUME NEW c \in Confs, NEW p \in Paths, NEW g \in Sections(KeptTexts), NEW ids \in Seq(Ids)
    PROVE  /\ Added(c, p, g, ids, FALSE) \in Confs
           /\ Added(c, p, g, ids, FALSE).files
                = Append(c.files, [path |-> p, groups |-> g, modified |-> FALSE])
<1> DEFINE file == [path |-> p, groups |-> g, modified |-> FALSE]
           n == Len(c.files)
           R == [file : Nat, id : Ids]
           more == [i \in DOMAIN ids |-> [file |-> n + 1, id |-> ids[i]]]
           a == Added(c, p, g, ids, FALSE)
<1>1. file \in KeyFiles
  BY DEF KeyFiles
<1>2. c.files \in Seq(KeyFiles) /\ c.repos \in Seq(R) /\ n \in Nat
      /\ \A r \in 1 .. Len(c.repos) : c.repos[r].file \in 1 .. n
  <2>1. /\ c.files \in Seq(KeyFiles) /\ c.repos \in Seq(R)
        /\ \A r \in 1 .. Len(c.repos) : c.repos[r].file \in 1 .. n
    BY ConfsOf
  <2> QED BY <2>1
<1>3. a = [files |-> Append(c.files, file), repos |-> c.repos \o more, ok |-> TRUE]
  BY DEF Added
<1> HIDE DEF file, n
<1>4. more \in Seq(R) /\ Len(more) \in Nat /\ \A i \in 1 .. Len(more) : more[i].file = n + 1
  <2> DEFINE m == Len(ids)
  <2>1. m \in Nat /\ DOMAIN ids = 1 .. m /\ \A i \in 1 .. m : ids[i] \in Ids
    OBVIOUS
  <2>2. more \in [1 .. m -> R] /\ \A i \in 1 .. m : more[i].file = n + 1
    BY <1>2, <2>1
  <2> HIDE DEF more, R, m
  <2>3. more \in Seq(R) /\ Len(more) = m
    BY <2>1, <2>2
  <2> QED BY <2>1, <2>2, <2>3
<1> HIDE DEF more, a
<1>5. Append(c.files, file) \in Seq(KeyFiles) /\ Len(Append(c.files, file)) = n + 1
  BY <1>1, <1>2 DEF n
<1>6. /\ c.repos \o more \in Seq(R) /\ Len(c.repos \o more) = Len(c.repos) + Len(more)
      /\ \A r \in 1 .. (Len(c.repos) + Len(more)) :
           (c.repos \o more)[r] = IF r <= Len(c.repos) THEN c.repos[r] ELSE more[r - Len(c.repos)]
  <2> HIDE DEF R
  <2> QED BY <1>2, <1>4, ConcatProperties
<1>7. ASSUME NEW r \in 1 .. Len(c.repos \o more)
      PROVE  (c.repos \o more)[r].file \in 1 .. (n + 1)
  <2> DEFINE k == Len(c.repos)
  <2>1. k \in Nat
    BY <1>2
  <2>2. CASE r <= k
    <3>1. r \in 1 .. k /\ (c.repos \o more)[r] = c.repos[r]
      BY <1>4, <1>6, <2>1, <2>2
    <3>2. c.repos[r].file \in 1 .. n
      BY <1>2, <3>1
    <3> QED BY <1>2, <3>1, <3>2
  <2>3. CASE ~(r <= k)
    <3>1. r - k \in 1 .. Len(more) /\ (c.repos \o more)[r] = more[r - k]
      BY <1>4, <1>6, <2>1, <2>3
    <3>2. n + 1 \in 1 .. (n + 1)
      BY <1>2
    <3> QED BY <1>4, <3>1, <3>2
  <2> QED BY <2>2, <2>3
<1>8. a \in Confs
  BY <1>3, <1>5, <1>6, <1>7 DEF Confs
<1>9. a.files = Append(c.files, file)
  BY <1>3
<1> QED BY <1>8, <1>9 DEF a, file

-------------------------------------------------------------------------------
(* Loading a directory.                                                    *)

\* What loading adds to conf: files that are not modified, as they are on the disk.
LoadedFrom(conf, c) ==
    /\ Len(conf.files) <= Len(c.files)
    /\ \A i \in 1 .. Len(c.files) :
         IF i <= Len(conf.files) THEN c.files[i] = conf.files[i]
         ELSE /\ disk[c.files[i].path].state = "good" /\ ~c.files[i].modified
              /\ c.files[i].groups = Loaded(disk[c.files[i].path].groups)
ConfsFrom(conf) == {c \in Confs : LoadedFrom(conf, c)}

\* lr_yum_repoconfs_parse() adds the file as it is on the disk, or nothing.
LEMMA ParsedIntoOf ==
    ASSUME disk \in Disks, NEW conf \in Confs, NEW c \in ConfsFrom(conf), NEW p \in Paths
    PROVE  ParsedInto(c, p) \in ConfsFrom(conf)
<1>1. c \in Confs /\ LoadedFrom(conf, c)
  BY DEF ConfsFrom
<1>2. CASE disk[p].state # "good"
  <2> DEFINE d == [c EXCEPT !.ok = FALSE]
  <2>1. ParsedInto(c, p) = d
    BY <1>2 DEF ParsedInto
  <2>2. d \in Confs /\ d.files = c.files
    BY <1>1 DEF Confs
  <2> HIDE DEF d
  <2>3. LoadedFrom(conf, d)
    BY <1>1, <2>2 DEF LoadedFrom
  <2> QED BY <2>1, <2>2, <2>3 DEF ConfsFrom
<1>3. CASE disk[p].state = "good"
  <2> DEFINE g == Loaded(disk[p].groups)
             ids == SetToSeq(DOMAIN disk[p].groups)
             a == Added(c, p, g, ids, FALSE)
             file == [path |-> p, groups |-> g, modified |-> FALSE]
             n == Len(c.files)
  <2>1. ParsedInto(c, p) = a
    BY <1>3 DEF ParsedInto
  <2>2. disk[p].groups \in Sections(Tokens)
    BY DEF Disks
  <2>3. g \in Sections(KeptTexts)
    BY <2>2, LoadedType
  <2>4. ids \in Seq(Ids)
    <3> DEFINE S == DOMAIN disk[p].groups
    <3>1. S \in SUBSET Ids
      BY <2>2, SectionsOf
    <3> HIDE DEF S
    <3>2. IsFiniteSet(S)
      BY <3>1, ConfAssumption, FS_Subset
    <3>3. SetToSeq(S) \in Seq(S)
      BY <3>2, SetToSeqType
    <3>4. SetToSeq(S) \in Seq(Ids)
      BY <3>1, <3>3
    <3> QED BY <3>4 DEF S
  <2> HIDE DEF g, ids
  <2>5. a \in Confs /\ a.files = Append(c.files, file)
    BY <1>1, <2>3, <2>4, AddedOf
  <2>6. c.files \in Seq(KeyFiles) /\ n \in Nat /\ Len(conf.files) \in Nat
    BY <1>1, ConfsOf
  <2> HIDE DEF a
  <2>7. /\ Len(a.files) = n + 1 /\ a.files[n + 1] = file
        /\ \A i \in 1 .. n : a.files[i] = c.files[i]
    <3>1. file \in KeyFiles
      BY <2>3 DEF KeyFiles
    <3> HIDE DEF file
    <3> QED BY <2>5, <2>6, <3>1
  <2>8. LoadedFrom(conf, a)
    <3>1. Len(conf.files) <= n
      BY <1>1 DEF LoadedFrom
    <3>2. ASSUME NEW i \in 1 .. (n + 1)
          PROVE  IF i <= Len(conf.files) THEN a.files[i] = conf.files[i]
                 ELSE /\ disk[a.files[i].path].state = "good" /\ ~a.files[i].modified
                      /\ a.files[i].groups = Loaded(disk[a.files[i].path].groups)
      <4>1. CASE i \in 1 .. n
        <5> HIDE DEF n, file
        <5> QED BY <1>1, <2>7, <4>1 DEF LoadedFrom, n
      <4>2. CASE i = n + 1
        <5>1. ~(i <= Len(conf.files)) /\ a.files[i] = file
          BY <2>6, <2>7, <3>1, <4>2
        <5>2. file.path = p /\ file.groups = g /\ file.modified = FALSE
          OBVIOUS
        <5> HIDE DEF file
        <5> QED BY <1>3, <5>1, <5>2 DEF g
      <4>3. i \in 1 .. n \/ i = n + 1
        BY <2>6
      <4> QED BY <4>1, <4>2, <4>3
    <3>3. Len(conf.files) <= Len(a.files)
      BY <2>6, <2>7, <3>1
    <3> HIDE DEF n, file
    <3> QED BY <2>7, <3>2, <3>3 DEF LoadedFrom
  <2> QED BY <2>1, <2>5, <2>8 DEF ConfsFrom
<1> QED BY <1>2, <1>3

LoadStep(c, p) == IF c.ok THEN ParsedInto(c, p) ELSE c
LoadNext(V) == [x \in V \X Paths |-> LoadStep(x[1], x[2])]

\* lr_yum_repoconfs_load_dir() adds files as they are on the disk.
LEMMA LoadedIntoOf ==
    ASSUME disk \in Disks, NEW conf \in Confs, NEW order \in Seq(Paths)
    PROVE  LoadedInto(conf, order) \in ConfsFrom(conf)
<1> DEFINE n == Len(order)
           V == ConfsFrom(conf)
           next == LoadNext(V)
           Step(g) == [s \in SUBSET DOMAIN order |-> IF s = {} THEN conf
                         ELSE LoadStep(g[s \ {Max(s)}], order[Max(s)])]
<1>1. LoadedInto(conf, order) = (CHOOSE g : g = Step(g))[DOMAIN order]
  BY DEF LoadedInto, FoldLeft, MapThenFoldSet, LoadStep
<1>2. DOMAIN order = 1 .. n /\ n \in Nat /\ order \in [1 .. n -> Paths]
  OBVIOUS
<1>3. conf \in V
  BY ConfsOf DEF ConfsFrom, LoadedFrom
<1>4. next \in [V \X Paths -> V] /\ \A c \in V, p \in Paths : next[<<c, p>>] = LoadStep(c, p)
  <2>1. \A c \in V, p \in Paths : LoadStep(c, p) \in V
    BY ParsedIntoOf DEF LoadStep
  <2> HIDE DEF V
  <2> QED BY <2>1 DEF LoadNext
<1> HIDE DEF n, V, next
<1>5. ASSUME NEW s \in SUBSET (1 .. n), s # {}, NEW c \in V
      PROVE  next[<<c, order[Max(s)]>>] = LoadStep(c, order[Max(s)])
  <2>1. Max(s) \in 1 .. n
    BY <1>2, <1>5, MinMaxOf
  <2> QED BY <1>2, <1>4, <2>1
<1>6. PICK h \in [SUBSET (1 .. n) -> V] : Folding(h, V, n, conf, next, order)
  BY <1>2, <1>3, <1>4, FoldExists
<1>7. h = Step(h)
  <2>1. ASSUME NEW s \in SUBSET (1 .. n), s # {}
        PROVE  h[s] = LoadStep(h[s \ {Max(s)}], order[Max(s)])
    BY <1>5, <1>6, <2>1 DEF Folding
  <2> QED BY <1>2, <1>6, <2>1 DEF Folding
<1> DEFINE g == CHOOSE g : g = Step(g)
<1>8. g = Step(g)
  <2> HIDE DEF Step
  <2> QED BY <1>7
<1>9. g[1 .. n] = LoadedInto(conf, order)
  BY <1>1, <1>2
<1> HIDE DEF g
<1>10. Folding(g, V, n, conf, next, order)
  BY <1>2, <1>5, <1>8 DEF Folding
<1>11. PICK f \in [0 .. n -> V] : f[n] = g[1 .. n] /\ Traced(f, n, conf, next, order)
  <2> HIDE DEF Step
  <2> QED BY <1>2, <1>3, <1>4, <1>10, FoldTrace
<1>12. f[n] \in V
  BY <1>2, <1>11, n \in 0 .. n
<1> QED BY <1>9, <1>11, <1>12 DEF V


-------------------------------------------------------------------------------
(* Saving.                                                                 *)

\* What saving has done: files that were modified may not be any more; a path is as it was, or
\* as one of its files is, and this one when it is the only one.
Alone(i) == \A j \in 1 .. Len(files) : files[j].path = files[i].path => j = i
SavedFrom(s) ==
    /\ Len(s.files) = Len(files)
    /\ \A i \in 1 .. Len(files) :
         /\ s.files[i].path = files[i].path /\ s.files[i].groups = files[i].groups
         /\ Alone(i) =>
              \/ /\ s.files[i].modified = files[i].modified
                 /\ s.disk[files[i].path] = disk[files[i].path]
              \/ ~s.files[i].modified /\ s.disk[files[i].path] = Good(files[i].groups)
    /\ \A p \in Paths : (\A i \in 1 .. Len(files) : files[i].path # p) => s.disk[p] = disk[p]
Saves == {s \in [disk : Disks, files : Seq(KeyFiles), ok : BOOLEAN] : SavedFrom(s)}

\* A file of a list of files.
LEMMA FileOf ==
    ASSUME NEW fs \in Seq(KeyFiles), NEW i \in 1 .. Len(fs)
    PROVE  /\ fs[i] \in KeyFiles
           /\ fs[i].path \in Paths /\ fs[i].groups \in Sections(KeptTexts) /\ fs[i].modified \in BOOLEAN
<1>1. fs[i] \in KeyFiles
  OBVIOUS
<1> QED BY <1>1 DEF KeyFiles

\* repofile_save_keyfile() writes a file that was modified, or leaves it modified.
LEMMA StoredOf ==
    ASSUME ConfTypeOK, NEW s \in Saves, NEW i \in 1 .. Len(files), NEW unwritable
    PROVE  Stored(s, i, unwritable) \in Saves
<1> DEFINE n == Len(files)
           p == s.files[i].path
           g == s.files[i].groups
<1>1. /\ s.disk \in Disks /\ s.files \in Seq(KeyFiles) /\ s.ok \in BOOLEAN
      /\ s = [disk |-> s.disk, files |-> s.files, ok |-> s.ok]
      /\ SavedFrom(s)
  BY DEF Saves
<1>2. Len(s.files) = n /\ p = files[i].path /\ g = files[i].groups
  BY <1>1 DEF SavedFrom
<1>3. p \in Paths /\ g \in Sections(KeptTexts) /\ s.files[i] \in KeyFiles
  BY <1>1, <1>2, FileOf
<1>4. CASE ~s.files[i].modified
  BY <1>4 DEF Stored
<1>5. CASE s.files[i].modified /\ p \in unwritable
  <2> DEFINE t == [s EXCEPT !.ok = FALSE]
  <2>1. Stored(s, i, unwritable) = t
    BY <1>5 DEF Stored
  <2>2. t \in [disk : Disks, files : Seq(KeyFiles), ok : BOOLEAN]
        /\ t.files = s.files /\ t.disk = s.disk
    BY <1>1
  <2> HIDE DEF t
  <2>3. SavedFrom(t)
    BY <1>1, <2>2 DEF SavedFrom
  <2> QED BY <2>1, <2>2, <2>3 DEF Saves
<1>6. CASE s.files[i].modified /\ p \notin unwritable
  <2> DEFINE file == [s.files[i] EXCEPT !.modified = FALSE]
             d == [s.disk EXCEPT ![p] = Good(g)]
             f == [s.files EXCEPT ![i] = file]
             t == [disk |-> d, files |-> f, ok |-> s.ok]
  <2>1. Stored(s, i, unwritable) = t
    <3>1. Stored(s, i, unwritable) = [s EXCEPT !.disk[p] = Good(g), !.files[i].modified = FALSE]
      BY <1>6 DEF Stored
    <3> DEFINE a == s.disk
               b == s.files
               o == s.ok
    <3>2. s = [disk |-> a, files |-> b, ok |-> o]
      BY <1>1
    <3> QED BY <3>1, <3>2
  <2>2. file \in KeyFiles /\ file.path = p /\ file.groups = g /\ file.modified = FALSE
    BY <1>3 DEF KeyFiles
  <2> HIDE DEF file
  <2>3. f \in Seq(KeyFiles) /\ Len(f) = n /\ f[i] = file /\ \A j \in 1 .. n : j # i => f[j] = s.files[j]
    <3> DEFINE b == s.files
    <3>1. b \in Seq(KeyFiles) /\ Len(b) = n /\ n \in Nat /\ i \in 1 .. n
      BY <1>1, <1>2
    <3> HIDE DEF b, n
    <3>2. b \in [1 .. n -> KeyFiles]
      BY <3>1, LenProperties
    <3> DEFINE e == [b EXCEPT ![i] = file]
    <3>3. e \in [1 .. n -> KeyFiles] /\ e[i] = file /\ \A j \in 1 .. n : j # i => e[j] = b[j]
      BY <2>2, <3>1, <3>2
    <3> HIDE DEF e
    <3>4. e \in Seq(KeyFiles) /\ Len(e) = n
      BY <3>1, <3>3
    <3> QED BY <3>3, <3>4 DEF e, b
  <2>4. Good(g) \in [state : {"none", "bad", "good"}, groups : Sections(Tokens)]
    BY <1>3, SectionsOfKept DEF Good
  <2>5. d \in Disks /\ d[p] = Good(g) /\ \A q \in Paths : q # p => d[q] = s.disk[q]
    <3> HIDE DEF p, g
    <3> QED BY <1>1, <1>3, <2>4 DEF Disks
  <2> HIDE DEF d, f
  <2>6. t \in [disk : Disks, files : Seq(KeyFiles), ok : BOOLEAN]
    BY <1>1, <2>3, <2>5
  <2>7. ASSUME NEW j \in 1 .. n
        PROVE  /\ f[j].path = files[j].path /\ f[j].groups = files[j].groups
               /\ Alone(j) =>
                    \/ f[j].modified = files[j].modified /\ d[files[j].path] = disk[files[j].path]
                    \/ ~f[j].modified /\ d[files[j].path] = Good(files[j].groups)
    <3>1. CASE j = i
      BY <1>2, <2>2, <2>3, <2>5, <3>1
    <3>2. CASE j # i
      <4>1. f[j] = s.files[j]
        BY <2>3, <3>2
      <4>2. Alone(j) => files[j].path # p
        BY <1>2, <3>2 DEF Alone
      <4>3. files[j].path \in Paths
        <5> DEFINE c == files
        <5>1. c \in Seq(KeyFiles) /\ j \in 1 .. Len(c)
          BY ConfsOf DEF ConfTypeOK, Conf
        <5> HIDE DEF c
        <5>2. c[j].path \in Paths
          BY <5>1, FileOf
        <5> QED BY <5>2 DEF c
      <4>4. Alone(j) => d[files[j].path] = s.disk[files[j].path]
        BY <2>5, <4>2, <4>3
      <4> QED BY <1>1, <4>1, <4>4 DEF SavedFrom
    <3> QED BY <3>1, <3>2
  <2>8. ASSUME NEW q \in Paths, \A j \in 1 .. n : files[j].path # q PROVE d[q] = disk[q]
    <3>1. q # p
      BY <1>2, <2>8
    <3>2. s.disk[q] = disk[q]
      BY <1>1, <2>8 DEF SavedFrom
    <3> QED BY <2>5, <3>1, <3>2
  <2>9. SavedFrom(t)
    BY <2>3, <2>7, <2>8 DEF SavedFrom
  <2> QED BY <2>1, <2>6, <2>9 DEF Saves
<1> QED BY <1>4, <1>5, <1>6

\* One step of Saved, and it as a function for the fold.
SaveStep(s, r, unwritable) == IF s.ok THEN Stored(s, r.file, unwritable) ELSE s
SaveNext(R, unwritable) == [x \in Saves \X R |-> SaveStep(x[1], x[2], unwritable)]

\* So does saving file after file, up to the first that cannot be written.
LEMMA SavedOf ==
    ASSUME ConfTypeOK, NEW R, \A r \in R : r.file \in 1 .. Len(files),
           NEW list \in Seq(R), NEW unwritable
    PROVE  Saved(list, unwritable) \in Saves
<1> DEFINE n == Len(list)
           base == [disk |-> disk, files |-> files, ok |-> TRUE]
           next == SaveNext(R, unwritable)
           Step(g) == [s \in SUBSET DOMAIN list |-> IF s = {} THEN base
                         ELSE SaveStep(g[s \ {Max(s)}], list[Max(s)], unwritable)]
<1>1. Saved(list, unwritable) = (CHOOSE g : g = Step(g))[DOMAIN list]
  BY DEF Saved, FoldLeft, MapThenFoldSet, SaveStep
<1>2. DOMAIN list = 1 .. n /\ n \in Nat /\ list \in [1 .. n -> R]
  OBVIOUS
<1>3. base \in Saves
  <2>1. disk \in Disks /\ files \in Seq(KeyFiles)
    BY ConfsOf DEF ConfTypeOK, Conf
  <2>2. SavedFrom(base)
    BY DEF SavedFrom
  <2> QED BY <2>1, <2>2 DEF Saves
<1>4. next \in [Saves \X R -> Saves] /\ \A s \in Saves, r \in R : next[<<s, r>>] = SaveStep(s, r, unwritable)
  <2>1. \A s \in Saves, r \in R : SaveStep(s, r, unwritable) \in Saves
    BY StoredOf DEF SaveStep
  <2> QED BY <2>1 DEF SaveNext
<1> HIDE DEF n, base, next
<1>5. ASSUME NEW s \in SUBSET (1 .. n), s # {}, NEW c \in Saves
      PROVE  next[<<c, list[Max(s)]>>] = SaveStep(c, list[Max(s)], unwritable)
  <2>1. Max(s) \in 1 .. n
    BY <1>2, <1>5, MinMaxOf
  <2> QED BY <1>2, <1>4, <2>1
<1>6. PICK h \in [SUBSET (1 .. n) -> Saves] : Folding(h, Saves, n, base, next, list)
  BY <1>2, <1>3, <1>4, FoldExists
<1>7. h = Step(h)
  <2>1. ASSUME NEW s \in SUBSET (1 .. n), s # {}
        PROVE  h[s] = SaveStep(h[s \ {Max(s)}], list[Max(s)], unwritable)
    BY <1>5, <1>6, <2>1 DEF Folding
  <2> QED BY <1>2, <1>6, <2>1 DEF Folding
<1> DEFINE g == CHOOSE g : g = Step(g)
<1>8. g = Step(g)
  <2> HIDE DEF Step
  <2> QED BY <1>7
<1>9. g[1 .. n] = Saved(list, unwritable)
  BY <1>1, <1>2
<1> HIDE DEF g
<1>10. Folding(g, Saves, n, base, next, list)
  BY <1>2, <1>5, <1>8 DEF Folding
<1>11. PICK f \in [0 .. n -> Saves] : f[n] = g[1 .. n] /\ Traced(f, n, base, next, list)
  <2> HIDE DEF Step
  <2> QED BY <1>2, <1>3, <1>4, <1>10, FoldTrace
<1>12. f[n] \in Saves
  BY <1>2, <1>11, n \in 0 .. n
<1> QED BY <1>9, <1>11, <1>12


-------------------------------------------------------------------------------
(* Every step keeps the invariant.                                         *)

\* The loaded files of a path.
ObjectsIn(fs, p) == {i \in 1 .. Len(fs) : fs[i].path = p}

\* What SetIsRead and LoadedOnce say of what was given for k.
Shows(d, fs, k, v) ==
    LET objects == ObjectsIn(fs, k[1])
    IN  /\ \A i, j \in objects : i = j
        /\ \A i \in objects : Same(Get(fs[i].groups, k[2], k[3]), v)
        /\ (\A i \in objects : ~fs[i].modified) =>
              d[k[1]].state = "good" /\ Same(Get(Loaded(d[k[1]].groups), k[2], k[3]), v)

\* What the types say of the variables.
LEMMA ConfState ==
    ASSUME ConfTypeOK
    PROVE  /\ disk \in Disks /\ files \in Seq(KeyFiles) /\ repos \in Seq([file : Nat, id : Ids])
           /\ Conf \in Confs /\ DOMAIN given \subseteq Paths \X Ids \X DOMAIN Kind
           /\ Len(files) \in Nat /\ DOMAIN files = 1 .. Len(files)
           /\ DOMAIN repos = 1 .. Len(repos)
           /\ \A r \in 1 .. Len(repos) :
                repos[r].file \in 1 .. Len(files) /\ repos[r].id \in Ids
<1>1. disk \in Disks /\ Conf \in Confs /\ DOMAIN given \subseteq Paths \X Ids \X DOMAIN Kind
  BY DEF ConfTypeOK
<1>2. /\ files \in Seq(KeyFiles) /\ repos \in Seq([file : Nat, id : Ids])
      /\ \A r \in 1 .. Len(repos) : repos[r].file \in 1 .. Len(files)
  BY <1>1, ConfsOf DEF Conf
<1>3. ASSUME NEW r \in 1 .. Len(repos) PROVE repos[r].id \in Ids
  <2> DEFINE R == [file : Nat, id : Ids]
             rs == repos
  <2>1. rs \in Seq(R) /\ r \in 1 .. Len(rs)
    BY <1>2
  <2> HIDE DEF R, rs
  <2>2. rs[r] \in R
    BY <2>1
  <2> QED BY <2>2 DEF R, rs
<1> QED BY <1>1, <1>2, <1>3

\* And what of the variables they need.
LEMMA ConfStateIs ==
    ASSUME files \in Seq(KeyFiles), repos \in Seq([file : Nat, id : Ids]),
           \A r \in 1 .. Len(repos) : repos[r].file \in 1 .. Len(files)
    PROVE  Conf \in Confs
BY DEF Confs, Conf

\* The invariant, one by one for what was given.
LEMMA ConfInvIs ==
    ASSUME ConfTypeOK
    PROVE  LoadedOnce /\ SetIsRead <=> \A k \in DOMAIN given : Shows(disk, files, k, given[k])
<1>1. \A p : Objects(p) = ObjectsIn(files, p)
  BY ConfState DEF Objects, ObjectsIn
<1> QED BY <1>1 DEF LoadedOnce, SetIsRead, Shows

\* It holds after a step when it does for what is given then.
LEMMA ConfInvThen ==
    ASSUME ConfTypeOK', \A k \in DOMAIN given' : Shows(disk', files', k, given'[k])
    PROVE  ConfInv'
<1>1. DOMAIN files' = 1 .. Len(files')
  <2>1. Conf' = [files |-> files', repos |-> repos', ok |-> TRUE] /\ Conf' \in Confs
    BY DEF ConfTypeOK, Conf
  <2>2. Conf'.files \in Seq(KeyFiles)
    BY <2>1, ConfsOf
  <2>3. files' \in Seq(KeyFiles)
    BY <2>1, <2>2
  <2> QED BY <2>3
<1>2. \A p : Objects(p)' = ObjectsIn(files', p)
  BY <1>1 DEF Objects, ObjectsIn
<1>3. LoadedOnce'
  BY <1>2 DEF LoadedOnce, Shows
<1>4. SetIsRead'
  BY <1>2 DEF SetIsRead, Shows
<1> QED BY <1>3, <1>4 DEF ConfInv

\* Of at most one element, any two are the same.
LEMMA AtMostOne ==
    ASSUME NEW S, IsFiniteSet(S), Cardinality(S) <= 1, NEW i \in S, NEW j \in S
    PROVE  i = j
<1>1. IsFiniteSet(S \ {i}) /\ Cardinality(S \ {i}) = Cardinality(S) - 1
  BY FS_RemoveElement
<1>2. Cardinality(S) \in Nat /\ Cardinality(S \ {i}) \in Nat
  BY <1>1, FS_CardinalityType
<1>3. Cardinality(S \ {i}) = 0
  BY <1>1, <1>2
<1>4. S \ {i} = {}
  BY <1>1, <1>3, FS_EmptySet
<1> QED BY <1>4

\* Nothing is loaded, nothing was given.
LEMMA ConfInitInv ==
    ASSUME ConfInit
    PROVE  ConfInv
<1>1. NoFile \in [state : {"none", "bad", "good"}, groups : Sections(Tokens)]
  BY NoSections DEF NoFile
<1>2. disk \in Disks
  BY <1>1 DEF ConfInit, Disks
<1>3. files = <<>> /\ repos = <<>> /\ DOMAIN given = {}
  BY DEF ConfInit
<1>4. Conf \in Confs
  <2> DEFINE R == [file : Nat, id : Ids]
  <2>1. files \in Seq(KeyFiles) /\ repos \in Seq(R) /\ Len(repos) = 0
    <3> HIDE DEF R
    <3> QED BY <1>3
  <2>2. \A r \in 1 .. Len(repos) : repos[r].file \in 1 .. Len(files)
    BY <2>1
  <2> QED BY <2>1, <2>2, ConfStateIs
<1> QED BY <1>2, <1>3, <1>4 DEF ConfInv, ConfTypeOK, LoadedOnce, SetIsRead

\* Files that are loaded hold what was given, for it is on the disk.
LEMMA LoadShows ==
    ASSUME ConfTypeOK, NEW conf \in ConfsFrom(Conf), NEW k, NEW v, Shows(disk, files, k, v),
           \A i, j \in ObjectsIn(conf.files, k[1]) : i = j
    PROVE  Shows(disk, conf.files, k, v)
<1> DEFINE n == Len(files)
           fs == conf.files
           p == k[1]
<1>1. /\ fs \in Seq(KeyFiles) /\ Len(fs) \in Nat /\ n \in Nat /\ n <= Len(fs)
      /\ \A i \in 1 .. Len(fs) :
           IF i <= n THEN fs[i] = files[i]
           ELSE /\ disk[fs[i].path].state = "good" /\ ~fs[i].modified
                /\ fs[i].groups = Loaded(disk[fs[i].path].groups)
  <2>1. conf \in Confs /\ LoadedFrom(Conf, conf) /\ Conf.files = files
    BY DEF ConfsFrom, Conf
  <2>2. fs \in Seq(KeyFiles)
    BY <2>1, ConfsOf
  <2> QED BY <2>1, <2>2, ConfState DEF LoadedFrom
<1> HIDE DEF fs, n
<1>2. \A i \in ObjectsIn(files, p) : i \in ObjectsIn(fs, p) /\ fs[i] = files[i]
  BY <1>1 DEF ObjectsIn, n
<1>3. \A i \in ObjectsIn(fs, p) : i \in ObjectsIn(files, p) \/ i \in (n + 1) .. Len(fs)
  BY <1>1 DEF ObjectsIn, n
<1>4. ASSUME NEW i \in ObjectsIn(fs, p) PROVE Same(Get(fs[i].groups, k[2], k[3]), v)
  <2>1. CASE i \in ObjectsIn(files, p)
    BY <1>2, <2>1 DEF Shows
  <2>2. CASE i \in (n + 1) .. Len(fs)
    <3>1. i \notin ObjectsIn(files, p)
      BY <1>1, <2>2 DEF ObjectsIn, n
    <3>2. ObjectsIn(files, p) = {}
      BY <1>2, <1>4, <3>1 DEF fs
    <3>3. Same(Get(Loaded(disk[p].groups), k[2], k[3]), v)
      BY <3>2 DEF Shows
    <3>4. fs[i].path = p /\ fs[i].groups = Loaded(disk[p].groups)
      BY <1>1, <2>2 DEF ObjectsIn
    <3> QED BY <3>3, <3>4
  <2> QED BY <1>3, <1>4, <2>1, <2>2
<1>5. ASSUME \A i \in ObjectsIn(fs, p) : ~fs[i].modified
      PROVE  disk[p].state = "good" /\ Same(Get(Loaded(disk[p].groups), k[2], k[3]), v)
  BY <1>2, <1>5 DEF Shows
<1> QED BY <1>4, <1>5 DEF Shows, fs

\* Loading keeps the invariant: a path that is loaded twice is not given any more.
LEMMA LoadKeeps ==
    ASSUME ConfInv, NEW conf \in ConfsFrom(Conf), Load(conf)
    PROVE  ConfInv'
<1> DEFINE fs == conf.files
           Of(q) == {i \in DOMAIN fs : fs[i].path = q}
<1>1. ConfTypeOK /\ conf \in Confs /\ \A k \in DOMAIN given : Shows(disk, files, k, given[k])
  BY ConfInvIs DEF ConfInv, ConfsFrom
<1>2. /\ files' = fs /\ repos' = conf.repos /\ disk' = disk
      /\ given' = [k \in {k \in DOMAIN given : Cardinality(Of(k[1])) <= 1} |-> given[k]]
  BY DEF Load
<1>3. /\ fs \in Seq(KeyFiles) /\ conf.repos \in Seq([file : Nat, id : Ids])
      /\ \A r \in 1 .. Len(conf.repos) : conf.repos[r].file \in 1 .. Len(fs)
  BY <1>1, ConfsOf
<1>4. ConfTypeOK'
  <2>1. Conf' = [files |-> fs, repos |-> conf.repos, ok |-> TRUE]
    BY <1>2 DEF Conf
  <2>2. [files |-> fs, repos |-> conf.repos, ok |-> TRUE] \in Confs
    BY <1>3 DEF Confs
  <2>3. DOMAIN given' \subseteq DOMAIN given
    BY <1>2
  <2> QED BY <1>1, <1>2, <2>1, <2>2, <2>3, ConfState DEF ConfTypeOK
<1>5. ASSUME NEW k \in DOMAIN given' PROVE Shows(disk', files', k, given'[k])
  <2>1. k \in DOMAIN given /\ given'[k] = given[k] /\ Cardinality(Of(k[1])) <= 1
    BY <1>2
  <2>2. Len(fs) \in Nat /\ DOMAIN fs = 1 .. Len(fs)
    BY <1>3
  <2>3. Of(k[1]) = ObjectsIn(fs, k[1]) /\ Of(k[1]) \in SUBSET (1 .. Len(fs))
    BY <2>2 DEF ObjectsIn
  <2> HIDE DEF Of, fs
  <2>4. IsFiniteSet(Of(k[1]))
    <3> DEFINE m == Len(fs)
               S == 1 .. m
    <3>1. IsFiniteSet(S)
      BY <2>2, FS_Interval
    <3> HIDE DEF m, S
    <3> QED BY <2>3, <3>1, FS_Subset DEF S, m
  <2>5. \A i, j \in Of(k[1]) : i = j
    BY <2>1, <2>4, AtMostOne
  <2>6. Shows(disk, fs, k, given[k])
    BY <1>1, <2>1, <2>3, <2>5, LoadShows DEF fs
  <2> QED BY <1>2, <2>1, <2>6
<1> QED BY <1>4, <1>5, ConfInvThen

\* lr_yum_repoconfs_parse() keeps it.
LEMMA ParseKeeps ==
    ASSUME ConfInv, Parse
    PROVE  ConfInv'
<1>1. PICK p \in Paths : Load(ParsedInto(Conf, p))
  BY DEF Parse
<1>2. disk \in Disks /\ Conf \in Confs
  BY DEF ConfInv, ConfTypeOK
<1>3. Conf \in ConfsFrom(Conf)
  BY <1>2, ConfsOf DEF ConfsFrom, LoadedFrom
<1> QED BY <1>1, <1>2, <1>3, ParsedIntoOf, LoadKeeps

\* lr_yum_repoconfs_load_dir() keeps it, whichever file ends it.
LEMMA LoadDirKeeps ==
    ASSUME ConfInv, LoadDir
    PROVE  ConfInv'
<1> DEFINE S == {p \in Paths : disk[p].state # "none"}
<1>1. PICK order \in SetToSeqs(S) : Load(LoadedInto(Conf, order))
  BY DEF LoadDir
<1>2. disk \in Disks /\ Conf \in Confs
  BY DEF ConfInv, ConfTypeOK
<1>3. order \in Seq(Paths)
  <2>1. S \in SUBSET Paths
    OBVIOUS
  <2> HIDE DEF S
  <2> DEFINE n == Cardinality(S)
  <2>2. n \in Nat
    BY <2>1, ConfAssumption, FS_Subset, FS_CardinalityType
  <2>3. order \in [1 .. n -> S]
    BY <1>1 DEF SetToSeqs
  <2> HIDE DEF n
  <2>4. order \in [1 .. n -> Paths]
    BY <2>1, <2>3
  <2> QED BY <2>2, <2>4
<1> QED BY <1>1, <1>2, <1>3, LoadedIntoOf, LoadKeeps


\* What was given is still there when the files of its path and the disk are the same.
LEMMA ShowsSame ==
    ASSUME NEW d, NEW e, NEW fs, NEW gs, NEW k, NEW v, Shows(d, fs, k, v), e[k[1]] = d[k[1]],
           ObjectsIn(gs, k[1]) = ObjectsIn(fs, k[1]),
           \A i \in ObjectsIn(fs, k[1]) :
              gs[i].groups = fs[i].groups /\ gs[i].modified = fs[i].modified
    PROVE  Shows(e, gs, k, v)
BY DEF Shows

\* lr_yum_repoconfs_add_empty_conf() keeps it: what was given for the path is forgotten.
LEMMA AddEmptyConfKeeps ==
    ASSUME ConfInv, AddEmptyConf
    PROVE  ConfInv'
<1>1. /\ ConfTypeOK /\ \A k \in DOMAIN given : Shows(disk, files, k, given[k])
      /\ Conf \in Confs /\ files \in Seq(KeyFiles) /\ disk \in Disks /\ Len(files) \in Nat
      /\ DOMAIN given \subseteq Paths \X Ids \X DOMAIN Kind
  BY ConfInvIs, ConfState DEF ConfInv
<1> DEFINE ids == SetToSeq(Ids)
<1>2. PICK p \in Paths :
         LET conf == Added(Conf, p, <<>>, ids, FALSE)
         IN  /\ files' = conf.files /\ repos' = conf.repos /\ given' = Without(p) /\ disk' = disk
  BY DEF AddEmptyConf
<1>3. ids \in Seq(Ids)
  BY SetToSeqType, ConfAssumption
<1> DEFINE g == <<>>
           file == [path |-> p, groups |-> g, modified |-> FALSE]
           conf == Added(Conf, p, g, ids, FALSE)
           n == Len(files)
<1>4. g \in Sections(KeptTexts)
  BY NoSections
<1>5. files' = conf.files /\ repos' = conf.repos /\ given' = Without(p) /\ disk' = disk
  BY <1>2
<1> HIDE DEF g, ids
<1>6. conf \in Confs /\ conf.files = Append(files, file)
  BY <1>1, <1>3, <1>4, AddedOf DEF Conf
<1> HIDE DEF conf
<1>7. ConfTypeOK'
  <2>1. Conf' = [files |-> conf.files, repos |-> conf.repos, ok |-> TRUE]
    BY <1>5 DEF Conf
  <2>2. [files |-> conf.files, repos |-> conf.repos, ok |-> TRUE] \in Confs
    <3>1. /\ conf.files \in Seq(KeyFiles) /\ conf.repos \in Seq([file : Nat, id : Ids])
          /\ \A r \in 1 .. Len(conf.repos) : conf.repos[r].file \in 1 .. Len(conf.files)
      BY <1>6, ConfsOf
    <3> QED BY <3>1 DEF Confs
  <2>3. DOMAIN given' \subseteq DOMAIN given
    BY <1>5 DEF Without
  <2> QED BY <1>1, <1>5, <2>1, <2>2, <2>3 DEF ConfTypeOK
<1>8. ASSUME NEW k \in DOMAIN given' PROVE Shows(disk', files', k, given'[k])
  <2>1. k \in DOMAIN given /\ k[1] # p /\ given'[k] = given[k]
    BY <1>5 DEF Without
  <2>2. file \in KeyFiles /\ file.path = p
    BY <1>4 DEF KeyFiles
  <2> HIDE DEF file
  <2>3. /\ Len(files') = n + 1 /\ files'[n + 1] = file
        /\ \A i \in 1 .. n : files'[i] = files[i]
    BY <1>1, <1>5, <1>6, <2>2
  <2> HIDE DEF n
  <2>4. ObjectsIn(files', k[1]) = ObjectsIn(files, k[1])
    <3>1. \A i : i \in 1 .. (n + 1) <=> i \in 1 .. n \/ i = n + 1
      BY <1>1 DEF n
    <3> QED BY <2>1, <2>2, <2>3, <3>1 DEF ObjectsIn, n
  <2>5. \A i \in ObjectsIn(files, k[1]) : files'[i] = files[i]
    BY <2>3 DEF ObjectsIn, n
  <2>6. Shows(disk, files, k, given[k]) /\ disk'[k[1]] = disk[k[1]]
    BY <1>1, <1>5, <2>1
  <2>7. Shows(disk', files', k, given[k])
    BY <2>4, <2>5, <2>6, ShowsSame
  <2> QED BY <2>1, <2>7
<1> QED BY <1>7, <1>8, ConfInvThen

\* lr_yum_repoconfs_free() keeps it: what is left of what was given is on the disk.
LEMMA FreeKeeps ==
    ASSUME ConfInv, Free
    PROVE  ConfInv'
<1>1. /\ ConfTypeOK /\ \A k \in DOMAIN given : Shows(disk, files, k, given[k])
      /\ DOMAIN given \subseteq Paths \X Ids \X DOMAIN Kind
      /\ DOMAIN files = 1 .. Len(files) /\ disk \in Disks
  BY ConfInvIs, ConfState DEF ConfInv
<1>2. /\ files' = <<>> /\ repos' = <<>> /\ disk' = disk
      /\ given' = [k \in {k \in DOMAIN given : \A i \in Objects(k[1]) : ~files[i].modified}
                      |-> given[k]]
  BY DEF Free
<1>3. ConfTypeOK'
  <2> DEFINE R == [file : Nat, id : Ids]
             no == <<>>
  <2>1. no \in Seq(KeyFiles) /\ no \in Seq(R) /\ Len(no) = 0
    <3> HIDE DEF R
    <3> QED OBVIOUS
  <2> HIDE DEF no
  <2>2. [files |-> no, repos |-> no, ok |-> TRUE] \in Confs
    BY <2>1 DEF Confs
  <2>3. DOMAIN given' \subseteq DOMAIN given
    BY <1>2
  <2> QED BY <1>1, <1>2, <2>2, <2>3 DEF ConfTypeOK, Conf, no
<1>4. ASSUME NEW k \in DOMAIN given' PROVE Shows(disk', files', k, given'[k])
  <2>1. k \in DOMAIN given /\ given'[k] = given[k] /\ \A i \in ObjectsIn(files, k[1]) : ~files[i].modified
    BY <1>1, <1>2 DEF Objects, ObjectsIn
  <2>2. ObjectsIn(files', k[1]) = {}
    <3>1. 1 .. Len(files') = {}
      BY <1>2
    <3> QED BY <3>1 DEF ObjectsIn
  <2>3. disk[k[1]].state = "good" /\ Same(Get(Loaded(disk[k[1]].groups), k[2], k[3]), given[k])
    BY <1>1, <2>1 DEF Shows
  <2> QED BY <1>2, <2>1, <2>2, <2>3 DEF Shows
<1> QED BY <1>3, <1>4, ConfInvThen

\* What other programs write are sections.
LEMMA FileSections ==
    ASSUME NEW g \in FileGroups, IsFile(g)
    PROVE  g \in Sections(Tokens)
<1>1. CASE g = <<>>
  BY <1>1, NoSections
<1>2. CASE g # <<>>
  <2>1. PICK id \in Ids, opt \in DOMAIN Kind, text \in UNION {FileTexts[o] : o \in DOMAIN Kind} :
           g = Put(<<>>, id, Put(<<>>, opt, text))
    BY <1>2 DEF FileGroups
  <2>2. text \in Tokens
    BY ConfAssumption
  <2> DEFINE no == <<>>
             h == Put(no, opt, text)
             f == Put(no, id, h)
  <2>3. DOMAIN no = {}
    OBVIOUS
  <2> HIDE DEF no
  <2>4. DOMAIN h = {opt} /\ h = [o \in DOMAIN h |-> h[o]] /\ h[opt] = text
    BY <2>3 DEF Put
  <2> HIDE DEF h
  <2>5. DOMAIN f = {id} /\ f = [i \in DOMAIN f |-> f[i]] /\ f[id] = h
    BY <2>3 DEF Put
  <2> HIDE DEF f
  <2>6. h \in Options(Tokens)
    BY <2>2, <2>4, OptionsType
  <2>7. f \in Sections(Tokens)
    BY <2>5, <2>6, SectionsType
  <2> QED BY <2>1, <2>7 DEF f, h, no
<1> QED BY <1>1, <1>2

\* Another program that writes a file keeps it.
LEMMA EditKeeps ==
    ASSUME ConfInv, Edit
    PROVE  ConfInv'
<1>1. /\ ConfTypeOK /\ \A k \in DOMAIN given : Shows(disk, files, k, given[k])
      /\ DOMAIN given \subseteq Paths \X Ids \X DOMAIN Kind
      /\ disk \in Disks /\ Conf \in Confs
  BY ConfInvIs, ConfState DEF ConfInv
<1>2. PICK p \in Paths :
         /\ disk' \in {[disk EXCEPT ![p] = [state |-> "bad", groups |-> <<>>]]} \cup
                      {[disk EXCEPT ![p] = Good(g)] : g \in {g \in FileGroups : IsFile(g)}}
         /\ given' = Without(p)
  BY DEF Edit
<1>3. files' = files /\ repos' = repos
  BY DEF Edit
<1>4. PICK file \in [state : {"none", "bad", "good"}, groups : Sections(Tokens)] :
         disk' = [disk EXCEPT ![p] = file]
  <2>1. CASE disk' = [disk EXCEPT ![p] = [state |-> "bad", groups |-> <<>>]]
    <3>1. [state |-> "bad", groups |-> <<>>] \in [state : {"none", "bad", "good"}, groups : Sections(Tokens)]
      BY NoSections
    <3> QED BY <2>1, <3>1
  <2>2. CASE disk' \in {[disk EXCEPT ![p] = Good(g)] : g \in {g \in FileGroups : IsFile(g)}}
    <3>1. PICK g \in FileGroups : IsFile(g) /\ disk' = [disk EXCEPT ![p] = Good(g)]
      BY <2>2
    <3>2. Good(g) \in [state : {"none", "bad", "good"}, groups : Sections(Tokens)]
      BY <3>1, FileSections DEF Good
    <3> QED BY <3>1, <3>2
  <2> QED BY <1>2, <2>1, <2>2
<1>5. disk' \in Disks /\ \A q \in Paths : q # p => disk'[q] = disk[q]
  BY <1>1, <1>4 DEF Disks
<1>6. DOMAIN given' \subseteq DOMAIN given
      /\ \A k \in DOMAIN given' : k[1] # p /\ given'[k] = given[k]
  BY <1>2 DEF Without
<1>7. ConfTypeOK'
  BY <1>1, <1>3, <1>5, <1>6 DEF ConfTypeOK, Conf
<1>8. ASSUME NEW k \in DOMAIN given' PROVE Shows(disk', files', k, given'[k])
  <2>1. k \in DOMAIN given /\ given'[k] = given[k] /\ k[1] # p /\ k[1] \in Paths
    BY <1>1, <1>6
  <2>2. Shows(disk, files, k, given[k]) /\ disk'[k[1]] = disk[k[1]]
    BY <1>1, <1>5, <2>1
  <2>3. Shows(disk', files, k, given[k])
    BY <2>2, ShowsSame
  <2> QED BY <1>3, <2>1, <2>3
<1> QED BY <1>7, <1>8, ConfInvThen


\* A function on positions is a sequence.
LEMMA FunctionIsSequence ==
    ASSUME NEW T, NEW n \in Nat, NEW f \in [1 .. n -> T]
    PROVE  f \in Seq(T) /\ Len(f) = n
OBVIOUS

\* One file is changed, and nothing on the disk.
Changed(fs, i, g) == [fs EXCEPT ![i].groups = g, ![i].modified = TRUE]

\* The files are as they were but for this one.
LEMMA FileChanged ==
    ASSUME NEW fs \in Seq(KeyFiles), NEW i \in 1 .. Len(fs), NEW g \in Sections(KeptTexts)
    PROVE  LET gs == Changed(fs, i, g) IN
           /\ gs \in Seq(KeyFiles) /\ Len(gs) = Len(fs)
           /\ gs[i].groups = g /\ gs[i].modified = TRUE /\ gs[i].path = fs[i].path
           /\ \A j \in 1 .. Len(fs) : j # i => gs[j] = fs[j]
           /\ \A p : ObjectsIn(gs, p) = ObjectsIn(fs, p)
<1> DEFINE gs == Changed(fs, i, g)
           n == Len(fs)
           f == [[fs[i] EXCEPT !.groups = g] EXCEPT !.modified = TRUE]
<1>1. n \in Nat /\ fs[i] \in KeyFiles /\ fs \in [1 .. n -> KeyFiles] /\ i \in 1 .. n
  BY LenProperties
<1>2. f \in KeyFiles /\ f.groups = g /\ f.modified = TRUE /\ f.path = fs[i].path
  BY <1>1 DEF KeyFiles
<1>3. gs = [fs EXCEPT ![i] = f]
  BY <1>1 DEF Changed
<1> HIDE DEF n, f, gs
<1>4. /\ gs \in [1 .. n -> KeyFiles] /\ gs[i] = f /\ \A j \in 1 .. n : j # i => gs[j] = fs[j]
  BY <1>1, <1>2, <1>3
<1>5. gs \in Seq(KeyFiles) /\ Len(gs) = n
  BY <1>1, <1>4, FunctionIsSequence
<1>6. \A j \in 1 .. n : gs[j].path = fs[j].path
  BY <1>2, <1>4
<1>7. \A p : ObjectsIn(gs, p) = ObjectsIn(fs, p)
  BY <1>5, <1>6 DEF n, ObjectsIn
<1> QED BY <1>2, <1>4, <1>5, <1>7 DEF n, gs

\* lr_yum_repoconf_setopt() keeps it: what is set is read, and the others are what they were.
LEMMA SetOptKeeps ==
    ASSUME ConfInv, SetOpt
    PROVE  ConfInv'
<1>1. /\ ConfTypeOK /\ \A k \in DOMAIN given : Shows(disk, files, k, given[k])
      /\ DOMAIN given \subseteq Paths \X Ids \X DOMAIN Kind
      /\ files \in Seq(KeyFiles) /\ Len(files) \in Nat /\ DOMAIN files = 1 .. Len(files)
      /\ repos \in Seq([file : Nat, id : Ids]) /\ DOMAIN repos = 1 .. Len(repos)
      /\ \A r \in 1 .. Len(repos) : repos[r].file \in 1 .. Len(files) /\ repos[r].id \in Ids
      /\ disk \in Disks
  BY ConfInvIs, ConfState DEF ConfInv
<1> DEFINE Groups(i, id, opt, v) ==
              IF Removes(opt, v) THEN WithoutOption(files[i].groups, id, opt)
              ELSE WithOption(files[i].groups, id, opt, WrittenAs(Kind[opt], v.value))
           Value(opt, v) == IF Removes(opt, v) THEN Unset ELSE v
<1>0. PICK r \in DOMAIN repos, opt \in DOMAIN Kind : \E v \in Settings[opt] :
         LET i == repos[r].file  id == repos[r].id
             groups == IF Removes(opt, v) THEN WithoutOption(files[i].groups, id, opt)
                       ELSE WithOption(files[i].groups, id, opt, WrittenAs(Kind[opt], v.value))
         IN  /\ files' = [files EXCEPT ![i].groups = groups, ![i].modified = TRUE]
             /\ given' = IF Objects(files[i].path) # {i} THEN given
                         ELSE Put(given, <<files[i].path, id, opt>>,
                                  IF Removes(opt, v) THEN Unset ELSE v)
  BY DEF SetOpt
<1>2. PICK v \in Settings[opt] :
         LET i == repos[r].file  id == repos[r].id
         IN  /\ files' = [files EXCEPT ![i].groups = Groups(i, id, opt, v), ![i].modified = TRUE]
             /\ given' = IF Objects(files[i].path) # {i} THEN given
                         ELSE Put(given, <<files[i].path, id, opt>>, Value(opt, v))
  BY <1>0
<1>3. disk' = disk /\ repos' = repos
  BY DEF SetOpt
<1> DEFINE i == repos[r].file
           id == repos[r].id
           old == files[i].groups
           new == Groups(i, id, opt, v)
           p == files[i].path
           key == <<p, id, opt>>
           value == Value(opt, v)
<1>4. /\ i \in 1 .. Len(files) /\ id \in Ids
      /\ opt \in DOMAIN Kind /\ v \in Settings[opt]
  BY <1>1, <1>2
<1>5. old \in Sections(KeptTexts) /\ p \in Paths
  <2> HIDE DEF i
  <2> QED BY <1>1, <1>4, FileOf
<1>6. /\ new \in Sections(KeptTexts) /\ Same(Get(new, id, opt), value)
      /\ \A h, o : h # id \/ o # opt => Get(new, h, o) = Get(old, h, o)
  <2> HIDE DEF i, id, old
  <2>1. CASE Removes(opt, v)
    <3>1. new = WithoutOption(old, id, opt) /\ value = Unset
      BY <2>1 DEF old
    <3> HIDE DEF new, value
    <3>2. Get(new, id, opt) = Unset
      BY <1>5, <3>1, WithoutOptionOf
    <3>3. Same(Get(new, id, opt), value)
      BY <3>1, <3>2 DEF Same
    <3> QED BY <1>5, <3>1, <3>3, WithoutOptionOf
  <2>2. CASE ~Removes(opt, v)
    <3> DEFINE text == WrittenAs(Kind[opt], v.value)
    <3>1. new = WithOption(old, id, opt, text) /\ value = v
      BY <2>2 DEF old
    <3> HIDE DEF new, value
    <3>2. v.ok = TRUE /\ Settable(Kind[opt], v.value) /\ ~(Kind[opt] = "list" /\ v.value = <<>>)
      BY <1>4, <2>2, ConfAssumption DEF Removes
    <3>3. Kept(text) /\ Same(ReadAs(Kind[opt], text), Is(v.value))
      BY <3>2, WrittenIsRead
    <3>4. text \in KeptTexts
      BY <3>3 DEF KeptTexts, Kept
    <3> HIDE DEF text
    <3>5. /\ new \in Sections(KeptTexts) /\ Get(new, id, opt) = ReadAs(Kind[opt], text)
          /\ \A h, o : h # id \/ o # opt => Get(new, h, o) = Get(old, h, o)
      BY <1>4, <1>5, <3>1, <3>4, WithOptionOf
    <3>6. Same(Get(new, id, opt), v)
      BY <3>2, <3>3, <3>5 DEF Same, Is
    <3> QED BY <3>1, <3>5, <3>6
  <2> QED BY <2>1, <2>2
<1>7. /\ files' = [files EXCEPT ![i].groups = new, ![i].modified = TRUE]
      /\ given' = IF Objects(p) # {i} THEN given ELSE Put(given, key, value)
  BY <1>2
<1> HIDE DEF i, id, old, new, value
<1>8. /\ files' \in Seq(KeyFiles) /\ Len(files') = Len(files)
      /\ files'[i].groups = new /\ files'[i].modified = TRUE /\ files'[i].path = files[i].path
      /\ \A j \in 1 .. Len(files) : j # i => files'[j] = files[j]
      /\ \A q : ObjectsIn(files', q) = ObjectsIn(files, q)
  <2> DEFINE fs == files
             gs == files'
  <2>1. fs \in Seq(KeyFiles) /\ i \in 1 .. Len(fs) /\ gs = Changed(fs, i, new)
    BY <1>1, <1>4, <1>7 DEF Changed
  <2> HIDE DEF fs, gs
  <2>2. /\ gs \in Seq(KeyFiles) /\ Len(gs) = Len(fs)
        /\ gs[i].groups = new /\ gs[i].modified = TRUE /\ gs[i].path = fs[i].path
        /\ \A j \in 1 .. Len(fs) : j # i => gs[j] = fs[j]
        /\ \A q : ObjectsIn(gs, q) = ObjectsIn(fs, q)
    <3> DEFINE hs == Changed(fs, i, new)
    <3>1. /\ hs \in Seq(KeyFiles) /\ Len(hs) = Len(fs)
          /\ hs[i].groups = new /\ hs[i].modified = TRUE /\ hs[i].path = fs[i].path
          /\ \A j \in 1 .. Len(fs) : j # i => hs[j] = fs[j]
          /\ \A q : ObjectsIn(hs, q) = ObjectsIn(fs, q)
      BY <1>6, <2>1, FileChanged
    <3> HIDE DEF hs
    <3> QED BY <2>1, <3>1 DEF hs
  <2> QED BY <2>2 DEF fs, gs
<1>9. Objects(p) = ObjectsIn(files, p) /\ i \in ObjectsIn(files, p)
  BY <1>1, <1>4 DEF Objects, ObjectsIn
<1>10. DOMAIN given' \subseteq DOMAIN given \cup {key}
       /\ \A k \in DOMAIN given' : IF Objects(p) = {i} /\ k = key THEN given'[k] = value
                                   ELSE k \in DOMAIN given /\ given'[k] = given[k]
  <2> HIDE DEF p, key
  <2>1. CASE Objects(p) # {i}
    BY <1>7, <2>1
  <2>2. CASE Objects(p) = {i}
    BY <1>7, <2>2 DEF Put
  <2> QED BY <2>1, <2>2
<1>11. ConfTypeOK'
  <2>1. Conf' \in Confs
    <3>1. \A q \in 1 .. Len(repos) : repos[q].file \in 1 .. Len(files')
      BY <1>1, <1>8
    <3>2. [files |-> files', repos |-> repos, ok |-> TRUE] \in Confs
      BY <1>1, <1>8, <3>1 DEF Confs
    <3> QED BY <1>3, <3>2 DEF Conf
  <2>2. key \in Paths \X Ids \X DOMAIN Kind
    BY <1>4, <1>5
  <2> HIDE DEF key
  <2> QED BY <1>1, <1>3, <1>10, <2>1, <2>2 DEF ConfTypeOK
<1>12. ASSUME NEW k \in DOMAIN given' PROVE Shows(disk', files', k, given'[k])
  <2>1. CASE Objects(p) = {i} /\ k = key
    <3>1. k[1] = p /\ k[2] = id /\ k[3] = opt /\ given'[k] = value
      BY <1>10, <2>1
    <3>2. ObjectsIn(files', k[1]) = {i}
      BY <1>8, <1>9, <2>1, <3>1
    <3> HIDE DEF p, key
    <3> QED BY <1>6, <1>8, <3>1, <3>2 DEF Shows
  <2>2. CASE ~(Objects(p) = {i} /\ k = key)
    <3>1. k \in DOMAIN given /\ given'[k] = given[k]
      BY <1>10, <2>2
    <3>2. Shows(disk, files, k, given[k]) /\ k \in Paths \X Ids \X DOMAIN Kind
      BY <1>1, <3>1
    <3>3. CASE k[1] = p
      <4>1. ObjectsIn(files, k[1]) = {i}
        <5> HIDE DEF p, key
        <5> QED BY <1>9, <3>2, <3>3 DEF Shows
      <4>2. k[2] # id \/ k[3] # opt
        <5>1. k # key
          BY <1>9, <2>2, <3>3, <4>1
        <5>2. k = <<k[1], k[2], k[3]>>
          BY <3>2
        <5> QED BY <3>3, <5>1, <5>2
      <4>3. Get(new, k[2], k[3]) = Get(old, k[2], k[3])
        BY <1>6, <4>2
      <4>4. Same(Get(files[i].groups, k[2], k[3]), given[k])
        BY <3>2, <4>1 DEF Shows
      <4>5. ObjectsIn(files', k[1]) = {i}
        BY <1>8, <4>1
      <4>6. Same(Get(files'[i].groups, k[2], k[3]), given[k])
        BY <1>8, <4>3, <4>4 DEF old
      <4> HIDE DEF p, key
      <4> QED BY <1>8, <3>1, <4>5, <4>6 DEF Shows
    <3>4. CASE k[1] # p
      <4>1. i \notin ObjectsIn(files, k[1])
        BY <3>4 DEF ObjectsIn
      <4>2. \A j \in ObjectsIn(files, k[1]) : files'[j] = files[j]
        BY <1>8, <4>1 DEF ObjectsIn
      <4>3. Shows(disk, files', k, given[k])
        BY <1>8, <3>2, <4>2, ShowsSame
      <4> QED BY <1>3, <3>1, <4>3
    <3> QED BY <3>3, <3>4
  <2> QED BY <2>1, <2>2
<1> QED BY <1>11, <1>12, ConfInvThen

\* lr_yum_repoconfs_save() keeps it, wherever it ends.
LEMMA SaveKeeps ==
    ASSUME ConfInv, NEW R, \A r \in R : r.file \in 1 .. Len(files), NEW list \in Seq(R), Save(list)
    PROVE  ConfInv'
<1>1. /\ ConfTypeOK /\ \A k \in DOMAIN given : Shows(disk, files, k, given[k])
      /\ DOMAIN given \subseteq Paths \X Ids \X DOMAIN Kind
      /\ files \in Seq(KeyFiles) /\ Len(files) \in Nat
      /\ repos \in Seq([file : Nat, id : Ids])
      /\ \A r \in 1 .. Len(repos) : repos[r].file \in 1 .. Len(files)
      /\ disk \in Disks
  BY ConfInvIs, ConfState DEF ConfInv
<1>2. PICK unwritable :
         /\ disk' = Saved(list, unwritable).disk /\ files' = Saved(list, unwritable).files
         /\ repos' = repos /\ given' = given
  BY DEF Save
<1> DEFINE s == Saved(list, unwritable)
<1>3. s \in Saves
  BY <1>1, SavedOf
<1>4. disk' = s.disk /\ files' = s.files /\ repos' = repos /\ given' = given
  BY <1>2
<1> HIDE DEF s
<1>5. s.disk \in Disks /\ s.files \in Seq(KeyFiles) /\ SavedFrom(s)
  BY <1>3 DEF Saves
<1>6. ConfTypeOK'
  <2>1. Len(files') = Len(files)
    BY <1>4, <1>5 DEF SavedFrom
  <2>2. [files |-> files', repos |-> repos, ok |-> TRUE] \in Confs
    BY <1>1, <1>4, <1>5, <2>1 DEF Confs
  <2> QED BY <1>1, <1>4, <1>5, <2>2 DEF ConfTypeOK, Conf
<1>7. ASSUME NEW k \in DOMAIN given PROVE Shows(s.disk, s.files, k, given[k])
  <2> DEFINE p == k[1]
  <2>1. p \in Paths /\ Shows(disk, files, k, given[k])
    BY <1>1
  <2> HIDE DEF p
  <2>2. ObjectsIn(s.files, p) = ObjectsIn(files, p)
    BY <1>5 DEF SavedFrom, ObjectsIn
  <2>3. CASE ObjectsIn(files, p) = {}
    <3>1. s.disk[p] = disk[p]
      BY <1>5, <2>1, <2>3 DEF SavedFrom, ObjectsIn
    <3> QED BY <2>1, <2>2, <2>3, <3>1, ShowsSame DEF p
  <2>4. ASSUME NEW i \in ObjectsIn(files, p) PROVE Shows(s.disk, s.files, k, given[k])
    <3>1. i \in 1 .. Len(files) /\ files[i].path = p /\ ObjectsIn(files, p) = {i}
      BY <2>1, <2>4 DEF ObjectsIn, Shows, p
    <3>2. Alone(i)
      BY <3>1 DEF Alone, ObjectsIn
    <3>3. /\ s.files[i].groups = files[i].groups
          /\ \/ s.files[i].modified = files[i].modified /\ s.disk[p] = disk[p]
             \/ ~s.files[i].modified /\ s.disk[p] = Good(files[i].groups)
      BY <1>5, <3>1, <3>2 DEF SavedFrom
    <3>4. CASE s.files[i].modified = files[i].modified /\ s.disk[p] = disk[p]
      <4>1. \A j \in ObjectsIn(files, p) :
               s.files[j].groups = files[j].groups /\ s.files[j].modified = files[j].modified
        BY <3>1, <3>3, <3>4
      <4> QED BY <2>1, <2>2, <3>4, <4>1, ShowsSame DEF p
    <3>5. CASE ~s.files[i].modified /\ s.disk[p] = Good(files[i].groups)
      <4> DEFINE g == files[i].groups
      <4>1. s.disk[p].state = "good" /\ s.disk[p].groups = g
        BY <3>5 DEF Good
      <4>2. g \in Sections(KeptTexts)
        BY <1>1, <3>1, FileOf
      <4>3. Same(Get(g, k[2], k[3]), given[k])
        BY <2>1, <3>1 DEF Shows, p
      <4>4. Same(Get(Loaded(s.disk[p].groups), k[2], k[3]), given[k])
        BY <4>1, <4>2, <4>3, SavedIsRead
      <4> HIDE DEF g
      <4>5. s.files[i].groups = g
        BY <3>3 DEF g
      <4> QED BY <2>2, <3>1, <4>1, <4>3, <4>4, <4>5 DEF Shows, p
    <3> QED BY <3>3, <3>4, <3>5
  <2> QED BY <2>3, <2>4
<1> QED BY <1>4, <1>6, <1>7, ConfInvThen

\* Every step keeps the invariant.
LEMMA ConfNextInv ==
    ASSUME ConfInv, [ConfNext]_confVars
    PROVE  ConfInv'
<1>1. /\ repos \in Seq([file : Nat, id : Ids]) /\ DOMAIN repos = 1 .. Len(repos)
      /\ \A r \in 1 .. Len(repos) : repos[r].file \in 1 .. Len(files) /\ repos[r].id \in Ids
  BY ConfState DEF ConfInv
<1> DEFINE R == {repos[r] : r \in DOMAIN repos}
<1>2. \A r \in R : r.file \in 1 .. Len(files)
  BY <1>1
<1>3. CASE Parse
  BY <1>3, ParseKeeps
<1>4. CASE LoadDir
  BY <1>4, LoadDirKeeps
<1>5. CASE AddEmptyConf
  BY <1>5, AddEmptyConfKeeps
<1>6. CASE Free
  BY <1>6, FreeKeeps
<1>7. CASE SetOpt
  BY <1>7, SetOptKeeps
<1>8. CASE SaveAll
  <2>1. repos \in Seq(R)
    <3> DEFINE rs == repos
               n == Len(rs)
    <3>1. n \in Nat /\ rs \in [1 .. n -> R]
      <4>1. rs \in [1 .. n -> [file : Nat, id : Ids]] /\ n \in Nat
        BY <1>1, LenProperties
      <4>2. \A r \in 1 .. n : rs[r] \in R
        BY <1>1
      <4> HIDE DEF rs, n, R
      <4> QED BY <4>1, <4>2
    <3> HIDE DEF n, R, rs
    <3>2. rs \in Seq(R)
      BY <3>1
    <3> QED BY <3>2 DEF rs
  <2> HIDE DEF R
  <2> QED BY <1>2, <1>8, <2>1, SaveKeeps DEF SaveAll
<1>9. CASE SaveOne
  <2>1. PICK r \in DOMAIN repos : Save(<<repos[r]>>)
    BY <1>9 DEF SaveOne
  <2>2. <<repos[r]>> \in Seq(R)
    <3> DEFINE x == repos[r]
    <3>1. x \in R
      OBVIOUS
    <3> HIDE DEF x, R
    <3>2. <<x>> \in Seq(R)
      BY <3>1
    <3> QED BY <3>2 DEF x
  <2> HIDE DEF R
  <2> QED BY <1>2, <2>1, <2>2, SaveKeeps
<1>10. CASE Edit
  BY <1>10, EditKeeps
<1>11. CASE UNCHANGED confVars
  BY <1>11 DEF confVars, ConfInv, ConfTypeOK, Conf, LoadedOnce, SetIsRead, Objects
<1> QED BY <1>3, <1>4, <1>5, <1>6, <1>7, <1>8, <1>9, <1>10, <1>11 DEF ConfNext

\* The state of a configuration in every run: the values in memory are texts that the key file
\* keeps, every repository has a file, what was given is given for one loaded file at most, and
\* it is what is read.
THEOREM ConfInvariant == ConfSpec => []ConfInv
<1>1. ConfInit => ConfInv
  BY ConfInitInv
<1>2. ConfInv /\ [ConfNext]_confVars => ConfInv'
  BY ConfNextInv
<1> QED BY <1>1, <1>2, PTL DEF ConfSpec

\* What lr_yum_repoconf_setopt() was given last is what lr_yum_repoconf_getinfo() returns, and
\* what the file holds when it does not count as modified: for any files, repositories, options
\* of any kind and values, however often saves fail and whatever other programs write.
THEOREM WhatIsSetIsRead == ConfSpec => []SetIsRead
<1>1. ConfInv => SetIsRead
  BY DEF ConfInv
<1> QED BY <1>1, ConfInvariant, PTL


-------------------------------------------------------------------------------
(* A list in a file.                                                       *)

\* The parts of a text: those before the last, and the last.
LEMMA FrontLast ==
    ASSUME NEW parts \in TokenLists \ {<<>>}
    PROVE  /\ Front(parts) \in TokenLists /\ Last(parts) \in Seq(Token)
           /\ parts = Append(Front(parts), Last(parts))
<1> DEFINE T == Seq(Token)
<1>1. parts \in Seq(T) /\ parts # <<>>
  BY DEF TokenLists
<1> HIDE DEF T
<1> DEFINE n == Len(parts)
<1>2. n \in Nat \ {0} /\ parts \in [1 .. n -> T]
  BY <1>1, LenProperties
<1>3. SubSeq(parts, 1, n) = parts
  BY <1>1, SubSeqFull
<1> HIDE DEF n
<1>4. n \in 1 .. n
  BY <1>2
<1>5. /\ SubSeq(parts, 1, n) = Append(SubSeq(parts, 1, n - 1), parts[n])
      /\ SubSeq(parts, 1, n - 1) \in Seq(T) /\ parts[n] \in T
  BY <1>1, <1>4, BeginningGrows DEF n
<1>6. Front(parts) = SubSeq(parts, 1, n - 1) /\ Last(parts) = parts[n]
  BY DEF Front, Last, n
<1> QED BY <1>3, <1>5, <1>6 DEF TokenLists, T

\* What a text is cut into: the elements before, and the last one, which may go on.
Cut(text, seps) == <<NotEmpty(Front(Parts(text, seps))), Last(Parts(text, seps))>>
CutStep(c, t, seps) == IF t \in seps THEN <<PickedStep(c[1], c[2]), <<>>>>
                       ELSE <<c[1], Append(c[2], t)>>
Whole(c) == PickedStep(c[1], c[2])
NoCut == << <<>>, <<>> >>

\* It grows token by token.
LEMMA CutOf ==
    ASSUME NEW seps
    PROVE  /\ Cut(<<>>, seps) = NoCut
           /\ \A text \in Tokens : Whole(Cut(text, seps)) = NotEmpty(Parts(text, seps))
           /\ \A text \in Tokens, t \in Token :
                Cut(Append(text, t), seps) = CutStep(Cut(text, seps), t, seps)
<1>1. Cut(<<>>, seps) = NoCut
  <2>1. Parts(<<>>, seps) = OnePart
    BY PartsOf
  <2>2. OnePart = Append(<<>>, <<>>) /\ <<>> \in TokenLists /\ <<>> \in Seq(Token)
    BY DEF OnePart, TokenLists
  <2>3. Front(OnePart) = <<>> /\ Last(OnePart) = <<>>
    <3>1. Len(OnePart) = 1 /\ OnePart[1] = <<>>
      BY DEF OnePart
    <3>2. SubSeq(OnePart, 1, 0) = <<>>
      BY SubSeqEmpty
    <3> QED BY <3>1, <3>2 DEF Front, Last
  <2> QED BY <2>1, <2>3, NotEmptyOf DEF Cut, NoCut
<1>2. ASSUME NEW text \in Tokens
      PROVE  Whole(Cut(text, seps)) = NotEmpty(Parts(text, seps))
  <2> DEFINE parts == Parts(text, seps)
             f == Front(parts)
             l == Last(parts)
  <2>1. f \in TokenLists /\ l \in Seq(Token) /\ parts = Append(f, l)
    BY PartsOf, FrontLast
  <2> HIDE DEF f, l
  <2>2. NotEmpty(parts) = PickedStep(NotEmpty(f), l)
    <3> HIDE DEF parts
    <3> QED BY <2>1, NotEmptyOf
  <2> QED BY <2>2 DEF Whole, Cut, f, l
<1>3. ASSUME NEW text \in Tokens, NEW t \in Token
      PROVE  Cut(Append(text, t), seps) = CutStep(Cut(text, seps), t, seps)
  <2> DEFINE parts == Parts(text, seps)
             next == PartsStep(parts, t, seps)
  <2>1. parts \in TokenLists \ {<<>>} /\ Parts(Append(text, t), seps) = next
    BY PartsOf
  <2>2. /\ t \in seps => Last(next) = <<>> /\ Front(next) = parts
        /\ t \notin seps => Last(next) = Append(Last(parts), t) /\ Front(next) = Front(parts)
    <3> HIDE DEF parts
    <3> QED BY <2>1, PartsStepType
  <2>3. Cut(Append(text, t), seps) = <<NotEmpty(Front(next)), Last(next)>>
    BY <2>1 DEF Cut
  <2>4. Whole(Cut(text, seps)) = NotEmpty(parts)
    BY <1>2
  <2>5. CASE t \in seps
    <3> HIDE DEF next
    <3> QED BY <2>2, <2>3, <2>4, <2>5 DEF CutStep, Whole
  <2>6. CASE t \notin seps
    <3>1. Cut(Append(text, t), seps) = <<NotEmpty(Front(parts)), Append(Last(parts), t)>>
      <4> HIDE DEF next, parts
      <4> QED BY <2>2, <2>3, <2>6
    <3> QED BY <2>6, <3>1 DEF CutStep, Cut
  <2> QED BY <2>5, <2>6
<1> QED BY <1>1, <1>2, <1>3

\* A separator after what is whole changes nothing.
LEMMA CutAgain ==
    ASSUME NEW c, NEW t, NEW seps, t \in seps
    PROVE  /\ Whole(CutStep(c, t, seps)) = Whole(c)
           /\ CutStep(NoCut, t, seps) = NoCut
<1>1. CutStep(c, t, seps) = <<PickedStep(c[1], c[2]), <<>>>>
  BY DEF CutStep
<1>2. Whole(CutStep(c, t, seps)) = Whole(c)
  BY <1>1 DEF Whole, PickedStep
<1>3. CutStep(NoCut, t, seps) = NoCut
  <2>1. NoCut[1] = <<>> /\ NoCut[2] = <<>>
    BY DEF NoCut
  <2>2. CutStep(NoCut, t, seps) = <<PickedStep(NoCut[1], NoCut[2]), <<>>>>
    BY DEF CutStep
  <2>3. PickedStep(<<>>, <<>>) = <<>>
    BY DEF PickedStep
  <2> QED BY <2>1, <2>2, <2>3 DEF NoCut
<1> QED BY <1>2, <1>3

\* The text y is within x, between separators, but that the separators may be others.
Within(y, Y, x, X, e) ==
    /\ e \in 0 .. Len(x) /\ e + Len(y) <= Len(x)
    /\ \A k \in 1 .. Len(x) : ~(e < k /\ k <= e + Len(y)) => x[k] \in X
    /\ \A j \in 1 .. Len(y) : /\ y[j] \in Y <=> x[e + j] \in X
                              /\ x[e + j] \notin X => y[j] = x[e + j]

\* Then both have the same elements that are not empty.
LEMMA SameWords ==
    ASSUME NEW x \in Tokens, NEW y \in Tokens, NEW X, NEW Y, NEW e, Within(y, Y, x, X, e)
    PROVE  NotEmpty(Parts(y, Y)) = NotEmpty(Parts(x, X))
<1> DEFINE n == Len(x)
           d == Len(y)
           At(k) == Cut(SubSeq(x, 1, k), X)
           Of(j) == Cut(SubSeq(y, 1, j), Y)
           Upto(k) == /\ k <= e => At(k) = NoCut
                      /\ e <= k /\ k <= e + d => At(k) = Of(k - e)
                      /\ e + d <= k => Whole(At(k)) = Whole(Of(d))
           S == {k \in 0 .. n : Upto(k)}
<1>1. /\ n \in Nat /\ d \in Nat /\ e \in Nat /\ e <= n /\ e + d <= n
      /\ \A k \in 1 .. n : ~(e < k /\ k <= e + d) => x[k] \in X
      /\ \A j \in 1 .. d : /\ y[j] \in Y <=> x[e + j] \in X
                           /\ x[e + j] \notin X => y[j] = x[e + j]
  <2>1. n \in Nat /\ d \in Nat
    BY DEF Tokens
  <2> QED BY <2>1 DEF Within
<1>2. At(0) = NoCut /\ Of(0) = NoCut
  <2>1. SubSeq(x, 1, 0) = <<>> /\ SubSeq(y, 1, 0) = <<>>
    BY SubSeqEmpty
  <2> HIDE DEF n, d
  <2> QED BY <2>1, CutOf
<1>3. ASSUME NEW k \in 1 .. n PROVE At(k) = CutStep(At(k - 1), x[k], X)
  <2>1. SubSeq(x, 1, k) = Append(SubSeq(x, 1, k - 1), x[k])
        /\ SubSeq(x, 1, k - 1) \in Tokens /\ x[k] \in Token
    BY BeginningGrows DEF Tokens
  <2> QED BY <2>1, CutOf
<1>4. ASSUME NEW j \in 1 .. d PROVE Of(j) = CutStep(Of(j - 1), y[j], Y)
  <2>1. SubSeq(y, 1, j) = Append(SubSeq(y, 1, j - 1), y[j])
        /\ SubSeq(y, 1, j - 1) \in Tokens /\ y[j] \in Token
    BY BeginningGrows DEF Tokens
  <2> QED BY <2>1, CutOf
<1> HIDE DEF n, d, At, Of
<1>5. Upto(0)
  <2>1. 0 <= e => At(0) = NoCut
    BY <1>2
  <2>2. e <= 0 => e = 0
    BY <1>1
  <2>3. e + d <= 0 => e = 0 /\ d = 0
    BY <1>1
  <2> QED BY <1>1, <1>2, <2>1, <2>2, <2>3
<1>6. ASSUME NEW k \in 1 .. n, Upto(k - 1) PROVE Upto(k)
  <2>0. k - 1 \in Nat /\ At(k) = CutStep(At(k - 1), x[k], X)
    BY <1>1, <1>3
  <2>1. k <= e => At(k) = NoCut
    <3>1. SUFFICES ASSUME k <= e PROVE At(k) = NoCut
      OBVIOUS
    <3>2. x[k] \in X /\ At(k - 1) = NoCut
      BY <1>1, <1>6, <3>1
    <3> QED BY <2>0, <3>2, CutAgain
  <2>2. e <= k /\ k <= e + d => At(k) = Of(k - e)
    <3>1. SUFFICES ASSUME e <= k, k <= e + d PROVE At(k) = Of(k - e)
      OBVIOUS
    <3>2. CASE k = e
      <4>1. k - e = 0 /\ k <= e
        BY <1>1, <3>2
      <4> QED BY <1>2, <2>1, <4>1
    <3>3. CASE k # e
      <4> DEFINE j == k - e
      <4>1. j \in 1 .. d /\ e + j = k /\ j - 1 = (k - 1) - e /\ e <= k - 1 /\ k - 1 <= e + d
        BY <1>1, <3>1, <3>3
      <4> HIDE DEF j
      <4>2. At(k - 1) = Of(j - 1)
        BY <1>6, <4>1
      <4>3. Of(j) = CutStep(Of(j - 1), y[j], Y)
        BY <1>4, <4>1
      <4>4. /\ y[j] \in Y <=> x[k] \in X
            /\ x[k] \notin X => y[j] = x[k]
        BY <1>1, <4>1
      <4>5. CutStep(At(k - 1), x[k], X) = CutStep(At(k - 1), y[j], Y)
        BY <4>4 DEF CutStep
      <4> QED BY <2>0, <4>2, <4>3, <4>5 DEF j
    <3> QED BY <3>2, <3>3
  <2>3. e + d <= k => Whole(At(k)) = Whole(Of(d))
    <3>1. SUFFICES ASSUME e + d <= k PROVE Whole(At(k)) = Whole(Of(d))
      OBVIOUS
    <3>2. CASE k = e + d
      <4>1. k - e = d /\ e <= k /\ k <= e + d
        BY <1>1, <3>2
      <4> QED BY <2>2, <4>1
    <3>3. CASE k # e + d
      <4>1. e + d <= k - 1 /\ ~(e < k /\ k <= e + d)
        BY <1>1, <3>1, <3>3
      <4>2. x[k] \in X /\ Whole(At(k - 1)) = Whole(Of(d))
        BY <1>1, <1>6, <4>1
      <4> QED BY <2>0, <4>2, CutAgain
    <3> QED BY <3>2, <3>3
  <2> QED BY <2>1, <2>2, <2>3
<1>7. \A k \in 0 .. n : k \in S
  <2> HIDE DEF Upto
  <2>1. 0 \in S /\ \A k \in 1 .. n : k - 1 \in S => k \in S
    BY <1>1, <1>5, <1>6
  <2> HIDE DEF S
  <2> QED BY <1>1, <2>1, Upwards
<1>8. Whole(At(n)) = Whole(Of(d))
  <2>1. n \in S
    BY <1>1, <1>7
  <2> QED BY <1>1, <2>1
<1>9. SubSeq(x, 1, n) = x /\ SubSeq(y, 1, d) = y
  BY SubSeqFull DEF Tokens, n, d
<1> QED BY <1>8, <1>9, CutOf DEF At, Of

\* Lines that are put together have the elements of their text: line ends became separators,
\* or nothing where no element had begun.
LEMMA JoinedWords ==
    ASSUME NEW text \in Tokens, LinesApart(text)
    PROVE  NotEmpty(Parts(Joined(text), Separators)) = NotEmpty(Parts(text, Separators \cup {"NL"}))
<1> DEFINE n == Len(text)
           X == Separators \cup {"NL"}
           At(k) == SubSeq(text, 1, k)
           J(k) == Joined(At(k))
           Ends(k) == J(k) # <<>> /\ Last(J(k)) \in EndInEquals
           Upto(k) == /\ Cut(J(k), Separators) = Cut(At(k), X)
                      /\ Ends(k) => k # 0 /\ text[k] \in EndInEquals
           S == {k \in 0 .. n : Upto(k)}
<1>1. n \in Nat
  BY DEF Tokens
<1>2. At(0) = <<>> /\ At(n) = text
  BY SubSeqEmpty, SubSeqFull DEF Tokens
<1>3. ASSUME NEW k \in 1 .. n
      PROVE  At(k) = Append(At(k - 1), text[k]) /\ At(k - 1) \in Tokens /\ text[k] \in Token
  BY BeginningGrows DEF Tokens
<1>4. ASSUME NEW k \in 1 .. n, text[k] = "NL", k - 1 # 0 PROVE text[k - 1] \notin EndInEquals
  <2>1. k - 1 \in 1 .. (Len(text) - 1) /\ (k - 1) + 1 = k
    BY <1>1, <1>4
  <2> HIDE DEF n
  <2> QED BY <1>4, <2>1 DEF LinesApart
<1>5. /\ ";" \in Token /\ ";" \in Separators /\ ";" # "NL" /\ "NL" \in X
      /\ ";" \notin EndInEquals /\ \A t : t # "NL" => (t \in Separators <=> t \in X)
  BY ConfAssumption DEF Separators
<1> HIDE DEF n, At, X
<1>6. Upto(0)
  <2>1. J(0) = <<>>
    BY <1>2, JoinedOf
  <2> QED BY <1>2, <2>1, CutOf
<1>7. ASSUME NEW k \in 1 .. n, Upto(k - 1) PROVE Upto(k)
  <2> DEFINE so == J(k - 1)
             t == text[k]
             c == Cut(so, Separators)
  <2>0. k # 0
    BY <1>1
  <2>1. t \in Token /\ so \in Tokens
    BY <1>3, JoinedType DEF Unbroken
  <2>2. J(k) = WithToken(so, t)
    BY <1>3, JoinedOf
  <2>3. Cut(At(k), X) = CutStep(c, t, X)
    BY <1>3, <1>7, CutOf
  <2>4. so # <<>> /\ Last(so) \in EndInEquals => k - 1 # 0 /\ text[k - 1] \in EndInEquals
    BY <1>7
  <2>5. ASSUME NEW a \in Token
        PROVE  /\ Cut(Append(so, a), Separators) = CutStep(c, a, Separators)
               /\ Last(Append(so, a)) = a
    <3> HIDE DEF so
    <3>1. Len(so) \in Nat /\ Len(Append(so, a)) = Len(so) + 1 /\ Append(so, a)[Len(so) + 1] = a
      BY <2>1 DEF Tokens
    <3> QED BY <2>1, <3>1, CutOf DEF Last
  <2> HIDE DEF so, t, c, J
  <2>6. CASE t # "NL"
    <3>1. J(k) = Append(so, t)
      BY <2>2, <2>6 DEF WithToken
    <3>2. CutStep(c, t, Separators) = CutStep(c, t, X)
      BY <1>5, <2>6 DEF CutStep
    <3>3. Cut(J(k), Separators) = Cut(At(k), X)
      BY <2>1, <2>3, <2>5, <3>1, <3>2
    <3>4. Ends(k) => t \in EndInEquals
      BY <2>1, <2>5, <3>1
    <3> QED BY <2>0, <3>3, <3>4 DEF t
  <2>7. CASE t = "NL" /\ so = <<>>
    <3>1. J(k) = <<>>
      BY <2>2, <2>7 DEF WithToken
    <3>2. c = NoCut
      BY <2>7, CutOf DEF c
    <3>3. CutStep(c, t, X) = NoCut
      BY <1>5, <2>7, <3>2, CutAgain
    <3>4. Cut(J(k), Separators) = NoCut
      BY <3>1, CutOf
    <3> QED BY <2>3, <3>1, <3>3, <3>4
  <2>8. CASE t = "NL" /\ so # <<>>
    <3>1. Last(so) \notin EndInEquals
      BY <1>4, <2>4, <2>8 DEF t
    <3>2. J(k) = Append(so, ";")
      BY <2>2, <2>8, <3>1 DEF WithToken
    <3>3. CutStep(c, ";", Separators) = CutStep(c, t, X)
      BY <1>5, <2>8 DEF CutStep
    <3>4. Cut(J(k), Separators) = Cut(At(k), X) /\ ~Ends(k)
      BY <1>5, <2>3, <2>5, <3>2, <3>3
    <3> QED BY <3>4
  <2> QED BY <2>6, <2>7, <2>8
<1>8. n \in S
  <2> HIDE DEF Upto
  <2>1. 0 \in S /\ \A k \in 1 .. n : k - 1 \in S => k \in S
    BY <1>1, <1>6, <1>7
  <2> HIDE DEF S
  <2>2. \A k \in 0 .. n : k \in S
    BY <1>1, <2>1, Upwards
  <2> QED BY <1>1, <2>2
<1>9. Cut(Joined(text), Separators) = Cut(text, X)
  BY <1>2, <1>8
<1>10. Joined(text) \in Tokens
  BY JoinedType DEF Unbroken
<1> QED BY <1>9, <1>10, CutOf DEF X

\* A value without the white space before it is within its text.
LEMMA StrippedWithin ==
    ASSUME NEW text \in Tokens
    PROVE  \E e : Within(Stripped(text), Separators, text, Separators, e)
<1> DEFINE n == Len(text)
           words == {i \in DOMAIN text : text[i] # " "}
<1>1. Stripped(text) = IF words = {} THEN <<>> ELSE SubSeq(text, Min(words), n)
  BY DEF Stripped
<1>2. n \in Nat
  BY DEF Tokens
<1>2a. DOMAIN text = 1 .. n
  BY DEF Tokens
<1>2d. \A i \in 1 .. n : text[i] \in Token
  BY DEF Tokens
<1>2b. " " \in Separators
  BY DEF Separators
<1>3. \A k \in 1 .. n : k \notin words => text[k] \in Separators
  <2>1. \A k \in 1 .. n : k \notin words => text[k] = " "
    BY <1>2a
  <2> HIDE DEF words, n
  <2> QED BY <1>2b, <2>1, Zenon
<1>4. words \in SUBSET (1 .. n)
  BY <1>2a
<1> HIDE DEF words
<1>5. CASE words = {}
  <2> DEFINE no == <<>>
  <2>1. Len(no) = 0 /\ Stripped(text) = no
    BY <1>1, <1>5
  <2> HIDE DEF no, n
  <2>2. 0 \in 0 .. n /\ 0 + Len(no) <= n /\ \A j \in 1 .. Len(no) : FALSE
    BY <1>2, <2>1
  <2>3. \A k \in 1 .. n : text[k] \in Separators
    BY <1>3, <1>5
  <2>4. Within(no, Separators, text, Separators, 0)
    BY <2>2, <2>3 DEF Within, n
  <2> QED BY <2>1, <2>4
<1>6. CASE words # {}
  <2> DEFINE a == Min(words)
             b == n
             u == SubSeq(text, a, b)
             e == a - 1
             d == b - a + 1
  <2>1. a \in 1 .. n /\ b \in 1 .. n /\ \A y \in words : a <= y /\ y <= b
    <3>1. a \in words /\ \A y \in words : a <= y
      BY <1>2, <1>4, <1>6, MinMaxOf
    <3>2. \A y \in words : y \in Nat
      BY <1>2, <1>4
    <3> HIDE DEF a, n
    <3> QED BY <1>2, <1>4, <3>1, <3>2
  <2>2. a <= b
    <3>1. PICK y \in words : TRUE
      BY <1>6
    <3> HIDE DEF a, b, n
    <3> QED BY <1>2, <1>4, <2>1, <3>1
  <2>3. Stripped(text) = u
    BY <1>1, <1>6
  <2> HIDE DEF a, b, n
  <2>4. Len(u) = d /\ d \in Nat /\ \A j \in 1 .. d : u[j] = text[e + j]
    <3>1. \A i \in a .. b : text[i] \in Token
      <4>1. \A i \in a .. b : i \in 1 .. n
        BY <1>2, <2>1
      <4> QED BY <1>2d, <4>1, Zenon
    <3>2. a \in Int /\ b \in Int /\ d \in Nat
      BY <1>2, <2>1, <2>2
    <3>3. /\ Len(u) = d
          /\ \A j \in 1 .. d : u[j] = text[a + j - 1]
      BY <2>2, <3>1, <3>2, SubSeqProperties
    <3>4. \A j \in 1 .. d : a + j - 1 = e + j
      BY <3>2
    <3> HIDE DEF u, d, e
    <3> QED BY <3>2, <3>3, <3>4
  <2>5. e \in 0 .. n /\ e + d = b /\ e + d <= n
    BY <1>2, <2>1
  <2>6. \A k \in 1 .. n : ~(e < k /\ k <= e + d) => ~(a <= k /\ k <= b)
    BY <1>2, <2>1
  <2> HIDE DEF d, e, u
  <2>7. \A k \in 1 .. n : ~(e < k /\ k <= e + d) => text[k] \in Separators
    BY <1>3, <2>1, <2>6
  <2>8. Within(u, Separators, text, Separators, e)
    BY <2>4, <2>5, <2>7 DEF Within, n
  <2> QED BY <2>3, <2>8
<1> QED BY <1>5, <1>6

\* lr_key_file_get_string_list() drops an empty element only.
LEMMA ReadListIs ==
    ASSUME NEW text \in Tokens
    PROVE  NotEmpty(StringList(text)) = NotEmpty(Parts(text, Separators))
<1> DEFINE parts == Parts(text, Separators)
           f == Front(parts)
           l == Last(parts)
<1>1. parts \in TokenLists \ {<<>>}
  BY PartsOf
<1>2. f \in TokenLists /\ l \in Seq(Token) /\ parts = Append(f, l)
  BY <1>1, FrontLast
<1>3. NotEmpty(parts) = PickedStep(NotEmpty(f), l)
  <2> HIDE DEF parts, f, l
  <2> QED BY <1>2, NotEmptyOf
<1>4. CASE text = <<>>
  <2>1. StringList(text) = <<>>
    <3> DEFINE no == <<>>
    <3>1. Split(text, Separators) = no
      BY <1>4 DEF Split
    <3>2. Len(no) = 0
      OBVIOUS
    <3> HIDE DEF no
    <3>3. StringList(text) = no
      BY <3>1, <3>2 DEF StringList
    <3> QED BY <3>3 DEF no
  <2>2. parts = Append(<<>>, <<>>)
    BY <1>4, PartsOf DEF OnePart
  <2>3. <<>> \in TokenLists /\ <<>> \in Seq(Token)
    BY DEF TokenLists
  <2>4. NotEmpty(Append(<<>>, <<>>)) = PickedStep(NotEmpty(<<>>), <<>>)
    BY <2>3, NotEmptyOf
  <2>5. NotEmpty(parts) = NotEmpty(<<>>)
    BY <2>2, <2>4 DEF PickedStep
  <2> QED BY <2>1, <2>5
<1>5. CASE text # <<>>
  <2>1. Split(text, Separators) = parts
    BY <1>5 DEF Split
  <2>2. StringList(text) = IF Len(parts) > 1 /\ l = <<>> THEN f ELSE parts
    BY <2>1 DEF StringList
  <2> HIDE DEF parts, f, l
  <2>3. l = <<>> => NotEmpty(parts) = NotEmpty(f)
    BY <1>3 DEF PickedStep
  <2>4. NotEmpty(StringList(text)) = NotEmpty(parts)
    BY <2>2, <2>3
  <2> QED BY <2>4 DEF parts
<1> QED BY <1>4, <1>5

\* The elements of a list are those of the text, wherever its lines are broken.
LEMMA ListIsRead ==
    ASSUME NEW text \in Tokens, LinesApart(text)
    PROVE  NotEmpty(StringList(Stripped(Joined(text)))) = NotEmpty(Split(text, Separators \cup {"NL"}))
<1> DEFINE j == Joined(text)
           s == Stripped(j)
           X == Separators \cup {"NL"}
<1>1. j \in Tokens /\ s \in Tokens
  BY JoinedType, ReadIsKept DEF Unbroken, Kept
<1>2. NotEmpty(Parts(j, Separators)) = NotEmpty(Parts(text, X))
  BY JoinedWords
<1> HIDE DEF j
<1>3. \E e : Within(s, Separators, j, Separators, e)
  BY <1>1, StrippedWithin
<1> HIDE DEF s, X
<1>5. NotEmpty(Parts(s, Separators)) = NotEmpty(Parts(j, Separators))
  BY <1>1, <1>3, SameWords
<1>6. NotEmpty(StringList(s)) = NotEmpty(Parts(s, Separators))
  BY <1>1, ReadListIs
<1>7. NotEmpty(Parts(text, X)) = NotEmpty(Split(text, X))
  <2>1. CASE text = <<>>
    <3>1. Parts(text, X) = Append(<<>>, <<>>)
      BY <2>1, PartsOf DEF OnePart
    <3>2. <<>> \in TokenLists /\ <<>> \in Seq(Token)
      BY DEF TokenLists
    <3>3. NotEmpty(Append(<<>>, <<>>)) = PickedStep(NotEmpty(<<>>), <<>>)
      BY <3>2, NotEmptyOf
    <3> QED BY <2>1, <3>1, <3>3 DEF Split, PickedStep
  <2>2. CASE text # <<>>
    BY <2>2 DEF Split
  <2> QED BY <2>1, <2>2
<1> QED BY <1>2, <1>5, <1>6, <1>7 DEF s, j, X

\* A list in a file is read with all its elements and no others: wherever
\* lr_load_multiline_key_file() finds its lines broken, but after an element that ends in '=',
\* and whatever separators surround them.
THEOREM ListsInFilesAreRead == ConfSpec => []ListsAreRead
<1>1. ConfInv => ListsAreRead
  <2>1. SUFFICES ASSUME ConfInv, NEW p \in Paths, NEW id \in DOMAIN disk[p].groups,
                        NEW opt \in DOMAIN disk[p].groups[id], Kind[opt] = "list",
                        LinesApart(disk[p].groups[id][opt])
                 PROVE  NotEmpty(Get(Loaded(disk[p].groups), id, opt).value)
                           = NotEmpty(Split(disk[p].groups[id][opt], Separators \cup {"NL"}))
    BY DEF ListsAreRead
  <2> DEFINE g == disk[p].groups
             text == g[id][opt]
  <2>2. g \in Sections(Tokens)
    BY <2>1 DEF ConfInv, ConfTypeOK, Disks
  <2>3. text \in Tokens
    BY <2>2, SectionsOf
  <2>4. Loaded(g)[id][opt] = Stripped(Joined(text)) /\ id \in DOMAIN Loaded(g) /\ opt \in DOMAIN Loaded(g)[id]
    BY DEF Loaded
  <2>4a. LinesApart(text)
    BY <2>1
  <2> HIDE DEF text
  <2>5. Get(Loaded(g), id, opt) = ReadAs("list", Stripped(Joined(text)))
    BY <2>1, <2>4 DEF Get
  <2>6. ReadAs("list", Stripped(Joined(text))) = Is(StringList(Stripped(Joined(text))))
    BY DEF ReadAs
  <2>7. Get(Loaded(g), id, opt).value = StringList(Stripped(Joined(text)))
    BY <2>5, <2>6 DEF Is
  <2> QED BY <2>3, <2>4a, <2>7, ListIsRead DEF text
<1> QED BY <1>1, ConfInvariant, PTL
================================================================================
