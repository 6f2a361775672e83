------------------------------- MODULE XmlParser -------------------------------
(***************************************************************************)
(* The parser that repomd.c and metalink.c share (xmlparser.c and the head *)
(* of their handlers): a machine whose state changes with the elements     *)
(* that a table of switches knows, and which counts the depth of the open  *)
(* elements to find its way back from those it does not know.              *)
(*                                                                         *)
(* A text is a sequence of tokens; Digit is the one that begins a number.  *)
(***************************************************************************)
EXTENDS Integers, Sequences, SequencesExt

CONSTANTS Digit, MaxDigits  \* bound: a number of more digits does not fit 64 bits

ASSUME XmlParserAssumption == MaxDigits \in Nat \ {0}

NoAttr == "none"
NewParser == [state |-> "START", depth |-> 0, statedepth |-> 0, docontent |-> FALSE,
              content |-> <<>>, err |-> FALSE]

Switch(from, name, to, text) == [from |-> from, name |-> name, to |-> to, text |-> text]
SwitchesFor(table, state, name) == {sw \in table : sw.from = state /\ sw.name = name}

\* Mutant: the depth is not looked at, so an element inside an unknown one is recognised.
KnownAnywhere(table, pd, name) == SwitchesFor(table, pd.state, name) # {}
Known(table, pd, name) ==
    pd.depth = pd.statedepth /\ SwitchesFor(table, pd.state, name) # {}

\* An element is unknown with a warning only where others are known.
Strange(table, pd, name) ==
    /\ pd.depth = pd.statedepth /\ ~Known(table, pd, name)
    /\ \E sw \in table : sw.from = pd.state

Opened(table, pd, name) ==
    IF ~Known(table, pd, name) THEN [pd EXCEPT !.depth = @ + 1]
    ELSE LET sw == CHOOSE sw \in SwitchesFor(table, pd.state, name) : TRUE
         IN  [pd EXCEPT !.state = sw.to, !.docontent = sw.text, !.depth = @ + 1,
                        !.statedepth = pd.depth + 1, !.content = <<>>]

\* Whether the element that ends is the one the state stands for.
Leaves(pd) == pd.depth = pd.statedepth

Closed(table, pd) ==
    IF ~Leaves(pd) THEN [pd EXCEPT !.depth = @ - 1]
    ELSE [pd EXCEPT !.depth = @ - 1, !.statedepth = @ - 1, !.docontent = FALSE,
                    !.state = (CHOOSE sw \in table : sw.to = pd.state).from]

\* lr_char_handler(): inside the unknown elements of one with text, too.
Read(pd, token) ==
    IF pd.err \/ ~pd.docontent THEN pd ELSE [pd EXCEPT !.content = Append(@, token)]

\* lr_xml_parser_strtoll(): what follows the digits is not looked at.
Digits(text) ==
    LET n == SelectInSeq(text, LAMBDA t : t # Digit)
    IN  IF n = 0 THEN text ELSE SubSeq(text, 1, n - 1)
Number(text) == IF Len(Digits(text)) > MaxDigits THEN <<"max">> ELSE Digits(text)
BadNumber(text) == Len(Digits(text)) > MaxDigits \/ (Digits(text) = <<>> /\ text # <<>>)
===============================================================================
