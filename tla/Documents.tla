------------------------------- MODULE Documents -------------------------------
(***************************************************************************)
(* lr_yum_repomd_parse_file() and lr_metalink_parse_file(): a document     *)
(* comes element by element from libxml2, well formed as far as it got,    *)
(* and the handlers build the LrYumRepoMd or the LrMetalink of it.  The    *)
(* callback for warnings may stop the parsing, the file may break off.     *)
(***************************************************************************)
EXTENDS Repomd, Metalink

CONSTANTS
    Formats,     \* {"repomd", "metalink"}
    Attributes,  \* [format -> [name of element -> values of its attribute]]
    WarningCb,   \* what the callback for warnings may return: "OK", "ABORT"
    Other,       \* a text that begins no number
    MaxElements, \* bound: [format -> elements]
    MaxStrange,  \* bound: elements out of their place
    MaxTexts     \* bound: [format -> pieces of text]

VARIABLES
    format,
    open,    \* the open elements: name, attribute, text, the state their path stands for
    counts,  \* elements, elements out of place, texts so far
    meant,   \* the document by the paths of its elements
    pd, ctx, doc,  \* parser data, its part of the format, the document that is built
    ret      \* "running" and the results: "ok", "interrupted", "notfound", "broken"

vars == <<format, open, counts, meant, pd, ctx, doc, ret>>

IsRepomd == format = "repomd"
Table == IF IsRepomd THEN RepomdSwitches ELSE MetalinkSwitches
New == IF IsRepomd THEN NewRepomd ELSE NewMetalink

Init ==
    /\ format \in Formats
    /\ open = <<>> /\ counts = [elements |-> 0, strange |-> 0, texts |-> 0]
    /\ pd = NewParser /\ ctx = IF IsRepomd THEN RepomdContext ELSE MetalinkContext
    /\ doc = New /\ meant = New /\ ret = "running"
-------------------------------------------------------------------------------
(* What a document means: the elements are told by their paths.            *)

Place(name) ==
    LET above == IF open = <<>> THEN "START" ELSE Last(open).place
        sws == SwitchesFor(Table, above, name)
    IN  IF sws = {} THEN "none" ELSE (CHOOSE sw \in sws : TRUE).to

\* The file element is the first one with the wanted name.
InFile == Len(open) >= 3 /\ open[3].place = "FILE" /\ open[3].wanted
FirstWanted(attr) == attr = Wanted /\ meant.filename = NoAttr

MeantByStart(place, attr) ==
    IF place = "none" THEN meant
    ELSE IF IsRepomd THEN RepomdStarted(meant, Len(meant.records), place, attr)
    ELSE IF InFile \/ (place = "FILE" /\ FirstWanted(attr)) THEN MetalinkStarted(meant, place, attr)
    ELSE meant

MeantByEnd ==
    LET e == Last(open) IN
    IF e.place = "none" THEN meant
    ELSE IF IsRepomd THEN RepomdEnded(meant, Len(meant.records), e.place, e.text, e.attr)
    ELSE IF InFile THEN MetalinkEnded(meant, e.place, e.text, e.attr # NoAttr)
    ELSE meant
-------------------------------------------------------------------------------
(* The handlers.                                                           *)

Acts(state) == IsRepomd \/ Reads(ctx, state)
StartWarns(state, attr) ==
    Acts(state) /\ IF IsRepomd THEN RepomdStartWarns(state, attr) ELSE MetalinkStartWarns(state, attr)
EndWarns(state) ==
    Acts(state) /\ IF IsRepomd THEN RepomdEndWarns(state, pd.content)
                               ELSE MetalinkEndWarns(state, pd.content)

\* A file element without a name is an error of its own.
Nameless(state, attr) == ~IsRepomd /\ state = "FILE" /\ attr = NoAttr

StartHandler(name, attr) ==
    LET moved == Opened(Table, pd, name)
        acts == Known(Table, pd, name) /\ Acts(moved.state)
        warns == Strange(Table, pd, name) \/ (acts /\ StartWarns(moved.state, attr))
    IN  /\ \E cb \in WarningCb : pd' = [moved EXCEPT !.err =
              (warns /\ cb # "OK") \/ (acts /\ Nameless(moved.state, attr))]
        /\ IF ~acts THEN UNCHANGED <<ctx, doc>>
           ELSE IF IsRepomd
           THEN /\ ctx' = RepomdOpens(ctx, doc, moved.state, attr)
                /\ doc' = RepomdStarted(doc, ctx.record, moved.state, attr)
           ELSE /\ ctx' = MetalinkOpens(ctx, moved.state, attr)
                /\ doc' = IF moved.state = "FILE" /\ (attr = NoAttr \/ Passes(ctx, attr)) THEN doc
                          ELSE MetalinkStarted(doc, moved.state, attr)

EndHandler ==
    LET acts == Leaves(pd) /\ Acts(pd.state)
    IN  /\ \E cb \in WarningCb : pd' =
              [Closed(Table, pd) EXCEPT !.err = acts /\ EndWarns(pd.state) /\ cb # "OK"]
        /\ IF ~acts THEN UNCHANGED <<ctx, doc>>
           ELSE IF IsRepomd
           THEN /\ ctx' = RepomdCloses(ctx, pd.state)
                /\ doc' = RepomdEnded(doc, ctx.record, pd.state, pd.content, ctx.cpeid)
           ELSE /\ ctx' = MetalinkCloses(ctx, pd.state)
                /\ doc' = MetalinkEnded(doc, pd.state, pd.content, ctx.hash)
-------------------------------------------------------------------------------
(* The document, and lr_xml_parser_generic().                              *)

\* Once there is an error the handlers do nothing for the rest of the chunk.
Running == ret = "running" /\ ~pd.err

Start(name, attr) ==
    /\ Running /\ counts.elements < MaxElements[format] /\ (open = <<>> => counts.elements = 0)
    /\ Place(name) # "none" \/ counts.strange < MaxStrange
    /\ counts' = [counts EXCEPT !.elements = @ + 1,
                                !.strange = IF Place(name) = "none" THEN @ + 1 ELSE @]
    /\ open' = Append(open, [name |-> name, attr |-> attr, text |-> <<>>, place |-> Place(name),
                             wanted |-> ~IsRepomd /\ FirstWanted(attr)])
    /\ meant' = MeantByStart(Place(name), attr)
    /\ StartHandler(name, attr)
    /\ UNCHANGED <<format, ret>>

\* The text of an element belongs to the elements around it, too.
Text(token) ==
    /\ Running /\ open # <<>> /\ counts.texts < MaxTexts[format]
    /\ counts' = [counts EXCEPT !.texts = @ + 1]
    /\ open' = [i \in DOMAIN open |-> [open[i] EXCEPT !.text = Append(@, token)]]
    /\ pd' = Read(pd, token)
    /\ UNCHANGED <<format, meant, ctx, doc, ret>>

End ==
    /\ Running /\ open # <<>>
    /\ open' = Front(open) /\ meant' = MeantByEnd
    /\ EndHandler
    /\ UNCHANGED <<format, counts, ret>>

\* The end of a chunk after the callback stopped the parsing, or of the document.
Interrupted ==
    /\ ret = "running" /\ pd.err /\ ret' = "interrupted"
    /\ UNCHANGED <<format, open, counts, meant, pd, ctx, doc>>
Finished ==
    /\ ret = "running" /\ open = <<>> /\ counts.elements > 0 /\ ~pd.err
    /\ ret' = IF ctx.found THEN "ok" ELSE "notfound"
    /\ UNCHANGED <<format, open, counts, meant, pd, ctx, doc>>
\* The file cannot be read further (LRE_IO) or is not well formed (LRE_XMLPARSER).
Broken ==
    /\ ret = "running" /\ ret' = "broken"
    /\ UNCHANGED <<format, open, counts, meant, pd, ctx, doc>>

Next ==
    \/ \E name \in DOMAIN Attributes[format] :
          \E attr \in Attributes[format][name] : Start(name, attr)
    \/ \E token \in {Digit, Other} : Text(token)
    \/ End \/ Interrupted \/ Finished \/ Broken

Spec == Init /\ [][Next]_vars
-------------------------------------------------------------------------------
(* Properties                                                              *)

\* As long as nobody stopped the parsing, what was built is what the paths of the elements
\* say, however unknown elements are nested in known ones and known in unknown ones, and
\* whichever files, hashes without a type and repeated elements there are.
ParsedIsMeant == ~pd.err => doc = meant

\* No document makes an assertion of a handler fail: an object the handlers are in the
\* middle of is there when they write to it, and none is left over when the next begins.
AssertionsHold ==
    Running =>
    /\ \A sw \in Table : sw.from = pd.state /\ pd.depth = pd.statedepth /\ Acts(sw.to) =>
          IF IsRepomd THEN RepomdStartAsserts(ctx, sw.to) ELSE MetalinkStartAsserts(ctx, sw.to)
    /\ Leaves(pd) /\ Acts(pd.state) =>
          IF IsRepomd THEN RepomdEndAsserts(ctx, pd.state) ELSE MetalinkEndAsserts(ctx, pd.state)
===============================================================================
