------------------------------- MODULE Metalink -------------------------------
(***************************************************************************)
(* The handlers of metalink.c: what an element does to the LrMetalink.  An *)
(* element is given with the one attribute that decides something: "name"  *)
(* of a file, "type" of a hash, "preference" of a url.                     *)
(*                                                                         *)
(* The context holds pd->ignore, pd->found and the objects the parser is   *)
(* in the middle of: metalinkurl, metalinkhash and metalinkalternate.      *)
(***************************************************************************)
EXTENDS XmlParser

CONSTANT Wanted  \* the name of the file that is looked for

ASSUME WantedAssumption == Wanted # NoAttr  \* it is a name

MetalinkSwitches ==
    { Switch("START",        "metalink",       "METALINK",               FALSE),
      Switch("METALINK",     "files",          "FILES",                  FALSE),
      Switch("FILES",        "file",           "FILE",                   FALSE),
      Switch("FILE",         "mm0:timestamp",  "TIMESTAMP",              TRUE),
      Switch("FILE",         "size",           "SIZE",                   TRUE),
      Switch("FILE",         "verification",   "VERIFICATION",           FALSE),
      Switch("FILE",         "mm0:alternates", "ALTERNATES",             FALSE),
      Switch("FILE",         "resources",      "RESOURCES",              FALSE),
      Switch("VERIFICATION", "hash",           "HASH",                   TRUE),
      Switch("ALTERNATES",   "mm0:alternate",  "ALTERNATE",              FALSE),
      Switch("ALTERNATE",    "mm0:timestamp",  "ALTERNATE_TIMESTAMP",    TRUE),
      Switch("ALTERNATE",    "size",           "ALTERNATE_SIZE",         TRUE),
      Switch("ALTERNATE",    "verification",   "ALTERNATE_VERIFICATION", FALSE),
      Switch("ALTERNATE_VERIFICATION", "hash", "ALTERNATE_HASH",         TRUE),
      Switch("RESOURCES",    "url",            "URL",                    TRUE) }

NewMetalink == [filename |-> NoAttr, timestamp |-> <<>>, size |-> <<>>,
                hashes |-> <<>>, urls |-> <<>>, alternates |-> <<>>]
NewAlternate == [timestamp |-> <<>>, size |-> <<>>, hashes |-> <<>>]
MetalinkContext == [ignore |-> TRUE, found |-> FALSE,
                    url |-> FALSE, hash |-> FALSE, alternate |-> FALSE]

\* A preference that is no number or not in 0-100 counts as 0.
Preference(attr) == IF attr \in {NoAttr, "nan", "200"} THEN "0" ELSE attr

\* What the start of an element of the file does to the document.
MetalinkStarted(doc, state, attr) ==
    CASE state = "FILE" -> [doc EXCEPT !.filename = attr]
      [] state = "ALTERNATE" -> [doc EXCEPT !.alternates = Append(@, NewAlternate)]
      [] state = "HASH" /\ attr # NoAttr ->
            [doc EXCEPT !.hashes = Append(@, [type |-> attr, value |-> <<>>])]
      [] state = "ALTERNATE_HASH" /\ attr # NoAttr ->
            [doc EXCEPT !.alternates[Len(doc.alternates)].hashes =
                Append(@, [type |-> attr, value |-> <<>>])]
      [] state = "URL" ->
            [doc EXCEPT !.urls = Append(@, [preference |-> Preference(attr), url |-> <<>>])]
      [] OTHER -> doc

\* What its end does; the value of a hash goes to the one that was begun last.
MetalinkEnded(doc, state, text, hash) ==
    LET a == Len(doc.alternates) IN
    CASE state = "TIMESTAMP" -> [doc EXCEPT !.timestamp = Number(text)]
      [] state = "SIZE" -> [doc EXCEPT !.size = Number(text)]
      [] state = "ALTERNATE_TIMESTAMP" -> [doc EXCEPT !.alternates[a].timestamp = Number(text)]
      [] state = "ALTERNATE_SIZE" -> [doc EXCEPT !.alternates[a].size = Number(text)]
      [] state = "HASH" /\ hash -> [doc EXCEPT !.hashes[Len(doc.hashes)].value = text]
      [] state = "ALTERNATE_HASH" /\ hash ->
            [doc EXCEPT !.alternates[a].hashes[Len(doc.alternates[a].hashes)].value = text]
      [] state = "URL" -> [doc EXCEPT !.urls[Len(doc.urls)].url = text]
      [] OTHER -> doc

\* Whether a file element is passed over.
Passes(ctx, attr) == ctx.found \/ attr # Wanted

\* Whether the handler acts on an element: all of a file that is passed over is ignored.
Reads(ctx, state) == state = "FILE" \/ ~ctx.ignore

MetalinkOpens(ctx, state, attr) ==
    CASE state = "FILE" /\ attr = NoAttr -> ctx
      [] state = "FILE" /\ attr # NoAttr ->
            IF Passes(ctx, attr) THEN [ctx EXCEPT !.ignore = TRUE]
            ELSE [ctx EXCEPT !.ignore = FALSE, !.found = TRUE]
      [] state = "ALTERNATE" -> [ctx EXCEPT !.alternate = TRUE]
      [] state \in {"HASH", "ALTERNATE_HASH"} -> [ctx EXCEPT !.hash = @ \/ attr # NoAttr]
      [] state = "URL" -> [ctx EXCEPT !.url = TRUE]
      [] OTHER -> ctx

\* Mutant: the hash of an alternate is not let go.
MetalinkClosesKeeping(ctx, state) ==
    CASE state = "ALTERNATE" -> [ctx EXCEPT !.alternate = FALSE]
      [] state = "HASH" -> [ctx EXCEPT !.hash = FALSE]
      [] state = "URL" -> [ctx EXCEPT !.url = FALSE]
      [] OTHER -> ctx
MetalinkCloses(ctx, state) ==
    CASE state = "ALTERNATE" -> [ctx EXCEPT !.alternate = FALSE]
      [] state \in {"HASH", "ALTERNATE_HASH"} -> [ctx EXCEPT !.hash = FALSE]
      [] state = "URL" -> [ctx EXCEPT !.url = FALSE]
      [] OTHER -> ctx

MetalinkStartWarns(state, attr) ==
    \/ state \in {"HASH", "ALTERNATE_HASH"} /\ attr = NoAttr
    \/ state = "URL" /\ attr \in {"nan", "200"}
MetalinkEndWarns(state, text) ==
    state \in {"TIMESTAMP", "SIZE", "ALTERNATE_TIMESTAMP", "ALTERNATE_SIZE"} /\ BadNumber(text)

\* The assertions of the handlers.
MetalinkStartAsserts(ctx, state) ==
    /\ state \in {"FILE", "ALTERNATE", "HASH", "ALTERNATE_HASH", "URL"} => ~ctx.url /\ ~ctx.hash
    /\ state \in {"ALTERNATE", "HASH"} => ~ctx.alternate
    /\ state = "ALTERNATE_HASH" => ctx.alternate
MetalinkEndAsserts(ctx, state) ==
    /\ state \in {"TIMESTAMP", "SIZE", "ALTERNATE_TIMESTAMP", "ALTERNATE_SIZE", "URL"} => ~ctx.hash
    /\ state \in {"TIMESTAMP", "SIZE", "HASH", "ALTERNATE_TIMESTAMP", "ALTERNATE_SIZE",
                  "ALTERNATE_HASH"} => ~ctx.url
    /\ state \in {"ALTERNATE", "ALTERNATE_TIMESTAMP", "ALTERNATE_SIZE", "ALTERNATE_HASH"}
          => ctx.alternate
    /\ state = "URL" => ctx.url
===============================================================================
