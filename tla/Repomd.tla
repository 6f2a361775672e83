-------------------------------- MODULE Repomd --------------------------------
(***************************************************************************)
(* The handlers of repomd.c: what an element does to the LrYumRepoMd.  An  *)
(* element is given with the one attribute the parser asks for ("type",    *)
(* "href" or "cpeid"); xml:base of a location goes the way href goes.      *)
(*                                                                         *)
(* The context holds pd->repomdrecord, as a position in the list of        *)
(* records or 0, pd->cpeid and pd->repomdfound.                            *)
(***************************************************************************)
EXTENDS XmlParser, TLC

Sums == {"CHECKSUM", "OPENCHECKSUM", "HEADERCHECKSUM"}
Numbers == {"TIMESTAMP", "SIZE", "OPENSIZE", "HEADERSIZE", "DBVERSION"}
Tags == {"REPO", "CONTENT", "DISTRO"}

RepomdSwitches ==
    { Switch("START",  "repomd",           "REPOMD",         FALSE),
      Switch("REPOMD", "revision",         "REVISION",       TRUE),
      Switch("REPOMD", "repoid",           "REPOID",         TRUE),
      Switch("REPOMD", "tags",             "TAGS",           FALSE),
      Switch("REPOMD", "data",             "DATA",           FALSE),
      Switch("TAGS",   "repo",             "REPO",           TRUE),
      Switch("TAGS",   "content",          "CONTENT",        TRUE),
      Switch("TAGS",   "distro",           "DISTRO",         TRUE),
      Switch("DATA",   "location",         "LOCATION",       FALSE),
      Switch("DATA",   "checksum",         "CHECKSUM",       TRUE),
      Switch("DATA",   "open-checksum",    "OPENCHECKSUM",   TRUE),
      Switch("DATA",   "header-checksum",  "HEADERCHECKSUM", TRUE),
      Switch("DATA",   "timestamp",        "TIMESTAMP",      TRUE),
      Switch("DATA",   "size",             "SIZE",           TRUE),
      Switch("DATA",   "open-size",        "OPENSIZE",       TRUE),
      Switch("DATA",   "header-size",      "HEADERSIZE",     TRUE),
      Switch("DATA",   "database_version", "DBVERSION",      TRUE) }

NewRepomd == [records |-> <<>>, fields |-> <<>>, tags |-> <<>>]
NewRecord(type) == [type |-> type, attrs |-> <<>>, fields |-> <<>>]
RepomdContext == [record |-> 0, cpeid |-> NoAttr, found |-> FALSE]

RecordType(attr) == IF attr = NoAttr THEN "unknown" ELSE attr

\* What the start of an element with a state of its own does to the document, r being
\* the record it writes to; an attribute that is missing leaves what was there.
RepomdStarted(doc, r, state, attr) ==
    CASE state = "DATA" -> [doc EXCEPT !.records = Append(@, NewRecord(RecordType(attr)))]
      [] state \in Sums \cup {"LOCATION"} /\ attr # NoAttr ->
            [doc EXCEPT !.records[r].attrs = (state :> attr) @@ @]
      [] state = "REPOID" /\ attr # NoAttr ->
            [doc EXCEPT !.fields = ("REPOIDTYPE" :> attr) @@ @]
      [] OTHER -> doc

\* What its end does, with the text that was read and the cpeid that is kept.
RepomdEnded(doc, r, state, text, cpeid) ==
    CASE state \in Sums -> [doc EXCEPT !.records[r].fields = (state :> text) @@ @]
      [] state \in Numbers -> [doc EXCEPT !.records[r].fields = (state :> Number(text)) @@ @]
      [] state = "REPOID" \/ (state = "REVISION" /\ text # <<>>) ->
            [doc EXCEPT !.fields = (state :> text) @@ @]
      [] state \in Tags -> [doc EXCEPT !.tags =
            Append(@, [kind |-> state, text |-> text,
                       cpeid |-> IF state = "DISTRO" THEN cpeid ELSE NoAttr])]
      [] OTHER -> doc

RepomdOpens(ctx, doc, state, attr) ==
    CASE state = "REPOMD" -> [ctx EXCEPT !.found = TRUE]
      [] state = "DATA" -> [ctx EXCEPT !.record = Len(doc.records) + 1]
      [] state = "DISTRO" /\ attr # NoAttr -> [ctx EXCEPT !.cpeid = attr]
      [] OTHER -> ctx

RepomdCloses(ctx, state) ==
    CASE state = "DATA" -> [ctx EXCEPT !.record = 0]
      [] state = "DISTRO" -> [ctx EXCEPT !.cpeid = NoAttr]
      [] OTHER -> ctx

RepomdStartWarns(state, attr) ==
    state \in Sums \cup {"LOCATION", "DATA"} /\ attr = NoAttr
RepomdEndWarns(state, text) ==
    \/ state = "REVISION" /\ text = <<>>
    \/ state \in Numbers /\ BadNumber(text)

\* The assertions of the handlers.
RepomdStartAsserts(ctx, state) ==
    /\ state \in {"REPOID", "DISTRO", "DATA"} => ctx.record = 0
    /\ state \in Sums \cup {"LOCATION"} => ctx.record # 0
RepomdEndAsserts(ctx, state) ==
    /\ state \in {"REVISION", "REPOID"} \cup Tags => ctx.record = 0
    /\ state \in Sums \cup Numbers \cup {"DATA"} => ctx.record # 0
===============================================================================
