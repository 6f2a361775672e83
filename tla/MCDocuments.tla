------------------------------ MODULE MCDocuments ------------------------------
(* Instances of Documents: one unknown element, attributes present and missing. *)
EXTENDS Documents

TheSizes == [repomd |-> 4, metalink |-> 7]
TheTexts == [repomd |-> 2, metalink |-> 1]

TheAttributes ==
    [repomd |->
        [n \in {"repomd", "tags", "timestamp", "revision", "unknown"} |-> {NoAttr}]
        @@ ("repoid" :> {"a"})
        @@ ("distro" :> {NoAttr, "cpe"}) @@ ("data" :> {NoAttr, "primary"})
        @@ ("location" :> {NoAttr, "href"}) @@ ("checksum" :> {NoAttr, "sha256"}),
     metalink |->
        [n \in {"metalink", "files", "size", "verification", "mm0:alternates",
                "mm0:alternate", "resources"} |-> {NoAttr}]
        @@ ("file" :> {NoAttr, "repomd.xml", "other"}) @@ ("hash" :> {NoAttr, "sha256"})
        @@ ("url" :> {"99", "200"})]
===============================================================================
