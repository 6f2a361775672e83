-------------------------- MODULE MCPackageDownloader --------------------------
(* Instances of PackageDownloader and of Handle, which it extends.         *)
EXTENDS PackageDownloader

\* A local repository with both lists, and a remote one beside a path that is gone.
TheUrlLists == {<<"repo">>, <<"http", "gone">>}
TheLocalUrls == {"repo", "gone"}
TheLocalLists == [u \in TheLocalUrls |-> IF u = "repo" THEN {"mirrorlist", "metalink"} ELSE {}]

Kind(r, c, s) == [resume |-> r, checksum |-> c, sized |-> s]
Kinds == {Kind(TRUE, TRUE, TRUE)}
===============================================================================
