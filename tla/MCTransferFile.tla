---------------------------- MODULE MCTransferFile ----------------------------
(* Instances of TransferFile for TLC.                                       *)
EXTENDS TransferFile

Request(byname, res, checked, start, end) ==
    [byname |-> byname, resume |-> res, checked |-> checked, start |-> start, end |-> end]

Ours(d) == [exists |-> TRUE, data |-> d, mark |-> TRUE]
Theirs(d) == [exists |-> TRUE, data |-> d, mark |-> FALSE]
Part(n) == [i \in 1 .. n |-> i]
Other(n) == [i \in 1 .. n |-> Foreign]

CasesOf(requests, files) == [request : requests, file : files]

\* What librepo is used for: files downloaded again, resumed files with and without
\* a checksum, byte ranges, and descriptors of new files.
UsualCases ==
    CasesOf({Request(TRUE, FALSE, c, 0, 0) : c \in BOOLEAN},
            {NoFile, Ours(Part(2)), Theirs(Other(Size + 1))})
    \cup CasesOf({Request(TRUE, TRUE, c, 0, 0) : c \in BOOLEAN},
                 {NoFile, Theirs(<<>>), Ours(Part(2)), Ours(Part(Size))})
    \cup CasesOf({Request(TRUE, FALSE, FALSE, s, e) : s \in 0 .. 1, e \in {0, 2, Size + 1}},
                 {NoFile, Theirs(Other(1))})
    \cup CasesOf({Request(FALSE, FALSE, c, 0, 0) : c \in BOOLEAN}, {Theirs(<<>>)})

\* A file of another origin where a download should be resumed.
ForeignCases == CasesOf({Request(TRUE, TRUE, FALSE, 0, 0)}, {Theirs(Other(2))})

ASSUME UsualCasesAreUsual == \A c \in UsualCases : UsualCase(c)
===============================================================================
