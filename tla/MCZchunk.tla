-------------------------------- MODULE MCZchunk --------------------------------
(* Instances of Zchunk.                                                          *)
EXTENDS Zchunk

CONSTANTS m1, m2, m3

TwoHttp == [m \in Mirrors |-> IF m = m3 THEN "file" ELSE "http"]
\* The first mirror takes one range, the second two; the third is local.
Ranged == [m \in Mirrors |-> IF m = m1 THEN 1 ELSE IF m = m2 THEN 2 ELSE 0]
\* The first mirror does not know ranges.
FirstUnranged == [m \in Mirrors |-> IF m = m2 THEN 2 ELSE 0]

RemoteOrLocal == {{m1, m2}, {m3}}
Remote == {{m1, m2}}

Holding(header, S) == WithChunks([Empty EXCEPT !.header = header], S, "good")
SomeFiles == {Empty, Holding("good", {1, 4}), Holding("bad", {})}
SomeCaches == {[header |-> FALSE, chunks |-> {}], [header |-> FALSE, chunks |-> {3}],
               [header |-> TRUE, chunks |-> {2}]}
NoFiles == {Empty}
NoCaches == {[header |-> FALSE, chunks |-> {}]}
===============================================================================
