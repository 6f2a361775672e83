---------------------------- MODULE MCFastestMirror ----------------------------
(* Instances of FastestMirror: two handles, which share a host; the first has    *)
(* two mirrors on one host and one in the file system.                           *)
EXTENDS FastestMirror

CONSTANTS a1, a2, b1, c1, local

TheHosts == [m \in Mirrors |-> CASE m \in {a1, a2} -> "a" [] m = b1 -> "b" [] m = c1 -> "c"
                                 [] m = local -> "file"]
TwoHandles == <<<<a1, b1, a2, local>>, <<c1, a2, b1>>>>
Times == {-1, 0, 2, 3, 5}
===============================================================================
