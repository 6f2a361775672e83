----------------------------- MODULE MCDownloader -----------------------------
(* Instances of Downloader for TLC.                                         *)
EXTENDS Downloader

CONSTANTS h1, h2, m1, m2

\* Three targets of one handle compete for two mirrors.
AllMirrors == [t \in Targets |-> "mirrors"]
OneHandle == [t \in Targets |-> h1]
TwoMirrors == [h \in Handles |-> IF h = h1 THEN <<m1, m2>> ELSE <<>>]
AllHttp == [m \in Mirrors |-> "http"]

\* Two targets relative to a list whose first mirror is local, which may share that
\* mirror, a complete URL of a local file, a remote base URL with an offline handle, and
\* a target whose handle has an empty list.
MixedHandles == <<h1, h1, h1, h2, h2>>
MixedKinds == <<"mirrors", "mirrors", "file_url", "remote_url", "mirrors">>
FirstIsFile == [m \in Mirrors |-> IF m = m1 THEN "file" ELSE "http"]
===============================================================================
