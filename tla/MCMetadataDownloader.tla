-------------------------- MODULE MCMetadataDownloader -------------------------
(* Instances of MetadataDownloader.                                        *)
EXTENDS MetadataDownloader

Config(lists, urls, offline, fetch) ==
    [lists |-> lists, urls |-> urls, offline |-> offline, fetchmirrors |-> fetch]
TheConfigs == {Config({"metalink"}, FALSE, FALSE, FALSE),
               Config({"metalink", "mirrorlist"}, TRUE, FALSE, FALSE),
               Config({"mirrorlist"}, FALSE, TRUE, TRUE)}
HandlesAlike == Permutations(Handles)
===============================================================================
