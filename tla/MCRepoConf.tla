------------------------------- MODULE MCRepoConf -------------------------------
(* Instances of RepoConf: an option of each kind that is told from the others. *)
EXTENDS RepoConf

TheKinds == ("baseurl" :> "list") @@ ("enabled" :> "boolean") @@ ("metadata_expire" :> "interval")
TheNumerals == ("2" :> 2) @@ ("120" :> 120)
TheSettings ==
    ("baseurl" :> {Is(<<>>), Is(<<<<"a">>, <<>>>>)})
    @@ ("enabled" :> {Is(FALSE)}) @@ ("metadata_expire" :> {Is(120)})
TheTexts ==
    ("baseurl" :> {<<"a", ";", "NL", "b">>, <<" ", "NL", "a">>, <<"NL", "a", "NL", "b">>,
                   <<"NL", "u=", ";", "NL", "b">>, <<"u=", "NL", "b">>})
    @@ ("enabled" :> {}) @@ ("metadata_expire" :> {<<"2", "m">>})
===============================================================================
