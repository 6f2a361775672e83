------------------------------- MODULE MCYumRepo -------------------------------
(* Instances of YumRepo: three versions, the second without a zchunk version of  *)
(* the primary records, the third unknown to the metalink; a record without      *)
(* checksum and one with an unknown one.                                         *)
EXTENDS YumRepo

TheRecordsOf == <<{"primary", "primary_zck", "group"},
                  {"primary", "group", "updateinfo"},
                  {"primary", "primary_zck", "group", "other"}>>

Options(local, gpg, ignore, cachedir, dlist, blist, slist) ==
    [local |-> local, update |-> FALSE, checksum |-> TRUE,
     gpg |-> gpg, ignoremissing |-> ignore, cachedir |-> cachedir,
     yumdlist |-> dlist, yumblist |-> blist, yumslist |-> slist]
NoSubstitution == [t \in {} |-> "primary"]
OptionSets ==
    {Options(FALSE, TRUE, FALSE, FALSE, NULL, {"primary_zck"}, NoSubstitution),
     [Options(FALSE, FALSE, FALSE, FALSE, {"group"}, {}, NoSubstitution) EXCEPT !.checksum = FALSE],
     Options(FALSE, FALSE, FALSE, TRUE, {"primary"}, {}, NoSubstitution),
     Options(TRUE, TRUE, FALSE, FALSE, NULL, {"primary_zck"}, NoSubstitution),
     Options(TRUE, FALSE, TRUE, TRUE, {"primary", "group_gz"}, {}, [t \in {"group"} |-> "group_gz"])}
===============================================================================
