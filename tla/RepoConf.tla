-------------------------------- MODULE RepoConf --------------------------------
(***************************************************************************)
(* The .repo files of repoconf.c: files are loaded into key files, options *)
(* of their repositories are set and read, and what was modified is saved, *)
(* while other programs edit the files.                                    *)
(*                                                                         *)
(* The text of a value is a sequence of tokens: words, the separators ";"  *)
(* (the comma is the same) and " " (a blank; a tab within a value becomes  *)
(* one, repoconf.c:188), and "NL", the end of a line that is continued by  *)
(* the next and the white space that the next begins with.                 *)
(***************************************************************************)
EXTENDS Integers, Sequences, SequencesExt, FiniteSets, TLC

CONSTANTS
    Paths, Ids,
    Token,     \* words, separators, "NL"
    EndInEquals, \* words whose last character is '='
    Kind,      \* [options -> "string", "list", "boolean", "interval", "bandwidth", "ip_resolve"]
    Numeral,   \* [words that are numbers -> Int]
    Settings,  \* [options -> values a caller sets], NotSet for NULL
    FileTexts, \* [options -> texts found in files]
    MaxFiles, MaxSets, MaxEdits  \* bounds: loaded files, calls of setopt, edits by others

Separators == {";", " "}
Tokens == Seq(Token)
Unset == [ok |-> FALSE, value |-> "unset"]
BadValue == [ok |-> FALSE, value |-> "bad"]
Same(a, b) == a.ok = b.ok /\ (a.ok => a.value = b.value)
Is(v) == [ok |-> TRUE, value |-> v]

\* What a caller may set so that it can be read: strings without line ends, tabs or
\* white space before them, which the key file would escape; elements of a list without separators; whole
\* numbers that a double holds, for that is what numbers are read as.
Settable(kind, v) ==
    /\ kind = "list" => v \in Seq(Seq(Token \ (Separators \cup {"NL"})))
    /\ kind = "boolean" => v \in BOOLEAN
    /\ kind \in {"interval", "bandwidth"} => \E w \in DOMAIN Numeral : Numeral[w] = v
    /\ kind = "bandwidth" => v >= 0
    /\ kind = "ip_resolve" => v \in {<<"ipv4">>, <<"ipv6">>, <<"whatever">>}
    /\ kind \notin {"list", "boolean", "interval", "bandwidth", "ip_resolve"} =>
         v \in Seq(Token \ {"NL"}) /\ (v # <<>> => v[1] # " ")

ASSUME ConfAssumption ==
    /\ IsFiniteSet(Paths) /\ IsFiniteSet(Ids)
    /\ {";", " ", "NL", "true", "false", "ipv4", "ipv6", "whatever"} \subseteq Token
    /\ DOMAIN Numeral \cup EndInEquals \subseteq Token \ (Separators \cup {"NL"})
    /\ \A w \in DOMAIN Numeral : Numeral[w] \in Int
    /\ \A opt \in DOMAIN Kind : /\ \A v \in Settings[opt] :
                                       v.ok \in BOOLEAN /\ (v.ok => Settable(Kind[opt], v.value))
                               /\ FileTexts[opt] \subseteq Tokens
                               /\ \A text \in FileTexts[opt] : \A i \in 1 .. Len(text) - 1 :
                                    text[i] = "NL" => text[i + 1] # " "

VARIABLES
    disk,    \* the files: "none", "bad" (no key file), "good"; sections, options, texts
    files,   \* the LrYumRepoFiles: path, key file, modified
    repos,   \* the LrYumRepoConfs: index of the file, id
    result,     \* of the last call
    given,   \* what was set last, for each path, id and option, and neither dropped nor edited
    sets, edits

confVars == <<disk, files, repos, result, given, sets, edits>>

\* The function f with y at x.
Put(f, x, y) == [k \in {x} \cup DOMAIN f |-> IF k = x THEN y ELSE f[k]]

NoFile == [state |-> "none", groups |-> <<>>]
Good(groups) == [state |-> "good", groups |-> groups]
-------------------------------------------------------------------------------
(* Reading a key file.                                                     *)

\* Mutant: the lines are put together without a separator.
JoinedPlain(text) == SelectSeq(text, LAMBDA t : t # "NL")
\* lr_load_multiline_key_file(): a line that begins with white space is appended to what was
\* read so far, after a ';' unless that ends in '=', be it the one behind the key or another.
WithToken(sofar, t) ==
    IF t # "NL" THEN Append(sofar, t)
    ELSE IF sofar = <<>> \/ Last(sofar) \in EndInEquals THEN sofar
    ELSE Append(sofar, ";")
Joined(text) == FoldLeft(WithToken, <<>>, text)

\* The key file does without the white space before a value.
Stripped(text) ==
    LET words == {i \in DOMAIN text : text[i] # " "}
    IN  IF words = {} THEN <<>> ELSE SubSeq(text, Min(words), Len(text))

Loaded(groups) == [id \in DOMAIN groups |->
                     [opt \in DOMAIN groups[id] |-> Stripped(Joined(groups[id][opt]))]]

\* The parts between the tokens of seps.
Parts(text, seps) ==
    FoldLeft(LAMBDA parts, t : IF t \in seps THEN Append(parts, <<>>)
                               ELSE [parts EXCEPT ![Len(parts)] = Append(@, t)],
             << <<>> >>, text)
\* g_strsplit_set(): there are none in an empty text.
Split(text, seps) == IF text = <<>> THEN <<>> ELSE Parts(text, seps)

\* lr_key_file_get_string_list(): an empty part at the end is dropped, one only.
StringList(text) ==
    LET parts == Split(text, Separators)
    IN  IF Len(parts) > 1 /\ Last(parts) = <<>> THEN Front(parts) ELSE parts

\* A number and at most one letter for its unit, of which mult knows the factors.
Scaled(text, mult) ==
    IF text = <<>> \/ text[1] \notin DOMAIN Numeral THEN BadValue
    ELSE IF Len(text) = 1 THEN Is(Numeral[text[1]])
    ELSE IF Len(text) = 2 /\ text[2] \in DOMAIN mult THEN Is(Numeral[text[1]] * mult[text[2]])
    ELSE BadValue

Interval(text) == Scaled(text, "s" :> 1 @@ "m" :> 60 @@ "h" :> 3600 @@ "d" :> 86400)
Bandwidth(text) ==
    LET v == Scaled(text, "k" :> 1024 @@ "m" :> 1048576 @@ "g" :> 1073741824)
    IN  IF v.ok /\ v.value < 0 THEN BadValue ELSE v

\* What lr_yum_repoconf_getinfo() makes of the text of an option.
ReadAs(kind, text) ==
    CASE kind = "list" -> Is(StringList(text))
      [] kind = "boolean" -> Is(text \in {<<"1">>, <<"yes">>, <<"true">>})
      [] kind = "interval" -> Interval(text)
      [] kind = "bandwidth" -> Bandwidth(text)
      [] kind = "ip_resolve" -> IF text \in {<<"ipv4">>, <<"ipv6">>, <<"whatever">>} THEN Is(text)
                                ELSE BadValue
      [] OTHER -> Is(text)

Get(groups, id, opt) ==
    IF id \in DOMAIN groups /\ opt \in DOMAIN groups[id] THEN ReadAs(Kind[opt], groups[id][opt])
    ELSE Unset

WrittenList(list) == FoldLeft(LAMBDA text, e : text \o e \o <<";">>, <<>>, list)

\* The text that lr_yum_repoconf_setopt() gives an option.
WrittenAs(kind, v) ==
    CASE kind = "list" -> WrittenList(v)
      [] kind = "boolean" -> IF v THEN <<"true">> ELSE <<"false">>
      [] kind \in {"interval", "bandwidth"} -> <<CHOOSE w \in DOMAIN Numeral : Numeral[w] = v>>
      [] OTHER -> v
-------------------------------------------------------------------------------
(* Loading.                                                                *)

Objects(p) == {i \in DOMAIN files : files[i].path = p}
Without(p) == [k \in {k \in DOMAIN given : k[1] # p} |-> given[k]]

\* The repositories of a file come in the order of its groups, some order here.
Added(conf, path, groups, ids, modified) ==
    [files |-> Append(conf.files, [path |-> path, groups |-> groups, modified |-> modified]),
     repos |-> conf.repos \o [i \in DOMAIN ids |-> [file |-> Len(conf.files) + 1, id |-> ids[i]]],
     ok |-> TRUE]

\* lr_yum_repoconfs_parse()
ParsedInto(conf, p) ==
    IF disk[p].state # "good" THEN [conf EXCEPT !.ok = FALSE]
    ELSE Added(conf, p, Loaded(disk[p].groups), SetToSeq(DOMAIN disk[p].groups), FALSE)

\* lr_yum_repoconfs_load_dir(): the first file that is no key file ends it.
LoadedInto(conf, order) ==
    FoldLeft(LAMBDA c, p : IF c.ok THEN ParsedInto(c, p) ELSE c, conf, order)

Conf == [files |-> files, repos |-> repos, ok |-> TRUE]
Load(conf) ==
    /\ Len(conf.files) <= MaxFiles
    /\ files' = conf.files /\ repos' = conf.repos /\ result' = conf.ok
    \* A path that is loaded more than once is left out of what was given.
    /\ given' = [k \in {k \in DOMAIN given : Cardinality(
                    {i \in DOMAIN conf.files : conf.files[i].path = k[1]}) <= 1} |-> given[k]]
    /\ UNCHANGED <<disk, sets, edits>>

Parse == \E p \in Paths : Load(ParsedInto(Conf, p))
LoadDir == \E order \in SetToSeqs({p \in Paths : disk[p].state # "none"}) :
              order # <<>> /\ Load(LoadedInto(Conf, order))

\* lr_yum_repoconfs_add_empty_conf(): whatever the file holds is not looked at.
AddEmptyConf ==
    \E p \in Paths :
       LET conf == Added(Conf, p, <<>>, SetToSeq(Ids), FALSE)
       IN  /\ Len(conf.files) <= MaxFiles
           /\ files' = conf.files /\ repos' = conf.repos /\ result' = TRUE /\ given' = Without(p)
           /\ UNCHANGED <<disk, sets, edits>>

\* lr_yum_repoconfs_free(): what was not saved is gone.
Free ==
    /\ files # <<>> /\ files' = <<>> /\ repos' = <<>> /\ result' = TRUE
    /\ given' = [k \in {k \in DOMAIN given : \A i \in Objects(k[1]) : ~files[i].modified}
                   |-> given[k]]
    /\ UNCHANGED <<disk, sets, edits>>
-------------------------------------------------------------------------------
(* Setting and saving.                                                     *)

WithOption(groups, id, opt, text) ==
    Put(groups, id, Put(IF id \in DOMAIN groups THEN groups[id] ELSE <<>>, opt, text))
WithoutOption(groups, id, opt) ==
    IF id \notin DOMAIN groups THEN groups
    ELSE [groups EXCEPT ![id] = [o \in DOMAIN @ \ {opt} |-> @[o]]]

\* NULL and a list without elements take the key away.
Removes(opt, v) == ~v.ok \/ (Kind[opt] = "list" /\ v.value = <<>>)

\* lr_yum_repoconf_setopt(), but for the id, which is read only.
SetOpt ==
    /\ sets < MaxSets /\ sets' = sets + 1
    /\ \E r \in DOMAIN repos, opt \in DOMAIN Kind : \E v \in Settings[opt] :
         LET i == repos[r].file  id == repos[r].id
             groups == IF Removes(opt, v) THEN WithoutOption(files[i].groups, id, opt)
                       ELSE WithOption(files[i].groups, id, opt, WrittenAs(Kind[opt], v.value))
         IN  /\ files' = [files EXCEPT ![i].groups = groups,
                                       ![i].modified = TRUE]
             /\ given' = IF Objects(files[i].path) # {i} THEN given
                         ELSE Put(given, <<files[i].path, id, opt>>,
                                  IF Removes(opt, v) THEN Unset ELSE v)
    /\ result' = TRUE /\ UNCHANGED <<disk, repos, edits>>

\* Mutant: the file counts as saved whether it could be written or not.
StoredEither(s, i, unwritable) ==
    [s EXCEPT !.files[i].modified = FALSE, !.ok = s.files[i].path \notin unwritable,
              !.disk[s.files[i].path] = IF s.files[i].path \in unwritable THEN @
                                        ELSE Good(s.files[i].groups)]
\* repofile_save_keyfile(): the file is replaced as a whole, or not at all.
Stored(s, i, unwritable) ==
    LET p == s.files[i].path IN
    IF ~s.files[i].modified THEN s
    ELSE IF p \in unwritable THEN [s EXCEPT !.ok = FALSE]
    ELSE [s EXCEPT !.disk[p] = Good(s.files[i].groups), !.files[i].modified = FALSE]

\* lr_yum_repoconfs_save() walks the repositories, not the files, up to the first failure;
\* lr_yum_repoconf_save() saves the file of one of them, with what was set in the others.
Saved(list, unwritable) ==
    FoldLeft(LAMBDA s, r : IF s.ok THEN Stored(s, r.file, unwritable) ELSE s,
             [disk |-> disk, files |-> files, ok |-> TRUE], list)
Save(list) ==
    \E unwritable \in SUBSET {files[i].path : i \in {i \in DOMAIN files : files[i].modified}} :
       LET s == Saved(list, unwritable)
       IN  /\ disk' = s.disk /\ files' = s.files /\ result' = s.ok
           /\ UNCHANGED <<repos, given, sets, edits>>
SaveAll == repos # <<>> /\ Save(repos)
SaveOne == \E r \in DOMAIN repos : Save(<<repos[r]>>)

\* Another program writes the file.
FileGroups == {<<>>} \cup {Put(<<>>, id, Put(<<>>, opt, text)) : id \in Ids, opt \in DOMAIN Kind,
                              text \in UNION {FileTexts[o] : o \in DOMAIN Kind}}
IsFile(groups) == \A id \in DOMAIN groups, opt \in DOMAIN Kind :
                     opt \in DOMAIN groups[id] => groups[id][opt] \in FileTexts[opt]
Edit ==
    /\ edits < MaxEdits /\ edits' = edits + 1
    /\ \E p \in Paths :
         /\ disk' \in {[disk EXCEPT ![p] = [state |-> "bad", groups |-> <<>>]]} \cup
                      {[disk EXCEPT ![p] = Good(g)] : g \in {g \in FileGroups : IsFile(g)}}
         /\ given' = Without(p)
    /\ UNCHANGED <<files, repos, result, sets>>

ConfInit ==
    /\ disk = [p \in Paths |-> NoFile] /\ files = <<>> /\ repos = <<>> /\ result = TRUE
    /\ given = <<>> /\ sets = 0 /\ edits = 0

ConfNext == Parse \/ LoadDir \/ AddEmptyConf \/ Free \/ SetOpt \/ SaveAll \/ SaveOne \/ Edit

ConfSpec == ConfInit /\ [][ConfNext]_confVars
-------------------------------------------------------------------------------
(* Properties                                                              *)

\* What was set last is what is read: from memory at once, and from the file whenever the
\* file does not count as modified, however many saves failed in between, whichever
\* repository of the file was saved and whoever loads the file again.
SetIsRead ==
    \A k \in DOMAIN given :
       /\ \A i \in Objects(k[1]) : Same(Get(files[i].groups, k[2], k[3]), given[k])
       /\ (\A i \in Objects(k[1]) : ~files[i].modified) =>
             disk[k[1]].state = "good"
             /\ Same(Get(Loaded(disk[k[1]].groups), k[2], k[3]), given[k])

NotEmpty(parts) ==
    FoldLeft(LAMBDA found, part : IF part = <<>> THEN found ELSE Append(found, part), <<>>, parts)

\* A list in a file is read element by element, wherever its lines are broken; there may be
\* empty elements between them. But a line that ends in '=' is merged with the next one, for
\* that '=' is taken for the one behind the key (repoconf.c:201).
LinesApart(text) == \A i \in 1 .. Len(text) - 1 : text[i] \in EndInEquals => text[i + 1] # "NL"
ListsAreRead ==
    \A p \in Paths : \A id \in DOMAIN disk[p].groups : \A opt \in DOMAIN disk[p].groups[id] :
       Kind[opt] = "list" /\ LinesApart(disk[p].groups[id][opt]) =>
         NotEmpty(Get(Loaded(disk[p].groups), id, opt).value)
           = NotEmpty(Split(disk[p].groups[id][opt], Separators \cup {"NL"}))
===============================================================================
