-------------------------------- MODULE Handle --------------------------------
(***************************************************************************)
(* A handle (handle.c): its options, the lists of mirrors it keeps for     *)
(* them, and lr_handle_perform() with the SIGINT handler.                  *)
(*                                                                         *)
(* The handle caches what it made of its options: the mirrors of LRO_URLS, *)
(* of the mirrorlist and of the metalink, the descriptors the last two     *)
(* were parsed from, and the internal mirrorlist joined of all three.      *)
(* lr_handle_setopt() drops what a new value makes obsolete.               *)
(*                                                                         *)
(* pc is the place in the process: "idle" between two calls, "urls",       *)
(* "mirrorlist", "metalink" and "join" in                                  *)
(* lr_handle_prepare_internal_mirrorlist(), "prepared" when that returned  *)
(* to its caller, "yum" and "restore" in lr_handle_perform().  Other       *)
(* functions that prepare the handle have their own values of pc.          *)
(***************************************************************************)
EXTENDS Integers, Sequences, FiniteSets, SequencesExt

CONSTANTS
    NULL,
    UrlLists,       \* the values LRO_URLS is set to; <<>> for NULL
    LocalUrls,      \* those without a protocol or with file:
    LostUrls,       \* those lr_prepend_url_protocol() finds no path for
    ListUrls,       \* the values of LRO_MIRRORLISTURL and LRO_METALINKURL
    LocalLists,     \* the lists that lie in the directory of each local URL
    VarLists,       \* the values of LRO_VARSUB
    HandleFaults,   \* "parse", "network", "sort", "yum", "provided"
    MaxSets,        \* bound: calls of lr_handle_setopt()
    MaxCalls,       \* bound: calls that prepare the handle
    MaxSignals      \* bound: times SIGINT is sent

Lists == {"mirrorlist", "metalink"}
Sources == Lists \cup {"urls"}

ASSUME HandleAssumption ==
    /\ \A u \in UrlLists : u \in Seq(UNION {Range(v) : v \in UrlLists})
    /\ LostUrls \subseteq LocalUrls
    /\ LocalLists \in [LocalUrls -> SUBSET Lists]
    /\ NULL \notin ListUrls \cup LocalUrls \cup {"perform", "packages", "check"}
    /\ MaxSets \in Nat /\ MaxCalls \in Nat /\ MaxSignals \in Nat

VARIABLES
    opt,        \* the options
    mirrors,    \* urls_mirrors, mirrorlist_mirrors and metalink_mirrors
    fd,         \* mirrorlist_fd and metalink_fd: NULL is -1
    internal,   \* internal_mirrorlist
    reported,   \* LrHandle.mirrors, the value of LRI_MIRRORS
    present,    \* at_least_one_present in the preparation
    done,       \* the sources that succeeded in it
    sigaction,  \* the process's SIGINT handler
    old_sigact, \* the handler the call replaced
    interrupt,  \* lr_interrupt
    caller,     \* the function that prepares the handle
    ret,        \* what the last preparation or call returned
    sets, calls, signals,
    pc

optionVars == <<opt, sets>>
listVars   == <<mirrors, fd, internal, reported>>
prepVars   == <<present, done>>
signalVars == <<sigaction, old_sigact, interrupt, signals>>
handleVars == <<optionVars, listVars, prepVars, signalVars, caller, ret, calls, pc>>

Options == [urls : UrlLists \cup {<<>>}, mirrorlist : ListUrls \cup {NULL},
            metalink : ListUrls \cup {NULL}, local : BOOLEAN, offline : BOOLEAN,
            vars : VarLists, fastestmirror : BOOLEAN, interruptible : BOOLEAN,
            fetchmirrors : BOOLEAN]

\* A mirror: the source it is from, which value of its option that was, and the
\* substitutions made in it.
Mirror == [source : Sources,
           from : (UNION {Range(u) : u \in UrlLists}) \cup ListUrls \cup LocalUrls,
           vars : VarLists]

HandleTypeOK ==
    /\ opt \in Options
    /\ \A s \in Sources : Range(mirrors[s]) \subseteq Mirror
    /\ fd \in [Lists -> {NULL, "open", "closed"}]
    /\ Range(internal) \cup Range(reported) \subseteq Mirror
    /\ present \in BOOLEAN /\ done \subseteq Sources
    /\ {sigaction, old_sigact} \subseteq {"application", "librepo"}
    /\ interrupt \in BOOLEAN
    /\ ret \in {"ok", "error", "interrupted"}
    /\ sets \in 0 .. MaxSets /\ calls \in 0 .. MaxCalls /\ signals \in 0 .. MaxSignals

\* lr_handle_init() with options set before the first call.
NewLists == [s \in Sources |-> <<>>]
NoFds    == [l \in Lists |-> NULL]

HandleInit ==
    /\ opt \in [urls : UrlLists, mirrorlist : ListUrls \cup {NULL}, metalink : {NULL},
                local : {FALSE}, offline : {FALSE}, vars : VarLists, fastestmirror : BOOLEAN,
                interruptible : {TRUE}, fetchmirrors : {FALSE}]
    /\ mirrors = NewLists /\ fd = NoFds /\ internal = <<>> /\ reported = <<>>
    /\ present = FALSE /\ done = {}
    /\ sigaction = "application" /\ old_sigact = "application" /\ interrupt = FALSE
    /\ caller = NULL /\ ret = "ok"
    /\ sets = 0 /\ calls = 0 /\ signals = 0 /\ pc = "idle"
-------------------------------------------------------------------------------
(* lr_handle_setopt()                                                      *)

SetOption(name, value) ==
    /\ pc = "idle" /\ sets < MaxSets
    /\ sets' = sets + 1
    /\ opt' = [opt EXCEPT ![name] = value]
    /\ UNCHANGED <<prepVars, signalVars, caller, ret, calls, pc>>

\* Mutant: the internal mirrorlist survives the change.
SourcesChangedLazy(changed) ==
    /\ mirrors' = [s \in Sources |-> IF s \in changed THEN <<>> ELSE mirrors[s]]
    /\ fd' = [l \in Lists |-> IF l \in changed THEN NULL ELSE fd[l]]
    /\ UNCHANGED <<internal, reported>>

\* lr_handle_remote_sources_changed(), for all sources an option changes.
SourcesChanged(changed) ==
    /\ internal' = <<>> /\ reported' = <<>>
    /\ mirrors' = [s \in Sources |-> IF s \in changed THEN <<>> ELSE mirrors[s]]
    /\ fd' = [l \in Lists |-> IF l \in changed THEN NULL ELSE fd[l]]

SetUrls(urls) == SetOption("urls", urls) /\ SourcesChanged({"urls"})

SetListUrl(list, url) == SetOption(list, url) /\ SourcesChanged({list})

\* LRO_MIRRORLIST: one of the two URLs is set, the other is cleared.
SetMirrorlist(list, url) ==
    /\ pc = "idle" /\ sets < MaxSets
    /\ sets' = sets + 1
    /\ opt' = [opt EXCEPT !.mirrorlist = IF list = "mirrorlist" THEN url ELSE NULL,
                          !.metalink = IF list = "metalink" THEN url ELSE NULL]
    /\ SourcesChanged(Lists)
    /\ UNCHANGED <<prepVars, signalVars, caller, ret, calls, pc>>

\* LRO_LOCAL and LRO_OFFLINE: only the joined lists are dropped.
SetReach(name, value) == SetOption(name, value) /\ SourcesChanged({})

\* Options that nothing is cached of, or that drop nothing, as LRO_VARSUB.
SetPlain(name, value) == SetOption(name, value) /\ UNCHANGED listVars

SetOpt == \/ \E u \in UrlLists \cup {<<>>} : SetUrls(u)
          \/ \E l \in Lists, u \in ListUrls \cup {NULL} : SetListUrl(l, u)
          \/ \E l \in Lists, u \in ListUrls : SetMirrorlist(l, u)
          \/ \E n \in {"local", "offline"}, b \in BOOLEAN : SetReach(n, b)
          \/ \E v \in VarLists : SetPlain("vars", v)
          \/ \E n \in {"fetchmirrors", "interruptible"} : SetPlain(n, ~opt[n])

\* lr_handle_free() and a new handle with the same options.
Renew ==
    /\ pc = "idle" /\ sets < MaxSets
    /\ sets' = sets + 1
    /\ mirrors' = NewLists /\ fd' = NoFds /\ internal' = <<>> /\ reported' = <<>>
    /\ UNCHANGED <<opt, prepVars, signalVars, caller, ret, calls, pc>>
-------------------------------------------------------------------------------
(* lr_handle_prepare_internal_mirrorlist()                                 *)

\* The path of the repository if the first URL is local.
LocalPath == IF opt.urls # <<>> /\ Head(opt.urls) \in LocalUrls THEN Head(opt.urls) ELSE NULL

\* The call of the preparation: an internal mirrorlist is prepared once.
EnterPrepare(who) ==
    /\ caller' = who
    /\ IF internal # <<>>
       THEN pc' = "prepared" /\ ret' = "ok" /\ UNCHANGED prepVars
       ELSE pc' = "urls" /\ present' = FALSE /\ done' = {} /\ UNCHANGED ret

Substituted(source, from) == [source |-> source, from |-> from, vars |-> opt.vars]

\* The URLs before the first one without a path.
UpToLost == LET lost == {i \in DOMAIN opt.urls : opt.urls[i] \in LostUrls} IN
            SubSeq(opt.urls, 1, IF lost = {} THEN Len(opt.urls)
                                ELSE (CHOOSE i \in lost : \A j \in lost : i <= j) - 1)

\* lr_handle_prepare_urls(): a URL without a path ends the loop with the
\* mirrors of those before it in place.
PrepareUrls ==
    /\ pc = "urls" /\ pc' = "mirrorlist"
    /\ IF mirrors["urls"] = <<>> /\ opt.urls # <<>>
       THEN /\ present' = TRUE
            /\ mirrors' = [mirrors EXCEPT !["urls"] =
                               [i \in DOMAIN UpToLost |-> Substituted("urls", UpToLost[i])]]
            /\ done' = IF UpToLost = opt.urls THEN done \cup {"urls"} ELSE done
       ELSE UNCHANGED <<present, mirrors, done>>
    /\ UNCHANGED <<optionVars, fd, internal, reported, signalVars, caller, ret, calls>>

\* LRO_OFFLINE and LRO_LOCAL keep lists that are not local from being fetched.
Ignored(list) == (opt.offline \/ opt.local) /\ opt[list] \notin LocalUrls

\* The way a list is obtained: as a descriptor the caller provided, from the
\* local repository, not at all, or from its URL.
Origin(list) ==
    CASE fd[list] # NULL -> "provided"
      [] fd[list] = NULL /\ opt[list] = NULL ->
             IF list \in LocalLists[LocalPath] THEN "repository" ELSE "nothing"
      [] OTHER -> IF Ignored(list) THEN "nothing" ELSE "url"

\* The list cannot be opened or downloaded, also in three attempts; or its text
\* cannot be parsed or has no URLs, which closes the descriptor.
Unobtainable(list) ==
    /\ \/ Origin(list) = "repository" /\ "parse" \in HandleFaults
       \/ Origin(list) = "url" /\ ("network" \in HandleFaults \/ interrupt)
    /\ UNCHANGED <<mirrors, fd, done>>

Unparsable(list) ==
    /\ "parse" \in HandleFaults \/ fd[list] = "closed"
    /\ Origin(list) = "url" => ~interrupt
    /\ fd' = IF Origin(list) = "provided" THEN [fd EXCEPT ![list] = "closed"] ELSE fd
    /\ UNCHANGED <<mirrors, done>>

\* Mutant: the descriptor of the list is not kept.
ParsedDropsFd(list) ==
    /\ fd[list] # "closed"
    /\ Origin(list) = "url" => ~interrupt
    /\ mirrors' = [mirrors EXCEPT ![list] =
           <<Substituted(list, IF opt[list] = NULL THEN LocalPath ELSE opt[list])>>]
    /\ done' = done \cup {list}
    /\ UNCHANGED fd

Parsed(list) ==
    /\ fd[list] # "closed"
    /\ Origin(list) = "url" => ~interrupt
    /\ mirrors' = [mirrors EXCEPT ![list] =
           <<Substituted(list, IF opt[list] = NULL THEN LocalPath ELSE opt[list])>>]
    /\ fd' = [fd EXCEPT ![list] = "open"]
    /\ done' = done \cup {list}

\* lr_handle_prepare_mirrorlist() and lr_handle_prepare_metalink().
PrepareList(list) ==
    /\ pc = list /\ pc' = IF list = "mirrorlist" THEN "metalink" ELSE "join"
    /\ IF mirrors[list] = <<>> /\ (opt[list] # NULL \/ LocalPath # NULL)
       THEN /\ present' = TRUE
            /\ IF Origin(list) = "nothing"
               THEN done' = done \cup {list} /\ UNCHANGED <<mirrors, fd>>
               ELSE Unobtainable(list) \/ Unparsable(list) \/ Parsed(list)
       ELSE UNCHANGED <<present, mirrors, fd, done>>
    /\ UNCHANGED <<optionVars, internal, reported, signalVars, caller, ret, calls>>

\* The lists given by their URL, then the URLs.
Joined == (IF opt.mirrorlist # NULL THEN mirrors["mirrorlist"] ELSE <<>>)
          \o (IF opt.metalink # NULL THEN mirrors["metalink"] ELSE <<>>)
          \o mirrors["urls"]

\* perform sorts by the connection times of the mirrors, the package downloader
\* later and for all handles together.  The order is that of FastestMirror; here
\* it is the joined one.
SortFails == caller = "perform" /\ opt.fastestmirror /\ ("sort" \in HandleFaults \/ interrupt)

Join ==
    /\ pc = "join" /\ pc' = "prepared"
    /\ \/ /\ present /\ done = {}
          /\ ret' = "error"
          /\ UNCHANGED <<internal, reported>>
       \/ /\ present => done # {}
          /\ internal' = Joined
          /\ \/ /\ ret' = "ok"
                /\ reported' = reported \o mirrors["mirrorlist"] \o mirrors["metalink"]
             \/ SortFails /\ ret' = "error" /\ UNCHANGED reported
    /\ UNCHANGED <<optionVars, mirrors, fd, prepVars, signalVars, caller, calls>>

\* The metadata downloader fetched the list and hands over its descriptor.
Provide(list) ==
    /\ "provided" \in HandleFaults
    /\ pc = "idle" /\ calls < MaxCalls /\ fd[list] = NULL
    /\ opt[list] # NULL /\ mirrors[list] = <<>> /\ ~Ignored(list)
    /\ fd' = [fd EXCEPT ![list] = "open"]
    /\ UNCHANGED <<optionVars, mirrors, internal, reported, prepVars, signalVars, caller, ret, calls, pc>>
-------------------------------------------------------------------------------
(* lr_handle_perform() and SIGINT                                          *)

InstallHandler(wanted) ==
    /\ old_sigact' = IF wanted THEN sigaction ELSE old_sigact
    /\ sigaction' = IF wanted THEN "librepo" ELSE sigaction
    /\ UNCHANGED <<interrupt, signals>>

\* The end of a call that came to its end: the old handler is put back, and an
\* interrupt is what the call returns.
RestoreHandler(wanted, r) ==
    /\ sigaction' = IF wanted THEN old_sigact ELSE sigaction
    /\ ret' = IF wanted /\ interrupt THEN "interrupted" ELSE r
    /\ pc' = "idle"
    /\ UNCHANGED <<old_sigact, interrupt, signals>>

\* Without any URL the call returns before it starts.
Perform ==
    /\ pc = "idle" /\ calls < MaxCalls
    /\ opt.urls # <<>> \/ opt.mirrorlist # NULL \/ opt.metalink # NULL
    /\ calls' = calls + 1
    /\ InstallHandler(opt.interruptible)
    /\ EnterPrepare("perform")
    /\ UNCHANGED <<optionVars, listVars>>

\* A failed preparation leaves the call at once.
PerformUnprepared ==
    /\ pc = "prepared" /\ caller = "perform" /\ ret = "error"
    /\ pc' = "idle"
    /\ UNCHANGED <<optionVars, listVars, prepVars, signalVars, caller, ret, calls>>

PerformPrepared ==
    /\ pc = "prepared" /\ caller = "perform" /\ ret = "ok"
    /\ pc' = IF opt.fetchmirrors THEN "restore" ELSE "yum"
    /\ UNCHANGED <<optionVars, listVars, prepVars, signalVars, caller, ret, calls>>

\* lr_yum_perform(): with LRO_LOCAL it transfers nothing and so never looks at
\* lr_interrupt.
YumPerform ==
    /\ pc = "yum" /\ pc' = "restore"
    /\ \/ (opt.local \/ ~interrupt) /\ ret' = "ok"
       \/ ("yum" \in HandleFaults \/ (interrupt /\ ~opt.local)) /\ ret' = "error"
    /\ UNCHANGED <<optionVars, listVars, prepVars, signalVars, caller, calls>>

PerformReturns ==
    /\ pc = "restore"
    /\ RestoreHandler(opt.interruptible, ret)
    /\ UNCHANGED <<optionVars, listVars, prepVars, caller, calls>>

\* SIGINT arrives: lr_sigint_handler() or the application's handler runs.
Sigint ==
    /\ signals < MaxSignals
    /\ signals' = signals + 1
    /\ interrupt' = (interrupt \/ sigaction = "librepo")
    /\ UNCHANGED <<optionVars, listVars, prepVars, sigaction, old_sigact, caller, ret, calls, pc>>

HandleNext ==
    \/ SetOpt \/ Renew
    \/ \E l \in Lists : Provide(l) \/ PrepareList(l)
    \/ PrepareUrls \/ Join
    \/ Perform \/ PerformUnprepared \/ PerformPrepared \/ YumPerform \/ PerformReturns
    \/ Sigint
===============================================================================
