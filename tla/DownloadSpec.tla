----------------------------- MODULE DownloadSpec -----------------------------
(***************************************************************************)
(* What lr_download() promises its caller (downloader.h, the comments on    *)
(* LrEndCb in types.h and on rcode in downloadtarget.h.in): every target is *)
(* decided at most once, its end callback is called exactly once when it is *)
(* decided, a target that was neither is reported as not finished and only  *)
(* when the whole call fails, and with failfast nothing more is decided     *)
(* after the first failure, which the call then returns.                    *)
(***************************************************************************)
EXTENDS Sequences

CONSTANTS Targets,        \* the targets of the call
          FailFastArgs    \* the values of the failfast argument

VARIABLES
    failfast,   \* the argument
    status,     \* "pending", "ok" or "failed"
    ends,       \* the statuses each target's end callback was called with
    result      \* "running", "ok" (TRUE) or "error" (FALSE)

vars == <<failfast, status, ends, result>>

Init == /\ failfast \in FailFastArgs
        /\ status = [t \in Targets |-> "pending"]
        /\ ends = [t \in Targets |-> <<>>]
        /\ result = "running"

Pending == {t \in Targets : status[t] = "pending"}
Failed == {t \in Targets : status[t] = "failed"}

Decide(t, s, e) ==
    /\ result = "running" /\ t \in Pending
    /\ failfast => Failed = {}
    /\ status' = [status EXCEPT ![t] = s]
    /\ ends' = [ends EXCEPT ![t] = Append(@, e)]
    /\ UNCHANGED <<failfast, result>>

Finish(t) == Decide(t, "ok", "SUCCESSFUL")
Fail(t)   == Decide(t, "failed", "ERROR")

ReturnTrue ==
    /\ result = "running"
    /\ Pending = {}
    /\ failfast => Failed = {}
    /\ result' = "ok"
    /\ UNCHANGED <<failfast, status, ends>>

\* The targets of S were being downloaded: they are told of the error.
ReturnFalse(S) ==
    /\ result = "running"
    /\ result' = "error"
    /\ ends' = [t \in Targets |-> IF t \in S THEN Append(ends[t], "ERROR") ELSE ends[t]]
    /\ UNCHANGED <<failfast, status>>

Next == \/ \E t \in Targets : Finish(t) \/ Fail(t)
        \/ ReturnTrue
        \/ \E S \in SUBSET Pending : ReturnFalse(S)

Spec == Init /\ [][Next]_vars
===============================================================================
