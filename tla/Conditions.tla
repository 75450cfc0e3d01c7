------------------------------ MODULE Conditions ------------------------------
(***************************************************************************)
(* The ACK conditions of an Environment's status and the functions of the  *)
(* resource manager that move them.  A condition that the list does not    *)
(* hold is "absent"; messages and reasons are left out.                    *)
(***************************************************************************)
EXTENDS Naturals

CondTypes == {"Terminal", "Recoverable", "Synced", "LateInitialized"}
CondStatus == {"absent", "True", "False", "Unknown"}
Conds == [CondTypes -> CondStatus]

NoConds == [c \in CondTypes |-> "absent"]

\* What a call may end with, before onError:
\*   Validation   ValidationException from the service
\*   TermState    ackerr.TerminalError: CREATE_FAILED or UNAVAILABLE
\*   UpdateFailed the requeue error of handleUpdateFailed
\*   NotAvailable the requeue error of sdkUpdate's guard
\*   Range        a number that no int32 holds
\*   NotFound     ackerr.NotFound
\*   Api          any other error of a call: throttling, timeout, lost reply
RawErrors == {"Validation", "TermState", "UpdateFailed", "NotAvailable",
              "Range", "NotFound", "Api"}

\* What onError returns: ackerr.Terminal, or the error itself.  Requeue
\* stands for every error that asks the runtime to try again.
Errors == {"none", "Terminal", "NotFound", "Requeue"}

IsTerminal(e) == e \in {"Validation", "TermState"}

\* Faulty variants: a success does not clear an earlier error; an error that may
\* pass is not shown.
SuccessKeepsRecoverable(conds, e) ==
    IF IsTerminal(e) THEN [conds EXCEPT !["Terminal"] = "True"]
    ELSE IF e # "none" THEN [conds EXCEPT !["Recoverable"] = "True"]
    ELSE conds

TerminalOnly(conds, e) ==
    [conds EXCEPT !["Terminal"] = IF IsTerminal(e) THEN "True" ELSE @]

\* updateConditions, for an error e or "none".
UpdateConditions(conds, e) ==
    LET Cleared(c) == IF conds[c] = "absent" THEN "absent" ELSE "False"
    IN  IF IsTerminal(e)
        THEN [conds EXCEPT !["Terminal"] = "True"]
        ELSE [conds EXCEPT !["Terminal"] = Cleared("Terminal"),
                           !["Recoverable"] = IF e # "none" THEN "True"
                                              ELSE Cleared("Recoverable")]

\* A faulty variant: the error is handed on without a look at the conditions.
RawError(conds, e) == e

\* The error onError returns with those conditions.
ErrorOf(conds, e) ==
    IF UpdateConditions(conds, e)["Terminal"] = "True" THEN "Terminal"
    ELSE IF e = "NotFound" THEN "NotFound"
    ELSE "Requeue"

\* A faulty variant: the failure is an error only.
LeaveSynced(conds) == conds

\* handleUpdateFailed: the failure is shown as Synced=False.
ShowUpdateFailed(conds) == [conds EXCEPT !["Synced"] = "False"]

\* LateInitialize when it cannot read, or when a field is still missing.
LateInitFailed(conds) == [conds EXCEPT !["LateInitialized"] = "False",
                                       !["Synced"] = "False"]

LateInitDone(conds) == [conds EXCEPT !["LateInitialized"] = "True"]

\* ensureConditions of the ACK runtime, at the end of a sync: a Synced that
\* nobody set is computed from the outcome; onTerminal is the status that
\* the version of the runtime gives a terminal outcome.
EnsureConditions(conds, e, synced, onTerminal) ==
    IF conds["Synced"] # "absent" THEN conds
    ELSE [conds EXCEPT !["Synced"] =
            IF e = "none" THEN (IF synced THEN "True" ELSE "False")
            ELSE IF e = "Terminal" THEN onTerminal
            ELSE "Unknown"]
===============================================================================
