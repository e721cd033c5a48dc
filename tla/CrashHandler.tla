----------------------------- MODULE CrashHandler -----------------------------
(***************************************************************************)
(* The crash handler (CrashDiagnostics::CrashHandler) on Windows.  A       *)
(* vectored handler sees the exceptions of certain kinds first, handled or *)
(* not; the filter for unhandled ones ends the program.  Whoever comes     *)
(* first writes the only report of the process, and logs that it did.      *)
(***************************************************************************)
EXTENDS Logger, FiniteSets

CONSTANT MaxFaults          \* bound: exceptions raised

VARIABLES at,               \* thread -> its code, a handler, or the search for one
          step,             \* thread -> what it does in the handler
          faults,           \* exceptions raised so far
          number,           \* thread -> number of its last exception
          guard,            \* s_crashReportGenerated
          report,           \* [fault, state]: the report
          ended             \* the program has been ended

crashVars == <<at, step, faults, number, guard, report, ended>>

CrashInit ==
    /\ at = [t \in Threads |-> "code"] /\ step = [t \in Threads |-> "none"]
    /\ faults = 0 /\ number = [t \in Threads |-> 0]
    /\ guard = FALSE /\ report = [fault |-> 0, state |-> "none"]
    /\ ended = FALSE

Enter(t, h) == at' = [at EXCEPT ![t] = h] /\ step' = [step EXCEPT ![t] = "test"]

\* An exception: of a kind the vectored handler reports, or of another kind that
\* nobody handles.  It may be one inside a handler that has the guard, whose report
\* is then left as it is.
Raise(t) ==
    /\ at[t] = "code" \/ step[t] \in {"write", "log"}
    /\ faults < MaxFaults
    /\ faults' = faults + 1
    /\ number' = [number EXCEPT ![t] = faults + 1]
    /\ \E h \in {"vectored", "filter"} : Enter(t, h)
    /\ UNCHANGED <<guard, report, ended, loggerVars>>

\* The handler returns: the search for a handler goes on, or the program ends.
Return(t) ==
    /\ at' = [at EXCEPT ![t] = IF @ = "vectored" THEN "search" ELSE @]
    /\ step' = [step EXCEPT ![t] = "none"]
    /\ ended' = (at[t] = "filter")

\* mutant of GenerateCrashReport: the guard is tested, and set with the report
GenerateUnguarded(t) ==
    /\ step[t] = "test"
    /\ IF report.state = "complete" THEN Return(t) /\ UNCHANGED <<guard, report>>
       ELSE /\ report' = [fault |-> number[t], state |-> "open"] /\ guard' = TRUE
            /\ step' = [step EXCEPT ![t] = "write"] /\ UNCHANGED <<at, ended>>
    /\ UNCHANGED <<faults, number, loggerVars>>

\* The guard is taken for good, even if the file cannot be opened.
GenerateCrashReport(t) ==
    /\ step[t] = "test"
    /\ guard' = TRUE
    /\ \/ guard /\ Return(t) /\ UNCHANGED report
       \/ /\ ~guard
          /\ report' = [fault |-> number[t], state |-> "open"]
          /\ step' = [step EXCEPT ![t] = "write"] /\ UNCHANGED <<at, ended>>
       \/ ~guard /\ report' = [fault |-> number[t], state |-> "refused"] /\ Return(t)
    /\ UNCHANGED <<faults, number, loggerVars>>

\* The report is written and closed.
WriteReport(t) ==
    /\ step[t] = "write"
    /\ report' = [report EXCEPT !.state = "complete"]
    /\ step' = [step EXCEPT ![t] = "log"]
    /\ UNCHANGED <<at, faults, number, guard, ended, loggerVars>>

\* The record of it is only queued; then the report is packed.
LogReport(t) ==
    /\ step[t] = "log"
    /\ Log(t)
    /\ Return(t)
    /\ UNCHANGED <<faults, number, guard, report>>

\* The handlers of the code on the stack: one takes the exception, or none does.
Search(t) ==
    /\ at[t] = "search"
    /\ \/ at' = [at EXCEPT ![t] = "code"] /\ UNCHANGED step
       \/ Enter(t, "filter")
    /\ UNCHANGED <<faults, number, guard, report, ended, loggerVars>>

Handler(t) == GenerateCrashReport(t) \/ WriteReport(t) \/ LogReport(t) \/ Search(t)

-----------------------------------------------------------------------------
\* Types of the crash handler (those of the logger are LoggerTypeOK).
CrashTypeOK ==
    /\ \A t \in Threads : /\ at[t] \in {"code", "vectored", "search", "filter"}
                          /\ step[t] \in {"none", "test", "write", "log"}
                          /\ step[t] # "none" => at[t] \in {"vectored", "filter"} /\ number[t] > 0
    /\ guard <=> report.state # "none"
    /\ report.state \in {"none", "open", "complete", "refused"}

\* Two threads never write a report at the same time, and one that is being written
\* is that of its writer's exception (s_crashReportGenerated).
OneReport ==
    \A t \in Threads : step[t] = "write" => report = [fault |-> number[t], state |-> "open"]

\* A program ended by its first exception leaves a report of it, unless the file was
\* refused; the second thread to fail ends the program whatever the first one does.
FirstReported ==
    ended /\ faults = 1 => report \in [fault : {1}, state : {"complete", "refused"}]

\* The report is never begun again: not for another thread's exception, and not for
\* one inside the handler that writes it, which s_crashReportGenerated is to prevent.
ReportOnce == [][report.state # "none" => report'.fault = report.fault]_crashVars

\* One report, whole, of its own exception, by whichever thread sets the guard.
ReportSound == CrashTypeOK /\ OneReport /\ FirstReported
=============================================================================
