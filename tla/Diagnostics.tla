------------------------------ MODULE Diagnostics ------------------------------
\* The logger and the crash handler of one process: threads log, fail and report,
\* until the program is ended.
EXTENDS CrashHandler

CONSTANT MaxRecords         \* bound: thread -> its records

diagVars == <<loggerVars, crashVars>>

DiagInit == LoggerInit /\ CrashInit

Logging == \E t \in Threads : at[t] = "code" /\ logged[t] < MaxRecords[t] /\ Log(t)

WorkerRuns  == ~ended /\ Worker /\ UNCHANGED crashVars
InitRuns    == ~ended /\ InitOf /\ UNCHANGED crashVars
CallersRun  == ~ended /\ (Logging \/ InitStops) /\ UNCHANGED crashVars
HandlersRun == ~ended /\ \E t \in Threads : Raise(t) \/ Handler(t)

\* The program has ended, or the bounds are used up and the worker waits.
Stopped == (ended \/ worker = "blocked") /\ UNCHANGED diagVars

DiagNext == WorkerRuns \/ InitRuns \/ CallersRun \/ HandlersRun \/ Stopped

DiagSpec == DiagInit /\ [][DiagNext]_diagVars

\* The worker and a caller of init go on while the program runs.
FairDiagSpec == DiagSpec /\ WF_diagVars(WorkerRuns) /\ WF_diagVars(InitRuns)

\* A call of init returns (m_workerThread.join), unless its notification was lost:
\* then only the next record that is logged ends it.
InitReturns ==
    initStep = "join" ~> initStep # "join" \/ LostWakeup \/ ended

\* Once there has been a worker, a full queue gets room again, through changes of
\* role too.
QueueMoves ==
    Len(queue) = QueueCap /\ worker # "none" ~> Len(queue) < QueueCap \/ ended
=============================================================================
