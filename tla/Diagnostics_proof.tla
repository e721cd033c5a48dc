--------------------------- MODULE Diagnostics_proof ---------------------------
(***************************************************************************)
(* The crash handler writes one report, whole, of its own exception, and   *)
(* the logger keeps each thread's records in order and the newest in its   *)
(* files, for any number of threads, exceptions, records and files.        *)
(***************************************************************************)
EXTENDS Diagnostics, SequenceTheorems, TLAPS

\* The variables' types.
CrashTyped ==
    /\ at \in [Threads -> {"code", "vectored", "search", "filter"}]
    /\ step \in [Threads -> {"none", "test", "write", "log"}]
    /\ number \in [Threads -> Nat] /\ faults \in Nat
    /\ report \in [fault : Nat, state : {"none", "open", "complete", "refused"}]
    /\ ended \in BOOLEAN

\* Every exception has a number of its own, and who has left its code has one.
NumbersApart ==
    /\ \A t \in Threads : /\ number[t] <= faults
                          /\ at[t] # "code" => number[t] > 0
                          /\ step[t] # "none" => at[t] \in {"vectored", "filter"}
                          /\ step[t] \in {"write", "log"} => guard
    /\ \A t, u \in Threads : number[t] > 0 /\ number[t] = number[u] => t = u

\* What the report has to do with the threads: it is that of an exception, an open
\* one has a writer unless a second exception took it away, and who goes on to log
\* has finished it.
ReportOwned ==
    /\ guard <=> report.state # "none"
    /\ report.state # "none" => report.fault \in 1 .. faults
    /\ report.state = "open" => faults > 1 \/ \E t \in Threads : step[t] = "write"
    /\ \A t \in Threads : step[t] = "log" => report.state = "complete"

\* The inductive invariant.
CrashInv == CrashTyped /\ NumbersApart /\ ReportOwned /\ OneReport /\ FirstReported

-----------------------------------------------------------------------------
LEMMA InitCrash == DiagInit => CrashInv
<1> SUFFICES ASSUME CrashInit PROVE CrashInv
  BY DEF DiagInit
<1>1. report = [fault |-> 0, state |-> "none"] /\ faults = 0 /\ ended = FALSE
      /\ \A t \in Threads : at[t] = "code" /\ step[t] = "none" /\ number[t] = 0
  BY DEF CrashInit
<1>2. CrashTyped
  BY DEF CrashInit, CrashTyped
<1>3. guard <=> report.state # "none"
  BY <1>1 DEF CrashInit
<1>4. NumbersApart /\ OneReport /\ FirstReported
  BY <1>1 DEF NumbersApart, OneReport, FirstReported
<1>5. ReportOwned
  BY <1>1, <1>3 DEF ReportOwned
<1> QED BY <1>2, <1>4, <1>5 DEF CrashInv

\* A step that leaves the handlers alone.
LEMMA OthersKeep == CrashInv /\ UNCHANGED crashVars => CrashInv'
  BY DEF crashVars, CrashInv, CrashTyped, NumbersApart, ReportOwned, OneReport, FirstReported

\* A new exception has a new number.
LEMMA RaiseKeeps ==
    ASSUME CrashInv, ~ended, NEW t \in Threads, Raise(t)
    PROVE  CrashInv'
<1>1. PICK h \in {"vectored", "filter"} : Enter(t, h)
  BY DEF Raise
<1>2. /\ at' = [at EXCEPT ![t] = h] /\ step' = [step EXCEPT ![t] = "test"]
      /\ faults' = faults + 1 /\ number' = [number EXCEPT ![t] = faults + 1]
      /\ at[t] = "code" \/ step[t] \in {"write", "log"}
      /\ UNCHANGED <<guard, report, ended>>
  BY <1>1 DEF Raise, Enter
<1>3. report.state = "open" => faults > 0
  BY DEF CrashInv, CrashTyped, ReportOwned
<1>4. CrashTyped'
  BY <1>2 DEF CrashInv, CrashTyped
<1>5. NumbersApart'
  BY <1>2 DEF CrashInv, CrashTyped, NumbersApart
<1>6. ReportOwned'
  <2>1. report'.state = "open" => faults' > 1
    BY <1>2, <1>3 DEF CrashInv, CrashTyped
  <2> QED BY <1>2, <2>1 DEF CrashInv, CrashTyped, ReportOwned
<1>7. OneReport' /\ FirstReported'
  BY <1>2 DEF CrashInv, CrashTyped, OneReport, FirstReported
<1> QED BY <1>4, <1>5, <1>6, <1>7 DEF CrashInv

\* The step test: the guard is taken, or another one has it and the thread returns.
LEMMA GenerateKeeps ==
    ASSUME CrashInv, ~ended, NEW t \in Threads, GenerateCrashReport(t)
    PROVE  CrashInv'
<1> USE DEF CrashInv, CrashTyped, NumbersApart, ReportOwned, OneReport, FirstReported
<1>1. step[t] = "test" /\ guard' = TRUE /\ UNCHANGED <<faults, number>>
      /\ number[t] > 0 /\ number[t] \in 1 .. faults
  BY DEF GenerateCrashReport
<1>2. CASE guard /\ Return(t) /\ UNCHANGED report
  <2>1. at[t] = "filter" /\ faults = 1 => report.fault = 1 /\ report.state # "open"
    <3>1. ASSUME faults = 1, report.state = "open" PROVE FALSE
      <4>1. PICK u \in Threads : step[u] = "write"
        BY <3>1
      <4>2. number[u] = report.fault /\ report.fault = 1 /\ number[t] = 1
        BY <1>1, <3>1, <4>1
      <4> QED BY <1>1, <4>1, <4>2
    <3> QED BY <1>2, <3>1
  <2>2. FirstReported'
    BY <1>1, <1>2, <2>1 DEF Return
  <2>3. (report.state = "open" => faults > 1 \/ \E u \in Threads : step[u] = "write")'
    BY <1>1, <1>2 DEF Return
  <2> QED BY <1>1, <1>2, <2>2, <2>3 DEF Return
<1>3. CASE ~guard /\ report' = [fault |-> number[t], state |-> "open"]
             /\ step' = [step EXCEPT ![t] = "write"] /\ UNCHANGED <<at, ended>>
  BY <1>1, <1>3
<1>4. CASE ~guard /\ report' = [fault |-> number[t], state |-> "refused"] /\ Return(t)
  BY <1>1, <1>4 DEF Return
<1> QED BY <1>2, <1>3, <1>4 DEF GenerateCrashReport

\* The writer is alone, so that closing the file leaves no open report.
LEMMA WriteKeeps ==
    ASSUME CrashInv, ~ended, NEW t \in Threads, WriteReport(t)
    PROVE  CrashInv'
<1> USE DEF CrashInv, CrashTyped, NumbersApart, ReportOwned, OneReport, FirstReported
<1>1. /\ step[t] = "write" /\ report' = [report EXCEPT !.state = "complete"]
      /\ step' = [step EXCEPT ![t] = "log"]
      /\ UNCHANGED <<at, faults, number, guard, ended>>
  BY DEF WriteReport
<1>2. \A u \in Threads : step[u] = "write" => u = t
  BY <1>1
<1> QED BY <1>1, <1>2

\* After the record the handler returns; its report is complete.
LEMMA LogKeeps ==
    ASSUME CrashInv, ~ended, NEW t \in Threads, LogReport(t)
    PROVE  CrashInv'
<1> USE DEF CrashInv, CrashTyped, NumbersApart, ReportOwned, OneReport, FirstReported
<1>1. /\ step[t] = "log" /\ report.state = "complete"
      /\ UNCHANGED <<faults, number, guard, report>>
      /\ at' = [at EXCEPT ![t] = IF @ = "vectored" THEN "search" ELSE @]
      /\ step' = [step EXCEPT ![t] = "none"] /\ ended' = (at[t] = "filter")
  BY DEF LogReport, Return
<1> QED BY <1>1

\* The search ends in the code or in the filter.
LEMMA SearchKeeps ==
    ASSUME CrashInv, ~ended, NEW t \in Threads, Search(t)
    PROVE  CrashInv'
<1> USE DEF CrashInv, CrashTyped, NumbersApart, ReportOwned, OneReport, FirstReported
<1>1. at[t] = "search" /\ step[t] = "none" /\ UNCHANGED <<faults, number, guard, report, ended>>
  BY DEF Search
<1>2. CASE at' = [at EXCEPT ![t] = "code"] /\ UNCHANGED step
  BY <1>1, <1>2
<1>3. CASE Enter(t, "filter")
  BY <1>1, <1>3 DEF Enter
<1> QED BY <1>2, <1>3 DEF Search

LEMMA StepCrash == CrashInv /\ [DiagNext]_diagVars => CrashInv'
<1> SUFFICES ASSUME CrashInv, [DiagNext]_diagVars PROVE CrashInv'
  OBVIOUS
<1>1. CASE UNCHANGED crashVars
  BY <1>1, OthersKeep
<1>2. CASE HandlersRun
  <2>1. PICK t \in Threads : Raise(t) \/ Handler(t)
    BY <1>2 DEF HandlersRun
  <2>2. ~ended
    BY <1>2 DEF HandlersRun
  <2> QED BY <2>1, <2>2, RaiseKeeps, GenerateKeeps, WriteKeeps, LogKeeps, SearchKeeps DEF Handler
<1> QED BY <1>1, <1>2 DEF DiagNext, WorkerRuns, InitRuns, CallersRun, Stopped, diagVars

-----------------------------------------------------------------------------
\* The invariant holds from the start: numbers are apart, an open report has one
\* writer, and the guard is never given back.
THEOREM CrashInvariant == DiagSpec => []CrashInv
<1> QED BY InitCrash, StepCrash, PTL DEF DiagSpec

\* Two exceptions at once leave one report, whole and of the exception of the thread
\* that took s_crashReportGenerated, and a program ended by its only exception leaves
\* it closed, unless the file was refused.
THEOREM ReportIsSound == DiagSpec => []ReportSound
<1>1. CrashInv => ReportSound
  BY DEF CrashInv, CrashTyped, NumbersApart, ReportOwned, ReportSound, CrashTypeOK
<1> QED BY <1>1, CrashInvariant, PTL

\* The guard is taken before the report is begun, and for good: an exception in the
\* handler that writes it, or in another thread, begins none.
THEOREM OnlyOneReport == DiagSpec => ReportOnce
<1>1. CrashInv /\ [DiagNext]_diagVars => [report.state # "none" => report'.fault = report.fault]_crashVars
  <2> SUFFICES ASSUME CrashInv, [DiagNext]_diagVars, report.state # "none"
               PROVE  report'.fault = report.fault
    OBVIOUS
  <2>1. CASE UNCHANGED crashVars
    BY <2>1 DEF crashVars
  <2>2. ASSUME NEW t \in Threads, Raise(t) \/ Handler(t) PROVE report'.fault = report.fault
    <3>1. guard /\ report \in [fault : Nat, state : {"none", "open", "complete", "refused"}]
      BY DEF CrashInv, CrashTyped, ReportOwned
    <3> QED BY <2>2, <3>1 DEF Raise, Handler, GenerateCrashReport, WriteReport, LogReport, Search
  <2> QED BY <2>1, <2>2
       DEF DiagNext, WorkerRuns, InitRuns, CallersRun, HandlersRun, Stopped, diagVars
<1> QED BY <1>1, CrashInvariant, PTL DEF DiagSpec, ReportOnce

-----------------------------------------------------------------------------
(***************************************************************************)
(* The logger.                                                             *)
(***************************************************************************)
Records == [thread : Threads, number : Nat]

LogTyped ==
    /\ queue \in Seq(Records) /\ hand \in Seq(Records) /\ Len(hand) <= 1
    /\ written \in Seq(Records) /\ current \in Seq(Records)
    /\ archives \in [1 .. MaxFiles -> Seq(Records)]
    /\ initStep \in {"idle", "join", "open"} /\ slipped \in BOOLEAN

\* Who starts a worker finds none at work.
OneWorker == initStep = "open" \/ (initStep = "idle" /\ ~running) => worker \in {"none", "ended"}

\* A thread has logged every record that is on its way.
Numbered == \A i \in 1 .. Len(Trail) : Trail[i].number <= logged[Trail[i].thread]

\* The files hold what was written.
FilesWritten ==
    \A k \in 0 .. MaxFiles : \A i \in 1 .. Len(File(k)) :
       \E p \in 1 .. Len(written) : File(k)[i] = written[p]

\* The logger's inductive invariant.
LogInv ==
    /\ LoggerTypeOK /\ LogTyped /\ OneWorker
    /\ RecordsInOrder /\ Numbered
    /\ FilesWritten /\ FilesInOrder /\ NewestKept

LEMMA OrderOfTrail ==
    RecordsInOrder <=> \A i, j \in 1 .. Len(Trail) : i < j => Before(Trail[i], Trail[j])
  BY DEF RecordsInOrder

LEMMA TrailType == LogTyped => Trail \in Seq(Records)
  BY DEF LogTyped, Trail

\* Nothing new is on its way.
LEMMA TrailKeeps ==
    ASSUME RecordsInOrder, Numbered, Trail' = Trail, logged' = logged
    PROVE  RecordsInOrder' /\ Numbered'
<1>1. RecordsInOrder'
  BY OrderOfTrail DEF RecordsInOrder, Trail
<1>2. Numbered'
  BY DEF Numbered
<1> QED BY <1>1, <1>2

\* No file changes.
LEMMA FilesKeep ==
    ASSUME FilesWritten, FilesInOrder, NewestKept, UNCHANGED <<current, archives, written, slipped>>
    PROVE  (FilesWritten /\ FilesInOrder /\ NewestKept)'
<1>1. /\ current' = current /\ archives' = archives
      /\ written' = written /\ slipped' = slipped
  OBVIOUS
<1>2. \A k : File(k)' = File(k)
  BY <1>1 DEF File
<1>3. FilesWritten'
  BY <1>1, <1>2 DEF FilesWritten
<1>4. FilesInOrder'
  BY <1>1, <1>2 DEF FilesInOrder
<1>5. NewestKept'
  BY <1>1, <1>2 DEF NewestKept
<1> QED BY <1>3, <1>4, <1>5

\* A step that moves nothing.
LEMMA LogStill ==
    ASSUME LogInv, UNCHANGED <<queue, hand, current, archives, written, slipped, logged>>,
           LoggerTypeOK', initStep' \in {"idle", "join", "open"}, OneWorker'
    PROVE  LogInv'
<1>1. queue' = queue /\ hand' = hand /\ logged' = logged /\ written' = written
      /\ current' = current /\ archives' = archives /\ slipped' = slipped
  OBVIOUS
<1>2. LogTyped'
  BY <1>1 DEF LogInv, LogTyped
<1>3. Trail' = Trail
  BY <1>1 DEF Trail
<1> QED BY <1>1, <1>2, <1>3, TrailKeeps, FilesKeep DEF LogInv

-----------------------------------------------------------------------------
LEMMA InitLog == DiagInit => LogInv
<1> SUFFICES ASSUME LoggerInit PROVE LogInv
  BY DEF DiagInit
<1>1. /\ queue = <<>> /\ hand = <<>> /\ written = <<>> /\ current = <<>> /\ worker = "none"
      /\ initStep = "idle" /\ slipped = FALSE /\ running = FALSE /\ open = FALSE
      /\ archives = [i \in 1 .. MaxFiles |-> <<>>] /\ logged = [t \in Threads |-> 0]
  BY DEF LoggerInit
<1>2. LogTyped
  <2>1. <<>> \in Seq(Records) /\ Len(<<>>) = 0
    BY EmptySeq
  <2>2. archives \in [1 .. MaxFiles -> Seq(Records)]
    BY <1>1, <2>1
  <2>3. queue \in Seq(Records) /\ hand \in Seq(Records) /\ written \in Seq(Records) /\ current \in Seq(Records)
    BY <1>1, <2>1
  <2>4. Len(hand) <= 1
    BY <1>1
  <2> QED BY <1>1, <2>2, <2>3, <2>4, Zenon DEF LogTyped
<1>3. LoggerTypeOK
  <2>1. Len(queue) = 0 /\ logged \in [Threads -> Nat]
    BY <1>1
  <2>2. Len(queue) <= QueueCap
    BY <2>1, LoggerAssumption
  <2> QED BY <1>1, <2>1, <2>2, Zenon DEF LoggerTypeOK
<1>4. OneWorker
  BY <1>1 DEF OneWorker
<1>5. RecordsInOrder /\ Numbered
  <2>1. Trail = <<>>
    BY <1>1 DEF Trail
  <2> QED BY <2>1, OrderOfTrail DEF Numbered
<1>6. \A k \in 0 .. MaxFiles : File(k) = <<>>
  BY <1>1, LoggerAssumption DEF File
<1>7. FilesWritten /\ FilesInOrder
  BY <1>6 DEF FilesWritten, FilesInOrder
<1>8. NewestKept
  <2> DEFINE ends == [k \in 0 .. MaxFiles + 1 |-> 0]
  <2>1. ends \in [0 .. MaxFiles + 1 -> 0 .. Len(written)] /\ ends[0] = Len(written)
    BY <1>1, LoggerAssumption
  <2>2. ASSUME NEW k \in 0 .. MaxFiles
        PROVE  ends[k + 1] <= ends[k] /\ File(k) = SubSeq(written, ends[k + 1] + 1, ends[k])
    <3>1. File(k) = <<>> /\ ends[k] = 0 /\ ends[k + 1] = 0
      BY <1>6, LoggerAssumption
    <3>2. SubSeq(written, 1, 0) = <<>>
      BY SubSeqEmpty
    <3> HIDE DEF ends
    <3> QED BY <3>1, <3>2
  <2> HIDE DEF ends
  <2> QED BY <2>1, <2>2 DEF NewestKept
<1> QED BY <1>2, <1>3, <1>4, <1>5, <1>7, <1>8 DEF LogInv

\* A record gets in line behind those of its thread.
LEMMA RecordKeeps ==
    ASSUME LogInv, NEW t \in Threads, Log(t)
    PROVE  LogInv'
<1>1. /\ worker # "blocking" /\ worker' = (IF worker = "blocked" THEN "lock" ELSE worker)
      /\ logged' = [logged EXCEPT ![t] = @ + 1]
      /\ UNCHANGED <<running, hand, initStep, inits, open, current, archives, written, slipped>>
  BY DEF Log, Enqueue, initVars, fileVars
<1>2. logged[t] \in Nat /\ logged \in [Threads -> Nat] /\ queue \in Seq(Records) /\ Len(queue) <= QueueCap
  BY DEF LogInv, LogTyped, LoggerTypeOK
<1>3. Record(t) \in Records /\ Record(t).thread = t /\ Record(t).number = logged[t] + 1
  BY <1>2 DEF Record, Records
<1>4. queue' \in Seq(Records) /\ Len(queue') <= QueueCap
  <2>1. CASE Len(queue) < QueueCap
    <3>1. queue' = Append(queue, Record(t))
      BY <2>1 DEF Log, Enqueue
    <3>2. queue' \in Seq(Records) /\ Len(queue') = Len(queue) + 1 /\ Len(queue) \in Nat
      BY <1>2, <1>3, <3>1, AppendProperties
    <3> QED BY <2>1, <3>2, LoggerAssumption
  <2>2. CASE ~(Len(queue) < QueueCap)
    BY <1>2, <2>2 DEF Log, Enqueue
  <2> QED BY <2>1, <2>2
<1>5. LogTyped'
  BY <1>1, <1>4 DEF LogInv, LogTyped
<1>6. LoggerTypeOK'
  BY <1>1, <1>2, <1>4 DEF LogInv, LoggerTypeOK
<1>7. OneWorker'
  BY <1>1 DEF LogInv, OneWorker
<1>8. Trail' = Trail \/ Trail' = Append(Trail, Record(t))
  <2>1. queue' = queue \/ queue' = Append(queue, Record(t))
    BY DEF Log, Enqueue
  <2>2. CASE queue' = queue
    BY <1>1, <2>2 DEF Trail
  <2>3. CASE queue' = Append(queue, Record(t))
    <3>1. written \in Seq(Records) /\ hand \in Seq(Records)
      BY DEF LogInv, LogTyped
    <3> QED BY <1>1, <1>2, <1>3, <2>3, <3>1 DEF Trail
  <2> QED BY <2>1, <2>2, <2>3
<1>9. \A u \in Threads : logged'[u] \in Nat /\ logged'[u] >= logged[u]
  BY <1>1, <1>2
<1>10. Trail \in Seq(Records) /\ \A i \in 1 .. Len(Trail) : Trail[i] \in Records
  BY TrailType DEF LogInv
<1>11. Numbered'
  <2> SUFFICES ASSUME NEW i \in 1 .. Len(Trail') PROVE Trail'[i].number <= logged'[Trail'[i].thread]
    BY DEF Numbered
  <2>1. CASE i \in 1 .. Len(Trail) /\ Trail'[i] = Trail[i]
    <3>1. Trail[i].number <= logged[Trail[i].thread] /\ Trail[i].number \in Nat /\ Trail[i].thread \in Threads
      BY <1>10, <2>1 DEF LogInv, Numbered, Records
    <3> QED BY <1>2, <1>9, <2>1, <3>1
  <2>2. CASE Trail'[i] = Record(t)
    BY <1>1, <1>2, <1>3, <2>2
  <2> QED BY <1>8, <1>10, <2>1, <2>2
<1>12. RecordsInOrder'
  <2> SUFFICES ASSUME NEW i \in 1 .. Len(Trail'), NEW j \in 1 .. Len(Trail'), i < j
               PROVE  Before(Trail'[i], Trail'[j])
    BY DEF RecordsInOrder, Trail
  <2>1. i \in 1 .. Len(Trail) /\ Trail'[i] = Trail[i]
    BY <1>8, <1>10
  <2>2. CASE j \in 1 .. Len(Trail) /\ Trail'[j] = Trail[j]
    BY <2>1, <2>2, OrderOfTrail DEF LogInv
  <2>3. CASE Trail'[j] = Record(t)
    <3>1. Trail[i].number <= logged[Trail[i].thread] /\ Trail[i].number \in Nat
      BY <1>10, <2>1 DEF LogInv, Numbered, Records
    <3> QED BY <1>2, <1>3, <2>1, <2>3, <3>1 DEF Before
  <2> QED BY <1>8, <1>10, <2>2, <2>3
<1>13. UNCHANGED <<current, archives, written, slipped>>
  BY <1>1
<1>14. (FilesWritten /\ FilesInOrder /\ NewestKept)'
  BY <1>13, FilesKeep DEF LogInv
<1> QED BY <1>5, <1>6, <1>7, <1>11, <1>12, <1>14 DEF LogInv

\* The oldest record moves from the queue to the worker's hand.
LEMMA TakeKeepsTrail ==
    ASSUME LogInv, WorkerTakes \/ WorkerDrains
    PROVE  Trail' = Trail
<1>1. written' = written /\ worker \in {"lock", "drain"}
  BY DEF WorkerTakes, WorkerDrains, fileVars
<1>2. hand = <<>> /\ queue \in Seq(Records) /\ written \in Seq(Records)
  BY <1>1 DEF LogInv, LogTyped, LoggerTypeOK
<1>3. CASE queue = <<>>
  BY <1>1, <1>3 DEF WorkerTakes, WorkerDrains, Trail
<1>4. CASE queue # <<>>
  <2>1. hand' = <<Head(queue)>> /\ queue' = Tail(queue)
    BY <1>4 DEF WorkerTakes, WorkerDrains
  <2>2. Head(queue) \in Records /\ Tail(queue) \in Seq(Records)
    BY <1>2, <1>4
  <2> QED BY <1>1, <1>2, <1>4, <2>1, <2>2 DEF Trail
<1> QED BY <1>3, <1>4

\* The worker takes the oldest record.
LEMMA TakeKeeps ==
    ASSUME LogInv, WorkerTakes \/ WorkerDrains
    PROVE  LogInv'
<1>1. /\ UNCHANGED <<running, initStep, inits, logged, open, current, archives, written, slipped>>
      /\ worker \in {"lock", "drain"}
  BY DEF WorkerTakes, WorkerDrains, initVars, fileVars, callerVars
<1>2. hand = <<>> /\ queue \in Seq(Records) /\ Len(queue) <= QueueCap
  BY <1>1 DEF LogInv, LogTyped, LoggerTypeOK
<1>3. CASE queue = <<>>
  <2>1. /\ UNCHANGED <<queue, hand>>
        /\ worker' = IF worker = "drain" THEN "ended" ELSE IF running THEN "blocking" ELSE "top"
    BY <1>3 DEF WorkerTakes, WorkerDrains
  <2>2. LoggerTypeOK'
    BY <1>1, <1>2, <2>1 DEF LogInv, LoggerTypeOK
  <2>3. OneWorker'
    BY <1>1, <2>1 DEF LogInv, OneWorker
  <2>4. initStep' \in {"idle", "join", "open"}
    BY <1>1 DEF LogInv, LogTyped
  <2> QED BY <1>1, <2>1, <2>2, <2>3, <2>4, LogStill
<1>4. CASE queue # <<>>
  <2>1. /\ hand' = <<Head(queue)>> /\ queue' = Tail(queue)
        /\ worker' = IF worker = "drain" THEN "drainWrite" ELSE "write"
    BY <1>4 DEF WorkerTakes, WorkerDrains
  <2>2. Head(queue) \in Records /\ Tail(queue) \in Seq(Records) /\ Len(Tail(queue)) <= QueueCap
    BY <1>2, <1>4, LoggerAssumption
  <2>3. LogTyped'
    BY <1>1, <2>1, <2>2 DEF LogInv, LogTyped
  <2>4. LoggerTypeOK'
    BY <1>1, <2>1, <2>2 DEF LogInv, LoggerTypeOK
  <2>5. OneWorker'
    BY <1>1 DEF LogInv, OneWorker
  <2>6. Trail' = Trail
    BY TakeKeepsTrail
  <2> QED BY <1>1, <2>3, <2>4, <2>5, <2>6, TrailKeeps, FilesKeep DEF LogInv
<1> QED BY <1>3, <1>4

-----------------------------------------------------------------------------
\* Files in order, as FilesInOrder says of File.
InOrder(F, m) ==
    \A k, l \in 0 .. m : \A i \in 1 .. Len(F[k]), j \in 1 .. Len(F[l]) :
       k > l \/ (k = l /\ i < j) => Before(F[k][i], F[l][j])

\* File n of G is the newest one of F with a record appended, and the older ones of G
\* are some of the older ones of F, in their order.
LEMMA OrderAppended ==
    ASSUME NEW m \in Nat \ {0}, NEW h \in Records, NEW n \in 0 .. 1,
           NEW F \in [0 .. m -> Seq(Records)], NEW G \in [0 .. m -> Seq(Records)],
           InOrder(F, m),
           \A k \in 0 .. m : \A i \in 1 .. Len(F[k]) : Before(F[k][i], h),
           G[n] = Append(F[0], h),
           \A k \in 0 .. m : k < n => G[k] = <<>>,
           \A k \in n + 1 .. m : G[k] = <<>> \/ \E r \in 1 .. m : G[k] = F[r],
           \A k, l \in n + 1 .. m :
              k > l /\ G[k] # <<>> /\ G[l] # <<>> =>
                \E r, s \in 1 .. m : r > s /\ G[k] = F[r] /\ G[l] = F[s]
    PROVE  InOrder(G, m)
<1> SUFFICES ASSUME NEW k \in 0 .. m, NEW l \in 0 .. m,
                    NEW i \in 1 .. Len(G[k]), NEW j \in 1 .. Len(G[l]),
                    k > l \/ (k = l /\ i < j)
             PROVE  Before(G[k][i], G[l][j])
  BY DEF InOrder
<1>1. G[k] # <<>> /\ G[l] # <<>> /\ k >= n /\ l >= n
  BY EmptySeq
<1>2. n \in 0 .. m /\ 0 \in 0 .. m /\ F[0] \in Seq(Records)
  OBVIOUS
<1>3. /\ Len(G[n]) = Len(F[0]) + 1 /\ G[n][Len(F[0]) + 1] = h
      /\ \A p \in 1 .. Len(F[0]) : G[n][p] = F[0][p]
  BY <1>2, AppendProperties
<1>4. CASE l > n
  <2>1. k > l \/ k = l
    OBVIOUS
  <2>2. CASE k > l
    <3>1. PICK r \in 1 .. m, s \in 1 .. m : r > s /\ G[k] = F[r] /\ G[l] = F[s]
      <4>1. k \in n + 1 .. m /\ l \in n + 1 .. m
        BY <1>4, <2>2
      <4> QED BY <1>1, <2>2, <4>1
    <3>2. r \in 0 .. m /\ s \in 0 .. m
      OBVIOUS
    <3> QED BY <3>1, <3>2 DEF InOrder
  <2>3. CASE k = l
    <3>1. PICK r \in 1 .. m : G[k] = F[r]
      BY <1>1, <1>4, <2>3
    <3>2. r \in 0 .. m /\ i < j
      BY <2>3
    <3> QED BY <2>3, <3>1, <3>2 DEF InOrder
  <2> QED BY <2>1, <2>2, <2>3
<1>5. CASE l = n
  <2>1. CASE k > n
    <3>1. PICK r \in 1 .. m : G[k] = F[r]
      BY <1>1, <2>1
    <3>2. r \in 0 .. m /\ i \in 1 .. Len(F[r]) /\ r > 0
      BY <3>1
    <3>3. CASE j \in 1 .. Len(F[0])
      <4>1. G[l][j] = F[0][j]
        BY <1>3, <1>5, <3>3
      <4>2. Before(F[r][i], F[0][j])
        BY <1>2, <3>2, <3>3, <4>1 DEF InOrder
      <4> QED BY <3>1, <4>1, <4>2
    <3>4. CASE j = Len(F[0]) + 1
      BY <1>3, <1>5, <3>1, <3>2, <3>4
    <3> QED BY <1>2, <1>3, <1>5, <3>3, <3>4
  <2>2. CASE k = n
    <3>1. i < j /\ i \in 1 .. Len(F[0])
      BY <1>2, <1>3, <1>5, <2>2
    <3>2. CASE j \in 1 .. Len(F[0])
      <4>1. G[k][i] = F[0][i] /\ G[l][j] = F[0][j]
        BY <1>3, <1>5, <2>2, <3>1, <3>2
      <4>2. Before(F[0][i], F[0][j])
        BY <1>2, <3>1, <3>2, <4>1 DEF InOrder
      <4> QED BY <4>1, <4>2
    <3>3. CASE j = Len(F[0]) + 1
      <4>1. G[k][i] = F[0][i] /\ G[l][j] = h
        BY <1>3, <1>5, <2>2, <3>1, <3>3
      <4> QED BY <1>2, <3>1, <4>1
    <3> QED BY <1>2, <1>3, <1>5, <3>2, <3>3
  <2> QED BY <1>1, <2>1, <2>2
<1> QED BY <1>1, <1>4, <1>5

\* The renames keep the archives in their order.
LEMMA ShiftedInOrder ==
    ASSUME LogTyped, NEW failed
    PROVE  /\ Shifted(failed) \in [1 .. MaxFiles -> Seq(Records)]
           /\ \A k \in 1 .. MaxFiles : Shifted(failed)[k] = <<>> \/
                 \E r \in 1 .. MaxFiles : Shifted(failed)[k] = archives[r]
           /\ \A k, l \in 1 .. MaxFiles :
                 k > l /\ Shifted(failed)[k] # <<>> /\ Shifted(failed)[l] # <<>> =>
                   \E r, s \in 1 .. MaxFiles :
                      r > s /\ Shifted(failed)[k] = archives[r] /\ Shifted(failed)[l] = archives[s]
<1> DEFINE Moved(i) == i \in 1 .. MaxFiles - 1 /\ archives[i] # <<>> /\ i \notin failed
           S == Shifted(failed)
<1>1. S = [j \in 1 .. MaxFiles |->
             IF Moved(j - 1) THEN archives[j - 1]
             ELSE IF Moved(j) \/ (j = MaxFiles /\ j \notin failed) THEN <<>>
             ELSE archives[j]]
  BY DEF Shifted
<1>2. \A i : Moved(i) => i \in 1 .. MaxFiles
  BY LoggerAssumption
<1>3. archives \in [1 .. MaxFiles -> Seq(Records)] /\ <<>> \in Seq(Records)
  BY EmptySeq DEF LogTyped
<1>4. \A k \in 1 .. MaxFiles : S[k] = IF Moved(k - 1) THEN archives[k - 1]
                                    ELSE IF Moved(k) \/ (k = MaxFiles /\ k \notin failed) THEN <<>>
                                    ELSE archives[k]
  BY <1>1
<1> HIDE DEF Moved, S
<1>5. \A k \in 1 .. MaxFiles : S[k] \in Seq(Records)
  BY <1>2, <1>3, <1>4
<1>6. S \in [1 .. MaxFiles -> Seq(Records)]
  BY <1>1, <1>5
<1>7. \A k \in 1 .. MaxFiles : S[k] = <<>> \/ \E r \in 1 .. MaxFiles : S[k] = archives[r]
  BY <1>2, <1>4
<1>8. ASSUME NEW k \in 1 .. MaxFiles, NEW l \in 1 .. MaxFiles, k > l, S[k] # <<>>, S[l] # <<>>
      PROVE  \E r, s \in 1 .. MaxFiles : r > s /\ S[k] = archives[r] /\ S[l] = archives[s]
  <2>1. CASE Moved(k - 1) /\ Moved(l - 1)
    <3>1. k - 1 \in 1 .. MaxFiles /\ l - 1 \in 1 .. MaxFiles /\ k - 1 > l - 1
      BY <1>2, <1>8, <2>1
    <3> QED BY <1>4, <2>1, <3>1
  <2>2. CASE Moved(k - 1) /\ ~Moved(l - 1)
    <3>1. ~Moved(l) /\ S[l] = archives[l]
      BY <1>4, <1>8, <2>2
    <3>2. k - 1 # l
      BY <2>2, <3>1
    <3>3. k - 1 \in 1 .. MaxFiles /\ k - 1 > l
      BY <1>2, <1>8, <2>2, <3>2
    <3> QED BY <1>4, <2>2, <3>1, <3>3
  <2>3. CASE ~Moved(k - 1) /\ Moved(l - 1)
    <3>1. S[k] = archives[k] /\ S[l] = archives[l - 1]
      BY <1>4, <1>8, <2>3
    <3>2. l - 1 \in 1 .. MaxFiles /\ k > l - 1
      BY <1>2, <1>8, <2>3
    <3> QED BY <3>1, <3>2
  <2>4. CASE ~Moved(k - 1) /\ ~Moved(l - 1)
    <3>1. S[k] = archives[k] /\ S[l] = archives[l]
      BY <1>4, <1>8, <2>4
    <3> QED BY <1>8, <3>1
  <2> QED BY <2>1, <2>2, <2>3, <2>4
<1> QED BY <1>6, <1>7, <1>8 DEF S

-----------------------------------------------------------------------------
\* Writing a record: some file n gets it, those before n are empty, and those after n
\* are some of the older files in their order; all of them, unless something was refused.
Wrote(h, n) ==
    /\ written' = Append(written, h) /\ slipped' \in BOOLEAN
    /\ current' \in Seq(Records) /\ archives' \in [1 .. MaxFiles -> Seq(Records)]
    /\ File(n)' = Append(File(0), h)
    /\ \A k \in 0 .. MaxFiles : k < n => File(k)' = <<>>
    /\ \A k \in n + 1 .. MaxFiles : File(k)' = <<>> \/ \E r \in 1 .. MaxFiles : File(k)' = File(r)
    /\ \A k, l \in n + 1 .. MaxFiles :
          k > l /\ File(k)' # <<>> /\ File(l)' # <<>> =>
            \E r, s \in 1 .. MaxFiles : r > s /\ File(k)' = File(r) /\ File(l)' = File(s)
    /\ ~slipped' => ~slipped /\ \A k \in n + 1 .. MaxFiles : File(k)' = File(k - n)

\* The renames, none of which was refused.
LEMMA ShiftedByOne ==
    ASSUME LogTyped, NEW k \in 2 .. MaxFiles
    PROVE  Shifted({})[k] = archives[k - 1]
<1> DEFINE Moved(i) == i \in 1 .. MaxFiles - 1 /\ archives[i] # <<>> /\ i \notin {}
<1>1. k \in 1 .. MaxFiles /\ k - 1 \in 1 .. MaxFiles - 1
  BY LoggerAssumption
<1>2. Shifted({})[k] = IF Moved(k - 1) THEN archives[k - 1]
                       ELSE IF Moved(k) \/ (k = MaxFiles /\ k \notin {}) THEN <<>>
                       ELSE archives[k]
  BY <1>1 DEF Shifted
<1>3. CASE archives[k - 1] # <<>>
  BY <1>1, <1>2, <1>3
<1>4. CASE archives[k - 1] = <<>>
  <2>1. Shifted({})[k] = IF Moved(k) \/ k = MaxFiles THEN <<>> ELSE archives[k]
    BY <1>2, <1>4
  <2>2. k # MaxFiles => k \in 1 .. MaxFiles - 1
    BY <1>1, LoggerAssumption
  <2> QED BY <1>4, <2>1, <2>2
<1> QED BY <1>3, <1>4

LEMMA WriteWrites ==
    ASSUME LogInv, WorkerWrites, open, NEW h \in Records, hand = <<h>>
    PROVE  \E n \in 0 .. 1 : Wrote(h, n)
<1>1. /\ current \in Seq(Records) /\ archives \in [1 .. MaxFiles -> Seq(Records)]
      /\ written \in Seq(Records) /\ slipped \in BOOLEAN /\ LogTyped
  BY DEF LogInv, LogTyped
<1> DEFINE content == Append(current, h)
<1>2. current \o hand = content /\ written \o hand = Append(written, h) /\ content \in Seq(Records)
  BY <1>1, AppendIsConcat, AppendProperties
<1> HIDE DEF content
<1>3. /\ written' = Append(written, h)
      /\ IF Len(content) >= MaxFileSize THEN RotateFiles(content)
         ELSE current' = content /\ UNCHANGED <<archives, open, slipped>>
  BY <1>2 DEF WorkerWrites, WriteRecord
<1>4. File(0) = current /\ \A k \in 1 .. MaxFiles : File(k) = archives[k]
  BY DEF File
<1>5. File(0)' = current' /\ \A k \in 1 .. MaxFiles : File(k)' = archives'[k]
  BY DEF File
<1>6. CASE current' = content /\ UNCHANGED <<archives, open, slipped>>
  <2>1. \A k \in 1 .. MaxFiles : File(k)' = File(k)
    BY <1>4, <1>5, <1>6
  <2>2. File(0)' = Append(File(0), h)
    BY <1>4, <1>5, <1>6 DEF content
  <2>3. \A k \in 0 + 1 .. MaxFiles : k \in 1 .. MaxFiles /\ k - 0 = k
    OBVIOUS
  <2>4. Wrote(h, 0)
    BY <1>1, <1>2, <1>3, <1>6, <2>1, <2>2, <2>3 DEF Wrote
  <2> QED BY <2>4
<1>7. CASE RotateFiles(content)
  <2>1. PICK failed \in SUBSET ({0} \cup {i \in 1 .. MaxFiles : archives[i] # <<>>}), reopened \in BOOLEAN :
          /\ IF 0 \in failed THEN current' = content /\ archives' = Shifted(failed)
             ELSE current' = <<>> /\ archives' = [Shifted(failed) EXCEPT ![1] = content]
          /\ slipped' = (slipped \/ failed # {} \/ ~reopened)
    BY <1>7 DEF RotateFiles
  <2>2. slipped' \in BOOLEAN /\ (~slipped' => ~slipped /\ failed = {})
    BY <1>1, <2>1
  <2>3. /\ Shifted(failed) \in [1 .. MaxFiles -> Seq(Records)]
        /\ \A k \in 1 .. MaxFiles : Shifted(failed)[k] = <<>> \/
             \E r \in 1 .. MaxFiles : Shifted(failed)[k] = File(r)
        /\ \A k, l \in 1 .. MaxFiles :
             k > l /\ Shifted(failed)[k] # <<>> /\ Shifted(failed)[l] # <<>> =>
               \E r, s \in 1 .. MaxFiles :
                  r > s /\ Shifted(failed)[k] = File(r) /\ Shifted(failed)[l] = File(s)
    BY <1>1, <1>4, ShiftedInOrder
  <2>4. CASE 0 \in failed
    <3>1. current' = content /\ archives' = Shifted(failed) /\ slipped'
      BY <2>1, <2>2, <2>4
    <3>2. \A k \in 1 .. MaxFiles : File(k)' = Shifted(failed)[k]
      BY <1>5, <3>1
    <3>3. File(0)' = Append(File(0), h)
      BY <1>4, <1>5, <3>1 DEF content
    <3>4. \A k \in 0 + 1 .. MaxFiles : k \in 1 .. MaxFiles
      OBVIOUS
    <3>5. \A k \in 0 .. MaxFiles : ~(k < 0)
      OBVIOUS
    <3>6. Wrote(h, 0)
      BY <1>2, <1>3, <2>2, <2>3, <3>1, <3>2, <3>3, <3>4, <3>5 DEF Wrote
    <3> QED BY <3>6
  <2>5. CASE 0 \notin failed
    <3>1. current' = <<>> /\ archives' = [Shifted(failed) EXCEPT ![1] = content]
      BY <2>1, <2>5
    <3>2. 1 \in 1 .. MaxFiles /\ \A k \in 1 + 1 .. MaxFiles : k \in 1 .. MaxFiles /\ k # 1 /\ k \in 2 .. MaxFiles
      BY LoggerAssumption
    <3>3. archives' \in [1 .. MaxFiles -> Seq(Records)] /\ current' \in Seq(Records)
      BY <1>2, <2>3, <3>1, EmptySeq
    <3>4. \A k \in 1 + 1 .. MaxFiles : File(k)' = Shifted(failed)[k]
      BY <1>5, <2>3, <3>1, <3>2
    <3>5. File(1)' = Append(File(0), h)
      BY <1>4, <1>5, <2>3, <3>1, <3>2 DEF content
    <3>6. \A k \in 0 .. MaxFiles : k < 1 => File(k)' = <<>>
      BY <1>5, <3>1
    <3>7. ASSUME ~slipped', NEW k \in 1 + 1 .. MaxFiles PROVE File(k)' = File(k - 1)
      <4>1. k \in 2 .. MaxFiles /\ k - 1 \in 1 .. MaxFiles
        BY LoggerAssumption
      <4>2. Shifted(failed)[k] = archives[k - 1]
        BY <1>1, <2>2, <3>7, <4>1, ShiftedByOne
      <4> QED BY <1>4, <3>4, <4>1, <4>2
    <3>8. Wrote(h, 1)
      BY <1>3, <2>2, <2>3, <3>2, <3>3, <3>4, <3>5, <3>6, <3>7 DEF Wrote
    <3> QED BY <3>8
  <2> QED BY <2>4, <2>5
<1> QED BY <1>3, <1>6, <1>7

-----------------------------------------------------------------------------
LEMMA SubSeqAppended ==
    ASSUME NEW w \in Seq(Records), NEW h \in Records, NEW a \in 0 .. Len(w), NEW b \in 0 .. Len(w), a <= b
    PROVE  /\ SubSeq(Append(w, h), a + 1, b) = SubSeq(w, a + 1, b)
           /\ SubSeq(Append(w, h), a + 1, Len(w) + 1) = Append(SubSeq(w, a + 1, Len(w)), h)
<1> DEFINE v == Append(w, h)
<1>1. /\ v \in Seq(Records) /\ Len(v) = Len(w) + 1 /\ v[Len(w) + 1] = h
      /\ \A i \in 1 .. Len(w) : v[i] = w[i]
  BY AppendProperties
<1>2. \A i \in 1 .. Len(w) : w[i] \in Records
  BY ElementOfSeq
<1> HIDE DEF v
<1>3. Len(w) \in Nat
  OBVIOUS
<1>4. SubSeq(v, a + 1, b) = SubSeq(w, a + 1, b)
  <2>1. /\ SubSeq(v, a + 1, b) \in Seq(Records) /\ Len(SubSeq(v, a + 1, b)) = b - a
        /\ \A i \in 1 .. b - a : SubSeq(v, a + 1, b)[i] = v[a + i]
    <3>1. \A i \in a + 1 .. b : v[i] \in Records
      BY <1>1, <1>2, <1>3
    <3> QED BY <1>3, <3>1, SubSeqProperties
  <2>2. /\ SubSeq(w, a + 1, b) \in Seq(Records) /\ Len(SubSeq(w, a + 1, b)) = b - a
        /\ \A i \in 1 .. b - a : SubSeq(w, a + 1, b)[i] = w[a + i]
    <3>1. \A i \in a + 1 .. b : w[i] \in Records
      BY <1>2, <1>3
    <3> QED BY <1>3, <3>1, SubSeqProperties
  <2>3. \A i \in 1 .. b - a : v[a + i] = w[a + i]
    BY <1>1, <1>3
  <2> QED BY <2>1, <2>2, <2>3, SeqEqual
<1>5. SubSeq(v, a + 1, Len(w) + 1) = Append(SubSeq(w, a + 1, Len(w)), h)
  <2> DEFINE u == SubSeq(w, a + 1, Len(w))
             x == SubSeq(v, a + 1, Len(w) + 1)
  <2>1. x \in Seq(Records) /\ Len(x) = Len(w) + 1 - a /\ \A i \in 1 .. Len(w) + 1 - a : x[i] = v[a + i]
    <3>1. \A i \in a + 1 .. Len(w) + 1 : v[i] \in Records
      BY <1>1, <1>2, <1>3
    <3> QED BY <1>3, <3>1, SubSeqProperties
  <2>2. u \in Seq(Records) /\ Len(u) = Len(w) - a /\ \A i \in 1 .. Len(w) - a : u[i] = w[a + i]
    <3>1. \A i \in a + 1 .. Len(w) : w[i] \in Records
      BY <1>2, <1>3
    <3> QED BY <1>3, <3>1, SubSeqProperties
  <2> HIDE DEF u, x
  <2>3. /\ Append(u, h) \in Seq(Records) /\ Len(Append(u, h)) = Len(u) + 1
        /\ Append(u, h)[Len(u) + 1] = h /\ \A i \in 1 .. Len(u) : Append(u, h)[i] = u[i]
    BY <2>2, AppendProperties
  <2>4. ASSUME NEW i \in 1 .. Len(x) PROVE x[i] = Append(u, h)[i]
    <3>1. x[i] = v[a + i]
      BY <2>1
    <3>2. CASE i = Len(u) + 1
      BY <1>1, <1>3, <2>2, <2>3, <3>1, <3>2
    <3>3. CASE i \in 1 .. Len(u)
      <4>1. a + i \in 1 .. Len(w)
        BY <1>3, <2>2, <3>3
      <4> QED BY <1>1, <2>2, <2>3, <3>1, <3>3, <4>1
    <3> QED BY <1>3, <2>1, <2>2, <3>2, <3>3
  <2>5. x = Append(u, h)
    BY <1>3, <2>1, <2>2, <2>3, <2>4, SeqEqual
  <2> QED BY <2>5 DEF u, x
<1> QED BY <1>4, <1>5 DEF v

LEMMA FileTypes == LogTyped => \A k \in 0 .. MaxFiles : File(k) \in Seq(Records)
  BY DEF LogTyped, File

\* The newest records stay, with the record.
LEMMA WriteKeepsNewest ==
    ASSUME LogTyped, NewestKept, NEW h \in Records, NEW n \in 0 .. 1, Wrote(h, n)
    PROVE  NewestKept'
<1> SUFFICES ASSUME ~slipped' PROVE NewestKept'
  BY DEF NewestKept
<1>1. ~slipped /\ \A k \in n + 1 .. MaxFiles : File(k)' = File(k - n)
  BY DEF Wrote
<1>2. /\ written' = Append(written, h) /\ File(n)' = Append(File(0), h)
      /\ \A k \in 0 .. MaxFiles : k < n => File(k)' = <<>>
  BY DEF Wrote
<1>3. written \in Seq(Records) /\ Len(written) \in Nat /\ MaxFiles \in Nat \ {0}
      /\ Len(written') = Len(written) + 1
  BY <1>2, LoggerAssumption, AppendProperties DEF LogTyped
<1>4. PICK ends \in [0 .. MaxFiles + 1 -> 0 .. Len(written)] :
          /\ ends[0] = Len(written)
          /\ \A k \in 0 .. MaxFiles : /\ ends[k + 1] <= ends[k]
                                    /\ File(k) = SubSeq(written, ends[k + 1] + 1, ends[k])
  BY <1>1 DEF NewestKept
<1> DEFINE new == [k \in 0 .. MaxFiles + 1 |-> IF k <= n THEN Len(written) + 1 ELSE ends[k - n]]
<1>5. new \in [0 .. MaxFiles + 1 -> 0 .. Len(written')]
  <2>1. ASSUME NEW k \in 0 .. MaxFiles + 1 PROVE (IF k <= n THEN Len(written) + 1 ELSE ends[k - n]) \in 0 .. Len(written')
    <3>1. CASE k <= n
      BY <1>3, <3>1
    <3>2. CASE ~(k <= n)
      <4>1. k - n \in 0 .. MaxFiles + 1
        BY <1>3, <3>2
      <4>2. ends[k - n] \in 0 .. Len(written)
        BY <4>1
      <4> QED BY <1>3, <3>2, <4>2
    <3> QED BY <3>1, <3>2
  <2> QED BY <2>1
<1>6. new[0] = Len(written')
  BY <1>3
<1>7. \A k \in 0 .. MaxFiles + 1 : new[k] = IF k <= n THEN Len(written) + 1 ELSE ends[k - n]
  OBVIOUS
<1> HIDE DEF new
<1>8. ASSUME NEW k \in 0 .. MaxFiles
      PROVE  new[k + 1] <= new[k] /\ File(k)' = SubSeq(written', new[k + 1] + 1, new[k])
  <2>1. k \in 0 .. MaxFiles + 1 /\ k + 1 \in 0 .. MaxFiles + 1
    BY <1>3
  <2>2. CASE k < n
    <3>1. new[k] = Len(written) + 1 /\ new[k + 1] = Len(written) + 1
      BY <1>7, <2>1, <2>2
    <3>2. SubSeq(written', Len(written) + 2, Len(written) + 1) = <<>>
      BY <1>3, SubSeqEmpty
    <3>3. (Len(written) + 1) + 1 = Len(written) + 2 /\ Len(written) + 1 <= Len(written) + 1
      BY <1>3
    <3> QED BY <1>2, <2>2, <3>1, <3>2, <3>3
  <2>3. CASE k = n
    <3>1. new[k] = Len(written) + 1 /\ new[k + 1] = ends[1]
      BY <1>7, <2>1, <2>3
    <3>2. ends[1] \in 0 .. Len(written) /\ File(0) = SubSeq(written, ends[1] + 1, Len(written))
      BY <1>3, <1>4
    <3>3. SubSeq(written', ends[1] + 1, Len(written) + 1) = Append(File(0), h)
      <4>1. Len(written) \in 0 .. Len(written) /\ ends[1] <= Len(written)
        BY <1>3, <3>2
      <4> QED BY <1>2, <1>3, <3>2, <4>1, SubSeqAppended
    <3>4. ends[1] <= Len(written) + 1
      BY <1>3, <3>2
    <3> QED BY <1>2, <2>3, <3>1, <3>3, <3>4
  <2>4. CASE k > n
    <3>1. new[k] = ends[k - n] /\ new[k + 1] = ends[k - n + 1]
      <4>1. k + 1 - n = k - n + 1
        OBVIOUS
      <4> QED BY <1>7, <2>1, <2>4, <4>1
    <3>2. k \in n + 1 .. MaxFiles /\ k - n \in 0 .. MaxFiles
      BY <1>3, <2>4
    <3>3. /\ ends[k - n] \in 0 .. Len(written) /\ ends[k - n + 1] \in 0 .. Len(written)
          /\ ends[k - n + 1] <= ends[k - n]
          /\ File(k - n) = SubSeq(written, ends[k - n + 1] + 1, ends[k - n])
      BY <1>3, <1>4, <3>2
    <3>4. SubSeq(written', ends[k - n + 1] + 1, ends[k - n]) = File(k - n)
      BY <1>2, <1>3, <3>3, SubSeqAppended
    <3> QED BY <1>1, <3>1, <3>2, <3>3, <3>4
  <2> QED BY <2>2, <2>3, <2>4
<1> QED BY <1>5, <1>6, <1>8 DEF NewestKept

\* The records of a thread stay in order in the files, and all of them were written.
LEMMA WriteKeepsOrder ==
    ASSUME LogInv, NEW h \in Records, hand = <<h>>, NEW n \in 0 .. 1, Wrote(h, n)
    PROVE  FilesWritten' /\ FilesInOrder'
<1>1. /\ written \in Seq(Records) /\ Len(written) \in Nat /\ queue \in Seq(Records)
      /\ MaxFiles \in Nat \ {0} /\ LogTyped
  BY LoggerAssumption DEF LogInv, LogTyped
<1>2. /\ written' = Append(written, h) /\ Len(written') = Len(written) + 1
      /\ written'[Len(written) + 1] = h
      /\ \A p \in 1 .. Len(written) : written'[p] = written[p] /\ p \in 1 .. Len(written')
  BY <1>1, AppendProperties DEF Wrote
<1>3. \A k \in 0 .. MaxFiles : File(k) \in Seq(Records)
  BY <1>1, FileTypes
<1>4. \A k \in 0 .. MaxFiles : File(k)' \in Seq(Records)
  BY DEF Wrote, File
<1>5. /\ File(n)' = Append(File(0), h)
      /\ \A k \in 0 .. MaxFiles : k < n => File(k)' = <<>>
      /\ \A k \in n + 1 .. MaxFiles : File(k)' = <<>> \/ \E r \in 1 .. MaxFiles : File(k)' = File(r)
      /\ \A k, l \in n + 1 .. MaxFiles :
            k > l /\ File(k)' # <<>> /\ File(l)' # <<>> =>
              \E r, s \in 1 .. MaxFiles : r > s /\ File(k)' = File(r) /\ File(l)' = File(s)
  BY DEF Wrote
<1>6. \A k \in 0 .. MaxFiles : \A i \in 1 .. Len(File(k)) : \E p \in 1 .. Len(written) : File(k)[i] = written[p]
  BY DEF LogInv, FilesWritten
<1>7. FilesWritten'
  <2> SUFFICES ASSUME NEW k \in 0 .. MaxFiles, NEW i \in 1 .. Len(File(k)')
               PROVE  \E p \in 1 .. Len(written') : File(k)'[i] = written'[p]
    BY DEF FilesWritten
  <2>1. CASE k = n
    <3>1. /\ Len(File(0)) \in Nat /\ Len(File(k)') = Len(File(0)) + 1 /\ File(k)'[Len(File(0)) + 1] = h
          /\ \A j \in 1 .. Len(File(0)) : File(k)'[j] = File(0)[j]
      <4>1. File(0) \in Seq(Records)
        BY <1>1, <1>3
      <4> QED BY <1>5, <2>1, <4>1, AppendProperties
    <3>2. CASE i = Len(File(0)) + 1
      <4>1. Len(written) + 1 \in 1 .. Len(written')
        BY <1>1, <1>2
      <4> QED BY <1>2, <3>1, <3>2, <4>1
    <3>3. CASE i \in 1 .. Len(File(0))
      <4>1. PICK p \in 1 .. Len(written) : File(0)[i] = written[p]
        <5>1. 0 \in 0 .. MaxFiles
          BY <1>1
        <5> QED BY <1>6, <3>3, <5>1
      <4> QED BY <1>2, <3>1, <3>3, <4>1
    <3> QED BY <3>1, <3>2, <3>3
  <2>2. CASE k # n
    <3>1. File(k)' # <<>>
      BY EmptySeq
    <3>2. k \in n + 1 .. MaxFiles
      BY <1>1, <1>5, <2>2, <3>1
    <3>3. PICK r \in 1 .. MaxFiles : File(k)' = File(r)
      BY <1>5, <3>1, <3>2
    <3>4. r \in 0 .. MaxFiles /\ i \in 1 .. Len(File(r))
      BY <3>3
    <3>5. PICK p \in 1 .. Len(written) : File(r)[i] = written[p]
      BY <1>6, <3>4
    <3> QED BY <1>2, <3>3, <3>5
  <2> QED BY <2>1, <2>2
<1>8. FilesInOrder'
  <2> DEFINE F == [k \in 0 .. MaxFiles |-> File(k)]
             G == [k \in 0 .. MaxFiles |-> File(k)']
  <2>1. F \in [0 .. MaxFiles -> Seq(Records)] /\ G \in [0 .. MaxFiles -> Seq(Records)]
    BY <1>3, <1>4
  <2>2. \A k \in 0 .. MaxFiles : F[k] = File(k) /\ G[k] = File(k)'
    OBVIOUS
  <2> HIDE DEF F, G
  <2>3. InOrder(F, MaxFiles)
    BY <2>2, Zenon DEF LogInv, FilesInOrder, InOrder
  <2>4. ASSUME NEW k \in 0 .. MaxFiles, NEW i \in 1 .. Len(F[k]) PROVE Before(F[k][i], h)
    <3>1. PICK p \in 1 .. Len(written) : F[k][i] = written[p]
      BY <1>6, <2>2
    <3> DEFINE q == Len(written) + 1
    <3>2. q \in 1 .. Len(Trail) /\ p \in 1 .. Len(Trail) /\ p < q /\ Trail[p] = written[p] /\ Trail[q] = h
      BY <1>1, ConcatProperties DEF Trail
    <3>3. Before(Trail[p], Trail[q])
      BY <3>2, OrderOfTrail DEF LogInv
    <3> QED BY <3>1, <3>2, <3>3
  <2>5. G[n] = Append(F[0], h) /\ \A k \in 0 .. MaxFiles : k < n => G[k] = <<>>
    BY <1>1, <1>5, <2>2
  <2>6. \A k \in n + 1 .. MaxFiles : k \in 0 .. MaxFiles
    BY <1>1
  <2>7. \A k \in n + 1 .. MaxFiles : G[k] = <<>> \/ \E r \in 1 .. MaxFiles : G[k] = F[r]
    <3>1. \A r \in 1 .. MaxFiles : r \in 0 .. MaxFiles
      OBVIOUS
    <3> QED BY <1>5, <2>2, <2>6, <3>1
  <2>8. \A k, l \in n + 1 .. MaxFiles : k > l /\ G[k] # <<>> /\ G[l] # <<>> =>
            \E r, s \in 1 .. MaxFiles : r > s /\ G[k] = F[r] /\ G[l] = F[s]
    <3>1. \A r \in 1 .. MaxFiles : r \in 0 .. MaxFiles
      OBVIOUS
    <3>2. SUFFICES ASSUME NEW k \in n + 1 .. MaxFiles, NEW l \in n + 1 .. MaxFiles,
                          k > l, G[k] # <<>>, G[l] # <<>>
                   PROVE  \E r, s \in 1 .. MaxFiles : r > s /\ G[k] = F[r] /\ G[l] = F[s]
      OBVIOUS
    <3>3. File(k)' # <<>> /\ File(l)' # <<>>
      BY <2>2, <2>6, <3>2
    <3>4. PICK r \in 1 .. MaxFiles, s \in 1 .. MaxFiles : r > s /\ File(k)' = File(r) /\ File(l)' = File(s)
      BY <1>5, <3>2, <3>3
    <3> QED BY <2>2, <2>6, <3>1, <3>4
  <2>9. InOrder(G, MaxFiles)
    BY <1>1, <2>1, <2>3, <2>4, <2>5, <2>7, <2>8, OrderAppended
  <2> QED BY <2>2, <2>9, Zenon DEF FilesInOrder, InOrder
<1> QED BY <1>7, <1>8

LEMMA OneLeft == \A n \in Nat : n <= 1 /\ n # 0 => n = 1
  OBVIOUS

\* A worker that writes has one record in hand.
LEMMA WriteInHand ==
    ASSUME LogInv, WorkerWrites
    PROVE  \E h \in Records : hand = <<h>>
<1>1. hand \in Seq(Records) /\ Len(hand) <= 1 /\ hand # <<>>
  BY DEF WorkerWrites, LogInv, LogTyped, LoggerTypeOK
<1>2. Len(hand) \in Nat /\ Len(hand) # 0
  BY <1>1, LenProperties
<1>3. Len(hand) = 1
  BY <1>1, <1>2, OneLeft, Zenon
<1>4. hand[1] \in Records
  BY <1>1, <1>3, ElementOfSeq
<1> QED BY <1>1, <1>3, <1>4

\* A record leaves the worker's hands, into a file or not.
LEMMA WriteKeepsLog ==
    ASSUME LogInv, WorkerWrites
    PROVE  LogInv'
<1>1. /\ worker \in {"write", "drainWrite"} /\ hand' = <<>>
      /\ worker' = IF worker = "write" THEN "top" ELSE "drain"
      /\ UNCHANGED <<running, queue, initStep, inits, logged>>
  BY DEF WorkerWrites, initVars, callerVars
<1>2. /\ hand \in Seq(Records) /\ Len(hand) <= 1 /\ hand # <<>>
      /\ written \in Seq(Records) /\ queue \in Seq(Records)
  BY <1>1 DEF LogInv, LogTyped, LoggerTypeOK
<1>3. PICK h \in Records : hand = <<h>>
  BY WriteInHand
<1>4. /\ Len(queue) <= QueueCap /\ logged \in [Threads -> Nat] /\ running \in BOOLEAN /\ open \in BOOLEAN
      /\ initStep \in {"idle", "join", "open"} /\ slipped \in BOOLEAN
      /\ running => initStep = "idle" /\ worker = "write"
  BY <1>1 DEF LogInv, LogTyped, LoggerTypeOK
<1>5. open' \in BOOLEAN
  <2>1. WriteRecord
    BY DEF WorkerWrites
  <2> QED BY <1>4, <2>1 DEF WriteRecord, RotateFiles, fileVars
<1>6. LoggerTypeOK'
  BY <1>1, <1>4, <1>5, Zenon DEF LoggerTypeOK
<1>7. OneWorker'
  BY <1>1 DEF LogInv, OneWorker
<1>8. <<>> \in Seq(Records) /\ Len(<<>>) = 0
  BY EmptySeq
<1>9. CASE open
  <2>1. PICK n \in 0 .. 1 : Wrote(h, n)
    BY <1>3, <1>9, WriteWrites
  <2>2. LogTyped'
    <3>1. written' \in Seq(Records)
      BY <1>2, <2>1, AppendProperties DEF Wrote
    <3>2. hand' \in Seq(Records) /\ Len(hand') <= 1
      BY <1>1, <1>8
    <3> QED BY <1>1, <1>2, <1>4, <2>1, <3>1, <3>2, Zenon DEF LogTyped, Wrote
  <2>3. Trail' = Trail
    <3>1. written' = written \o hand
      BY <1>2, <1>3, <2>1, AppendIsConcat DEF Wrote
    <3>2. written \o hand \in Seq(Records)
      BY <1>2, ConcatProperties
    <3> QED BY <1>1, <3>1, <3>2, ConcatEmptySeq DEF Trail
  <2>4. RecordsInOrder' /\ Numbered'
    BY <1>1, <2>3, TrailKeeps DEF LogInv
  <2>5. NewestKept'
    BY <2>1, WriteKeepsNewest DEF LogInv
  <2>6. FilesWritten' /\ FilesInOrder'
    BY <1>3, <2>1, WriteKeepsOrder
  <2> QED BY <1>6, <1>7, <2>2, <2>4, <2>5, <2>6 DEF LogInv
<1>10. CASE ~open
  <2>1. UNCHANGED <<open, current, archives, written, slipped>>
    BY <1>10 DEF WorkerWrites, WriteRecord
  <2>2. (FilesWritten /\ FilesInOrder /\ NewestKept)'
    BY <2>1, FilesKeep DEF LogInv
  <2>3. LogTyped'
    BY <1>1, <1>8, <2>1 DEF LogInv, LogTyped
  <2>4. Trail = written \o <<h>> \o queue /\ Trail' = written \o queue
    BY <1>1, <1>2, <1>3, <2>1, ConcatEmptySeq DEF Trail
  <2>5. /\ Len(written) \in Nat /\ Len(queue) \in Nat
        /\ Len(Trail) = Len(written) + 1 + Len(queue) /\ Len(Trail') = Len(written) + Len(queue)
        /\ \A i \in 1 .. Len(Trail') : Trail'[i] = IF i <= Len(written) THEN Trail[i] ELSE Trail[i + 1]
    BY <1>2, <2>4
  <2>6. \A i \in 1 .. Len(Trail') : i \in 1 .. Len(Trail) /\ i + 1 \in 1 .. Len(Trail)
    BY <2>5
  <2>7. RecordsInOrder'
    <3> SUFFICES ASSUME NEW i \in 1 .. Len(Trail'), NEW j \in 1 .. Len(Trail'), i < j
                 PROVE  Before(Trail'[i], Trail'[j])
      BY DEF RecordsInOrder, Trail
    <3>1. \A p, q \in 1 .. Len(Trail) : p < q => Before(Trail[p], Trail[q])
      BY OrderOfTrail DEF LogInv
    <3>2. i < j /\ i < j + 1 /\ i + 1 < j + 1 /\ (j <= Len(written) => i <= Len(written))
      BY <2>5
    <3> QED BY <2>5, <2>6, <3>1, <3>2
  <2>8. Numbered'
    BY <1>1, <2>5, <2>6 DEF LogInv, Numbered
  <2> QED BY <1>6, <1>7, <2>2, <2>3, <2>7, <2>8 DEF LogInv
<1> QED BY <1>9, <1>10

\* The worker tests and waits.
LEMMA WaitKeeps ==
    ASSUME LogInv, WorkerTests \/ WorkerBlocks
    PROVE  LogInv'
<1>1. /\ UNCHANGED <<running, queue, hand, initStep, inits, logged, open, current, archives, written,
                      slipped>>
      /\ \/ worker = "top" /\ worker' = IF running THEN "lock" ELSE "drain"
         \/ worker = "blocking" /\ worker' = "blocked"
  BY DEF WorkerTests, WorkerBlocks, initVars, fileVars, callerVars
<1>2. LoggerTypeOK'
  BY <1>1 DEF LogInv, LoggerTypeOK
<1>3. OneWorker' /\ initStep' \in {"idle", "join", "open"}
  BY <1>1 DEF LogInv, OneWorker, LogTyped
<1> QED BY <1>1, <1>2, <1>3, LogStill

\* The first two steps of init.
LEMMA StopKeeps ==
    ASSUME LogInv, InitStops \/ InitJoins
    PROVE  LogInv'
<1>1. UNCHANGED <<queue, hand, logged, open, current, archives, written, slipped>>
  BY DEF InitStops, InitJoins, workerVars, fileVars, callerVars
<1>2. CASE InitStops
  <2>1. /\ initStep = "idle" /\ initStep' = (IF running THEN "join" ELSE "open")
        /\ running' = FALSE /\ worker' = (IF worker = "blocked" THEN "lock" ELSE worker)
    BY <1>2 DEF InitStops, Woken
  <2>2. LoggerTypeOK'
    BY <1>1, <2>1 DEF LogInv, LoggerTypeOK
  <2>3. OneWorker' /\ initStep' \in {"idle", "join", "open"}
    BY <2>1 DEF LogInv, OneWorker, LoggerTypeOK
  <2> QED BY <1>1, <2>2, <2>3, LogStill
<1>3. CASE InitJoins
  <2>1. initStep = "join" /\ worker = "ended" /\ initStep' = "open" /\ UNCHANGED <<running, worker>>
    BY <1>3 DEF InitJoins, workerVars
  <2>2. LoggerTypeOK'
    BY <1>1, <2>1 DEF LogInv, LoggerTypeOK
  <2>3. OneWorker' /\ initStep' \in {"idle", "join", "open"}
    BY <2>1 DEF OneWorker
  <2> QED BY <1>1, <2>2, <2>3, LogStill
<1> QED BY <1>2, <1>3

\* The files of the new role are empty, and its worker is the only one.
LEMMA StartKeeps ==
    ASSUME LogInv, InitStarts
    PROVE  LogInv'
<1>1. /\ initStep = "open" /\ initStep' = "idle" /\ running' = TRUE /\ worker' = "top"
      /\ current' = <<>> /\ archives' = [i \in 1 .. MaxFiles |-> <<>>]
      /\ open' \in BOOLEAN /\ slipped' \in BOOLEAN
      /\ UNCHANGED <<queue, hand, written, logged>>
  BY DEF InitStarts, LogInv, LogTyped, callerVars
<1>2. worker \in {"none", "ended"} /\ hand = <<>>
  BY <1>1 DEF LogInv, OneWorker, LoggerTypeOK
<1>3. <<>> \in Seq(Records) /\ archives' \in [1 .. MaxFiles -> Seq(Records)]
  BY <1>1, EmptySeq
<1>4. LogTyped'
  BY <1>1, <1>3 DEF LogInv, LogTyped
<1>5. LoggerTypeOK'
  BY <1>1, <1>2 DEF LogInv, LoggerTypeOK
<1>6. OneWorker'
  BY <1>1 DEF OneWorker
<1>7. RecordsInOrder' /\ Numbered'
  <2>1. Trail' = Trail
    BY <1>1 DEF Trail
  <2> QED BY <1>1, <2>1, TrailKeeps DEF LogInv
<1>8. \A k \in 0 .. MaxFiles : File(k)' = <<>>
  BY <1>1, LoggerAssumption DEF File
<1>9. FilesWritten' /\ FilesInOrder'
  BY <1>8 DEF FilesWritten, FilesInOrder
<1>10. NewestKept'
  <2> DEFINE ends == [k \in 0 .. MaxFiles + 1 |-> Len(written)]
  <2>1. Len(written) \in Nat /\ written' = written
    BY <1>1, LenProperties DEF LogInv, LogTyped
  <2>2. ends \in [0 .. MaxFiles + 1 -> 0 .. Len(written')] /\ ends[0] = Len(written')
    BY <2>1, LoggerAssumption
  <2>3. ASSUME NEW k \in 0 .. MaxFiles
        PROVE  ends[k + 1] <= ends[k] /\ File(k)' = SubSeq(written', ends[k + 1] + 1, ends[k])
    <3>1. ends[k] = Len(written) /\ ends[k + 1] = Len(written)
      BY LoggerAssumption
    <3> HIDE DEF ends
    <3>2. SubSeq(written', Len(written) + 1, Len(written)) = <<>>
      BY <2>1, SubSeqEmpty
    <3>3. Len(written) <= Len(written)
      BY <2>1
    <3> QED BY <1>8, <3>1, <3>2, <3>3
  <2> HIDE DEF ends
  <2> QED BY <2>2, <2>3 DEF NewestKept
<1> QED BY <1>4, <1>5, <1>6, <1>7, <1>9, <1>10 DEF LogInv

LEMMA StepLog == LogInv /\ [DiagNext]_diagVars => LogInv'
<1> SUFFICES ASSUME LogInv, [DiagNext]_diagVars PROVE LogInv'
  OBVIOUS
<1>1. CASE UNCHANGED loggerVars
  <2>1. UNCHANGED <<queue, hand, logged, running, worker, initStep, open, current, archives, written,
                    slipped>>
    BY <1>1 DEF loggerVars, workerVars, initVars, fileVars, callerVars
  <2>2. LoggerTypeOK' /\ OneWorker' /\ initStep' \in {"idle", "join", "open"}
    BY <2>1 DEF LogInv, LoggerTypeOK, OneWorker, LogTyped
  <2> QED BY <2>1, <2>2, LogStill
<1>2. CASE WorkerRuns
  BY <1>2, TakeKeeps, WriteKeepsLog, WaitKeeps DEF WorkerRuns, Worker
<1>3. CASE InitRuns
  BY <1>3, StopKeeps, StartKeeps DEF InitRuns, InitOf
<1>4. CASE CallersRun
  BY <1>4, RecordKeeps, StopKeeps DEF CallersRun, Logging
<1>5. CASE HandlersRun
  <2>1. PICK t \in Threads : Raise(t) \/ Handler(t)
    BY <1>5 DEF HandlersRun
  <2>2. CASE LogReport(t)
    BY <2>2, RecordKeeps DEF LogReport
  <2>3. CASE Raise(t) \/ GenerateCrashReport(t) \/ WriteReport(t) \/ Search(t)
    <3>1. UNCHANGED loggerVars
      BY <2>3 DEF Raise, GenerateCrashReport, WriteReport, Search
    <3> QED BY <1>1, <3>1
  <2> QED BY <2>1, <2>2, <2>3 DEF Handler
<1>6. CASE Stopped \/ UNCHANGED diagVars
  BY <1>1, <1>6 DEF Stopped, diagVars
<1> QED BY <1>2, <1>3, <1>4, <1>5, <1>6 DEF DiagNext

-----------------------------------------------------------------------------
\* Where the records are.  A worker without a file has met a refused opening.
KeptInv == RecordsKept /\ (worker # "none" => open \/ slipped)

\* The record is accounted for.
Kept(r) == r \in refused \cup unwritten \/ \E i \in 1 .. Len(Trail) : Trail[i] = r

LEMMA KeptIs ==
    RecordsKept <=> /\ \A t \in Threads : \A n \in 1 .. logged[t] : Kept([thread |-> t, number |-> n])
                    /\ unwritten # {} => slipped
  BY DEF RecordsKept, Kept, Trail

\* Nothing is logged and nothing leaves the trail.
LEMMA KeptStill ==
    ASSUME RecordsKept, Trail' = Trail, UNCHANGED <<logged, refused, unwritten>>, slipped => slipped'
    PROVE  RecordsKept'
<1>1. RecordsKept' <=> /\ \A t \in Threads : \A n \in 1 .. logged'[t] :
                             \/ [thread |-> t, number |-> n] \in refused' \cup unwritten'
                             \/ \E i \in 1 .. Len(Trail') : Trail'[i] = [thread |-> t, number |-> n]
                       /\ unwritten' # {} => slipped'
  BY DEF RecordsKept, Trail
<1> QED BY <1>1, KeptIs DEF Kept

LEMMA InitKept == DiagInit => KeptInv
  BY DEF DiagInit, LoggerInit, KeptInv, RecordsKept

\* A record joins the queue or is refused.
LEMMA RecordKept ==
    ASSUME LogInv, KeptInv, NEW t \in Threads, Log(t)
    PROVE  KeptInv'
<1>1. /\ logged' = [logged EXCEPT ![t] = @ + 1]
      /\ \/ queue' = Append(queue, Record(t)) /\ refused' = refused
         \/ queue' = queue /\ refused' = refused \cup {Record(t)}
      /\ UNCHANGED <<hand, open, written, unwritten, slipped>>
      /\ worker' = (IF worker = "blocked" THEN "lock" ELSE worker)
  BY DEF Log, Enqueue, fileVars
<1>2. /\ logged \in [Threads -> Nat] /\ queue \in Seq(Records) /\ hand \in Seq(Records)
      /\ written \in Seq(Records) /\ Record(t) \in Records
  BY DEF LogInv, LogTyped, LoggerTypeOK, Record, Records
<1>3. \/ Trail' = Append(Trail, Record(t)) /\ refused' = refused
      \/ Trail' = Trail /\ refused' = refused \cup {Record(t)}
  <2>1. CASE queue' = Append(queue, Record(t)) /\ refused' = refused
    BY <1>1, <1>2, <2>1 DEF Trail
  <2>2. CASE queue' = queue /\ refused' = refused \cup {Record(t)}
    BY <1>1, <2>2 DEF Trail
  <2> QED BY <1>1, <2>1, <2>2
<1>4. Trail \in Seq(Records)
  BY TrailType DEF LogInv
<1>5. /\ \A r : Kept(r) => r \in refused' \cup unwritten' \/ \E i \in 1 .. Len(Trail') : Trail'[i] = r
      /\ Record(t) \in refused' \cup unwritten' \/ \E i \in 1 .. Len(Trail') : Trail'[i] = Record(t)
  <2>1. CASE Trail' = Append(Trail, Record(t)) /\ refused' = refused
    <3>1. /\ Len(Trail) \in Nat /\ Len(Trail') = Len(Trail) + 1 /\ Trail'[Len(Trail) + 1] = Record(t)
          /\ \A i \in 1 .. Len(Trail) : Trail'[i] = Trail[i]
      BY <1>2, <1>4, <2>1, AppendProperties
    <3>2. /\ \A i \in 1 .. Len(Trail) : i \in 1 .. Len(Trail')
          /\ Len(Trail) + 1 \in 1 .. Len(Trail')
      BY <3>1
    <3> QED BY <1>1, <2>1, <3>1, <3>2 DEF Kept
  <2>2. CASE Trail' = Trail /\ refused' = refused \cup {Record(t)}
    BY <1>1, <2>2 DEF Kept
  <2> QED BY <1>3, <2>1, <2>2
<1>6. ASSUME NEW u \in Threads, NEW n \in 1 .. logged'[u]
      PROVE  \/ [thread |-> u, number |-> n] \in refused' \cup unwritten'
             \/ \E i \in 1 .. Len(Trail') : Trail'[i] = [thread |-> u, number |-> n]
  <2>1. n \in 1 .. logged[u] \/ (u = t /\ n = logged[t] + 1)
    BY <1>1, <1>2
  <2>2. CASE n \in 1 .. logged[u]
    BY <1>5, <2>2, KeptIs DEF KeptInv
  <2>3. CASE u = t /\ n = logged[t] + 1
    BY <1>5, <2>3 DEF Record
  <2> QED BY <2>1, <2>2, <2>3
<1>7. RecordsKept'
  BY <1>1, <1>6 DEF KeptInv, RecordsKept, Trail
<1> QED BY <1>1, <1>7 DEF KeptInv

\* A record is taken in hand.
LEMMA TakeKept ==
    ASSUME LogInv, KeptInv, WorkerTakes \/ WorkerDrains
    PROVE  KeptInv'
<1>1. /\ UNCHANGED <<open, written, logged, refused, unwritten, slipped>>
      /\ worker # "none"
  BY DEF WorkerTakes, WorkerDrains, fileVars, callerVars
<1>2. Trail' = Trail
  BY TakeKeepsTrail
<1> QED BY <1>1, <1>2, KeptStill DEF KeptInv

\* A record is written or, without a file, is gone.
LEMMA WriteKept ==
    ASSUME LogInv, KeptInv, WorkerWrites
    PROVE  KeptInv'
<1>1. /\ worker \in {"write", "drainWrite"} /\ hand' = <<>> /\ UNCHANGED <<queue, logged, refused>>
  BY DEF WorkerWrites, callerVars
<1>2. /\ written \in Seq(Records) /\ queue \in Seq(Records) /\ slipped \in BOOLEAN
  BY DEF LogInv, LogTyped
<1>3. PICK h \in Records : hand = <<h>>
  BY WriteInHand
<1>4. CASE open
  <2>1. written' = written \o hand /\ unwritten' = unwritten /\ (open' \/ slipped') /\ (slipped => slipped')
    <3> DEFINE content == current \o hand
    <3> HIDE DEF content
    <3>1. /\ written' = written \o hand /\ unwritten' = unwritten
          /\ \/ RotateFiles(content)
             \/ UNCHANGED <<open, slipped>>
      BY <1>4 DEF WorkerWrites, WriteRecord, content
    <3>2. CASE RotateFiles(content)
      <4>1. \E reopened \in BOOLEAN :
               open' = reopened /\ (slipped => slipped') /\ (~ reopened => slipped')
        BY <1>2, <3>2, Zenon DEF RotateFiles
      <4> QED BY <3>1, <4>1
    <3>3. CASE UNCHANGED <<open, slipped>>
      BY <1>4, <3>1, <3>3
    <3> QED BY <3>1, <3>2, <3>3
  <2>2. Trail' = Trail
    <3>1. written \o hand \in Seq(Records)
      BY <1>2, <1>3, ConcatProperties DEF LogInv, LogTyped
    <3> QED BY <1>1, <2>1, <3>1, ConcatEmptySeq DEF Trail
  <2> QED BY <1>1, <2>1, <2>2, KeptStill DEF KeptInv
<1>5. CASE ~open
  <2>1. /\ unwritten' = unwritten \cup {h} /\ UNCHANGED <<open, written, slipped>> /\ slipped
    BY <1>1, <1>3, <1>5 DEF WorkerWrites, WriteRecord, KeptInv
  <2>2. Trail = written \o <<h>> \o queue /\ Trail' = written \o queue
    BY <1>1, <1>2, <1>3, <2>1, ConcatEmptySeq DEF Trail
  <2>3. ASSUME NEW i \in 1 .. Len(Trail), Trail[i] # h
        PROVE  \E j \in 1 .. Len(Trail') : Trail'[j] = Trail[i]
    <3>1. /\ Len(written) \in Nat /\ Len(queue) \in Nat
          /\ Len(Trail) = Len(written) + 1 + Len(queue) /\ Len(Trail') = Len(written) + Len(queue)
          /\ i <= Len(written) => Trail'[i] = Trail[i] /\ i \in 1 .. Len(Trail')
          /\ i > Len(written) + 1 => Trail'[i - 1] = Trail[i] /\ i - 1 \in 1 .. Len(Trail')
          /\ i = Len(written) + 1 => Trail[i] = h
      <4>1. /\ Len(Trail) = Len(written) + 1 + Len(queue)
            /\ \A j \in 1 .. Len(Trail) :
                  Trail[j] = IF j <= Len(written) THEN written[j]
                             ELSE IF j = Len(written) + 1 THEN h ELSE queue[j - 1 - Len(written)]
        BY <1>2, <2>2
      <4>2. /\ Len(Trail') = Len(written) + Len(queue)
            /\ \A j \in 1 .. Len(Trail') :
                  Trail'[j] = IF j <= Len(written) THEN written[j] ELSE queue[j - Len(written)]
        BY <1>2, <2>2
      <4>3. Len(written) \in Nat /\ Len(queue) \in Nat /\ i \in Nat /\ i >= 1 /\ i <= Len(Trail)
        BY <1>2, <4>1
      <4>4. ASSUME i > Len(written) + 1 PROVE Trail'[i - 1] = Trail[i] /\ i - 1 \in 1 .. Len(Trail')
        <5>1. i - 1 \in 1 .. Len(Trail') /\ ~ (i - 1 <= Len(written)) /\ ~ (i <= Len(written))
              /\ i # Len(written) + 1 /\ i - 1 - Len(written) = (i - 1) - Len(written)
          BY <4>1, <4>2, <4>3, <4>4
        <5> QED BY <4>1, <4>2, <5>1
      <4> QED BY <4>1, <4>2, <4>3, <4>4
    <3>2. i <= Len(written) \/ i > Len(written) + 1
      BY <2>3, <3>1
    <3> QED BY <3>1, <3>2
  <2>4. \A r : Kept(r) => r \in refused' \cup unwritten' \/ \E i \in 1 .. Len(Trail') : Trail'[i] = r
    BY <1>1, <2>1, <2>3 DEF Kept
  <2>5. RecordsKept'
    <3>1. \A t \in Threads : \A n \in 1 .. logged'[t] :
             \/ [thread |-> t, number |-> n] \in refused' \cup unwritten'
             \/ \E i \in 1 .. Len(Trail') : Trail'[i] = [thread |-> t, number |-> n]
      BY <1>1, <2>4, KeptIs DEF KeptInv
    <3> QED BY <2>1, <3>1 DEF RecordsKept, Trail
  <2> QED BY <2>1, <2>5 DEF KeptInv
<1> QED BY <1>4, <1>5

\* The other steps touch no record.
LEMMA OtherKept ==
    ASSUME LogInv, KeptInv,
           WorkerTests \/ WorkerBlocks \/ InitStops \/ InitJoins \/ InitStarts \/ UNCHANGED loggerVars
    PROVE  KeptInv'
<1>1. UNCHANGED <<queue, hand, written, logged, refused, unwritten>>
  BY DEF WorkerTests, WorkerBlocks, InitStops, InitJoins, InitStarts, loggerVars, workerVars, fileVars,
         callerVars
<1>2. /\ slipped => slipped'
      /\ worker' # "none" => open' \/ slipped'
  <2>1. CASE WorkerTests \/ WorkerBlocks \/ InitStops \/ InitJoins \/ UNCHANGED loggerVars
    <3>1. UNCHANGED <<open, slipped>> /\ (worker' # "none" => worker # "none")
      BY <2>1 DEF WorkerTests, WorkerBlocks, InitStops, InitJoins, loggerVars, workerVars, fileVars, Woken
    <3> QED BY <3>1 DEF KeptInv
  <2>2. CASE InitStarts
    <3>1. \E ok \in BOOLEAN : open' = ok /\ slipped' = (slipped \/ ~ok)
      BY <2>2 DEF InitStarts
    <3>2. PICK ok \in BOOLEAN : open' = ok /\ slipped' = (slipped \/ ~ok)
      BY <3>1
    <3>3. CASE ok = TRUE
      BY <3>2, <3>3
    <3>4. CASE ok = FALSE
      BY <3>2, <3>4
    <3> QED BY <3>2, <3>3, <3>4
  <2> QED BY <2>1, <2>2
<1>3. Trail' = Trail
  BY <1>1 DEF Trail
<1> QED BY <1>1, <1>2, <1>3, KeptStill DEF KeptInv

LEMMA StepKept == LogInv /\ KeptInv /\ [DiagNext]_diagVars => KeptInv'
<1> SUFFICES ASSUME LogInv, KeptInv, [DiagNext]_diagVars PROVE KeptInv'
  OBVIOUS
<1>1. CASE WorkerRuns
  BY <1>1, TakeKept, WriteKept, OtherKept DEF WorkerRuns, Worker
<1>2. CASE InitRuns
  BY <1>2, OtherKept DEF InitRuns, InitOf
<1>3. CASE CallersRun
  BY <1>3, RecordKept, OtherKept DEF CallersRun, Logging
<1>4. CASE HandlersRun
  <2>1. PICK t \in Threads : Raise(t) \/ Handler(t)
    BY <1>4 DEF HandlersRun
  <2>2. CASE LogReport(t)
    BY <2>2, RecordKept DEF LogReport
  <2>3. CASE Raise(t) \/ GenerateCrashReport(t) \/ WriteReport(t) \/ Search(t)
    <3>1. UNCHANGED loggerVars
      BY <2>3 DEF Raise, GenerateCrashReport, WriteReport, Search
    <3> QED BY <3>1, OtherKept
  <2> QED BY <2>1, <2>2, <2>3 DEF Handler
<1>5. CASE Stopped \/ UNCHANGED diagVars
  <2>1. UNCHANGED loggerVars
    BY <1>5 DEF Stopped, diagVars
  <2> QED BY <2>1, OtherKept
<1> QED BY <1>1, <1>2, <1>3, <1>4, <1>5 DEF DiagNext

-----------------------------------------------------------------------------
\* The logger's invariant: every record is in line behind those its thread logged
\* before it, from the files to the queue, and init starts a worker only when there is none.
THEOREM LoggerInvariant == DiagSpec => []LogInv
<1> QED BY InitLog, StepLog, PTL DEF DiagSpec

\* Through the queue, the worker and its drain, a change of role and a rotation that may
\* be refused anywhere, a thread's records keep their order, none vanishes but at a full
\* queue or a closed file, and the files hold the newest of those written.
THEOREM LogIsSound == DiagSpec => []LogSound
<1>1. LogInv /\ KeptInv => LogSound
  BY DEF LogInv, KeptInv, LogSound
<1>2. DiagSpec => []KeptInv
  BY InitKept, StepKept, LoggerInvariant, PTL DEF DiagSpec
<1> QED BY <1>1, <1>2, LoggerInvariant, PTL
=============================================================================
