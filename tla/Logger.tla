-------------------------------- MODULE Logger --------------------------------
(***************************************************************************)
(* The logger (Logger): threads append records to a bounded queue, one     *)
(* worker writes them to a file that is rotated when it has grown too      *)
(* large, and init, called with another role, ends the worker and starts   *)
(* one for a new file.                                                     *)
(*                                                                         *)
(* A record is the thread that logged it and its number; only records that *)
(* pass the level filter are followed.  The size of a file is counted in   *)
(* records.  A rename or an opening may fail, and nothing is said about it.*)
(* No caller logs at the levels that are written synchronously.            *)
(***************************************************************************)
EXTENDS Naturals, Sequences

CONSTANTS Threads,          \* threads that log
          QueueCap,         \* 10000
          MaxFileSize,      \* m_maxFileSize
          MaxFiles,         \* m_maxFiles
          MaxInits          \* bound: calls of init that change the role

ASSUME LoggerAssumption ==
    QueueCap \in Nat \ {0} /\ MaxFileSize \in Nat \ {0} /\ MaxFiles \in Nat \ {0}

VARIABLES running,          \* m_running
          queue,            \* m_queue
          worker,           \* what m_workerThread does
          hand,             \* the record the worker has taken, in a sequence
          initStep,         \* where the caller of init is
          inits,
          open,             \* m_file.is_open()
          current,          \* the file
          archives,         \* its predecessors; <<>> when there is none
          logged,           \* thread -> records logged
          refused,          \* history: records that found the queue full
          unwritten,        \* history: records that found no open file
          missed,           \* history: init notified while the worker was about to wait
          written,          \* history: all records written
          slipped           \* history: a file could not be renamed or opened

workerVars == <<worker, hand>>
initVars   == <<initStep, inits, missed>>
fileVars   == <<open, current, archives, written, unwritten, slipped>>
callerVars == <<logged, refused>>
loggerVars == <<running, queue, workerVars, initVars, fileVars, callerVars>>

LoggerInit ==
    /\ running = FALSE /\ queue = <<>> /\ worker = "none" /\ hand = <<>>
    /\ initStep = "idle" /\ inits = 0 /\ missed = FALSE
    /\ open = FALSE /\ current = <<>> /\ archives = [i \in 1 .. MaxFiles |-> <<>>]
    /\ logged = [t \in Threads |-> 0]
    /\ refused = {} /\ unwritten = {} /\ written = <<>> /\ slipped = FALSE

-----------------------------------------------------------------------------
\* A caller.  The queue's lock is free unless the worker is about to wait.
Record(t) == [thread |-> t, number |-> logged[t] + 1]

\* A record that finds the queue full is gone: the newest, not the oldest.
Enqueue(t) ==
    /\ logged' = [logged EXCEPT ![t] = @ + 1]
    /\ IF Len(queue) < QueueCap THEN queue' = Append(queue, Record(t)) /\ UNCHANGED refused
                                ELSE refused' = refused \cup {Record(t)} /\ UNCHANGED queue

\* mutant of Log: without the notification
LogQuietly(t) ==
    /\ worker # "blocking"
    /\ Enqueue(t)
    /\ UNCHANGED <<running, worker, hand, initVars, fileVars>>

Log(t) ==
    /\ worker # "blocking"
    /\ Enqueue(t)
    /\ worker' = IF worker = "blocked" THEN "lock" ELSE worker
    /\ UNCHANGED <<running, hand, initVars, fileVars>>

-----------------------------------------------------------------------------
\* The worker.

WorkerTests ==
    /\ worker = "top"
    /\ worker' = IF running THEN "lock" ELSE "drain"
    /\ UNCHANGED <<running, queue, hand, initVars, fileVars, callerVars>>

\* mutant of WorkerTakes: a record is taken and, when there are others, thrown away
WorkerSkips ==
    /\ worker = "lock"
    /\ IF queue = <<>>
       THEN /\ worker' = IF running THEN "blocking" ELSE "top"
            /\ UNCHANGED <<queue, hand>>
       ELSE /\ worker' = "write" /\ hand' = <<queue[Len(queue)]>> /\ queue' = <<>>
    /\ UNCHANGED <<running, initVars, fileVars, callerVars>>

\* Under the lock: the predicate of the wait, and the record.
WorkerTakes ==
    /\ worker = "lock"
    /\ IF queue = <<>>
       THEN /\ worker' = IF running THEN "blocking" ELSE "top"
            /\ UNCHANGED <<queue, hand>>
       ELSE /\ worker' = "write" /\ hand' = <<Head(queue)>> /\ queue' = Tail(queue)
    /\ UNCHANGED <<running, initVars, fileVars, callerVars>>

\* The wait gives the lock back; a notification before that is lost.
WorkerBlocks ==
    /\ worker = "blocking"
    /\ worker' = "blocked"
    /\ UNCHANGED <<running, queue, hand, initVars, fileVars, callerVars>>

WorkerDrains ==
    /\ worker = "drain"
    /\ IF queue = <<>> THEN worker' = "ended" /\ UNCHANGED <<queue, hand>>
       ELSE worker' = "drainWrite" /\ hand' = <<Head(queue)>> /\ queue' = Tail(queue)
    /\ UNCHANGED <<running, initVars, fileVars, callerVars>>

\* The archives after the removal of the oldest and the renames .i -> .(i + 1),
\* downwards; those in failed were refused.
Shifted(failed) ==
    LET Moved(i) == i \in 1 .. MaxFiles - 1 /\ archives[i] # <<>> /\ i \notin failed
    IN  [j \in 1 .. MaxFiles |->
           IF Moved(j - 1) THEN archives[j - 1]
           ELSE IF Moved(j) \/ (j = MaxFiles /\ j \notin failed) THEN <<>>
           ELSE archives[j]]

\* mutant of RotateFiles: the file gets the first free number
RotateToFree(content) ==
    LET free == {i \in 1 .. MaxFiles : archives[i] = <<>>}
    IN  /\ archives' = IF free = {} THEN [Shifted({}) EXCEPT ![1] = content]
                       ELSE [archives EXCEPT ![CHOOSE i \in free : \A j \in free : i <= j] = content]
        /\ current' = <<>> /\ UNCHANGED <<open, slipped>>

\* rotateFiles for a file with this content: 0 in failed is the rename of the
\* file itself, which is then appended to.
RotateFiles(content) ==
    \E failed \in SUBSET ({0} \cup {i \in 1 .. MaxFiles : archives[i] # <<>>}), reopened \in BOOLEAN :
      /\ IF 0 \in failed THEN current' = content /\ archives' = Shifted(failed)
         ELSE current' = <<>> /\ archives' = [Shifted(failed) EXCEPT ![1] = content]
      /\ open' = reopened
      /\ slipped' = (slipped \/ failed # {} \/ ~reopened)

\* writeRecord: without an open file the record is gone.
WriteRecord ==
    LET content == current \o hand
    IN  IF ~open THEN /\ unwritten' = unwritten \cup {hand[1]}
                      /\ UNCHANGED <<open, current, archives, written, slipped>>
        ELSE /\ written' = written \o hand /\ UNCHANGED unwritten
             /\ IF Len(content) >= MaxFileSize THEN RotateFiles(content)
                ELSE current' = content /\ UNCHANGED <<archives, open, slipped>>

WorkerWrites ==
    /\ worker \in {"write", "drainWrite"}
    /\ worker' = IF worker = "write" THEN "top" ELSE "drain"
    /\ hand' = <<>>
    /\ WriteRecord
    /\ UNCHANGED <<running, queue, initVars, callerVars>>

-----------------------------------------------------------------------------
\* init with another role, by one thread at a time (m_initMutex).

Woken == IF worker = "blocked" THEN "lock" ELSE worker

\* mutant of InitStops: nobody is notified
InitStopsQuietly ==
    /\ initStep = "idle" /\ inits < MaxInits
    /\ inits' = inits + 1
    /\ initStep' = IF running THEN "join" ELSE "open"
    /\ running' = FALSE
    /\ UNCHANGED <<queue, workerVars, missed, fileVars, callerVars>>

\* The notification does not wait for the queue's lock.
InitStops ==
    /\ initStep = "idle" /\ inits < MaxInits
    /\ inits' = inits + 1
    /\ initStep' = IF running THEN "join" ELSE "open"
    /\ running' = FALSE
    /\ worker' = Woken
    /\ missed' = (running /\ worker = "blocking")
    /\ UNCHANGED <<queue, hand, fileVars, callerVars>>

InitJoins ==
    /\ initStep = "join" /\ worker = "ended"
    /\ initStep' = "open"
    /\ missed' = FALSE
    /\ UNCHANGED <<running, queue, workerVars, inits, fileVars, callerVars>>

\* A new file, which may not open (the role's directory need not exist), and a
\* new worker.
InitStarts ==
    /\ initStep = "open"
    /\ initStep' = "idle"
    /\ \E ok \in BOOLEAN : open' = ok /\ slipped' = (slipped \/ ~ok)
    /\ current' = <<>> /\ archives' = [i \in 1 .. MaxFiles |-> <<>>]
    /\ running' = TRUE /\ worker' = "top"
    /\ UNCHANGED <<queue, hand, inits, missed, written, unwritten, callerVars>>

Worker  == WorkerTests \/ WorkerTakes \/ WorkerBlocks \/ WorkerDrains \/ WorkerWrites
InitOf  == InitJoins \/ InitStarts
-----------------------------------------------------------------------------
LoggerTypeOK ==
    /\ running \in BOOLEAN /\ open \in BOOLEAN
    /\ worker \in {"none", "top", "lock", "blocking", "blocked", "write", "drain", "drainWrite", "ended"}
    /\ Len(queue) <= QueueCap /\ logged \in [Threads -> Nat]
    /\ hand # <<>> <=> worker \in {"write", "drainWrite"}
    /\ running => initStep = "idle" /\ worker \notin {"none", "drain", "drainWrite", "ended"}

Before(r, s) == r.thread = s.thread => r.number < s.number

\* The records that were written and those on their way, the oldest first.
Trail == written \o hand \o queue

\* The records of a thread are written in the order it logged them, through a
\* change of role, the drain of the old worker and records left to the new one.
RecordsInOrder ==
    \A i, j \in 1 .. Len(Trail) : i < j => Before(Trail[i], Trail[j])

\* No record vanishes without a cause: it was written, it waits, the queue was full
\* when it came, or no file was open when its turn came.  The last is only so after
\* a file was refused.
RecordsKept ==
    /\ \A t \in Threads : \A n \in 1 .. logged[t] :
          LET r == [thread |-> t, number |-> n]
          IN  r \in refused \cup unwritten \/ \E i \in 1 .. Len(Trail) : Trail[i] = r
    /\ unwritten # {} => slipped

\* The files of the role from the newest to the oldest: the current one is number 0.
File(k) == IF k = 0 THEN current ELSE archives[k]

\* The archives and the file, read from the highest number down, hold the records
\* of a thread in order, whichever removals, renames and openings were refused.
FilesInOrder ==
    \A k, l \in 0 .. MaxFiles : \A i \in 1 .. Len(File(k)), j \in 1 .. Len(File(l)) :
       k > l \/ (k = l /\ i < j) => Before(File(k)[i], File(l)[j])

\* As long as nothing was refused they hold the newest records without a gap: file k
\* holds the records from after ends[k + 1] to ends[k].
NewestKept ==
    ~slipped =>
       \E ends \in [0 .. MaxFiles + 1 -> 0 .. Len(written)] :
          /\ ends[0] = Len(written)
          /\ \A k \in 0 .. MaxFiles : /\ ends[k + 1] <= ends[k]
                                    /\ File(k) = SubSeq(written, ends[k + 1] + 1, ends[k])

\* A thread's records keep their order through queue, worker, rotation and change of
\* role, and each is accounted for; of those that were written the files hold the
\* newest, the oldest going first.  A full queue refuses the newest.
LogSound == LoggerTypeOK /\ RecordsInOrder /\ RecordsKept /\ FilesInOrder /\ NewestKept

\* The notification fell between the worker's test and its wait, and nobody logs.
LostWakeup == missed /\ worker = "blocked" /\ queue = <<>>
=============================================================================
