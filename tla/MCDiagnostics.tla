----------------------------- MODULE MCDiagnostics -----------------------------
\* One thread logs two records and both may fail, report and log that; a queue
\* of two, files of one record with two archives, a change of role, two exceptions.
EXTENDS Diagnostics, TLC

CONSTANTS t1, t2

MCThreads == {t1, t2}
MCRecords == (t1 :> 2) @@ (t2 :> 0)
=============================================================================
