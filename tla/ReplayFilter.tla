---------------------------- MODULE ReplayFilter ----------------------------
(***************************************************************************)
(* What Receiver::ValidateSequence promises to the client's network        *)
(* thread, without its bitmask: a filter that remembers the highest        *)
(* sequence number ever accepted and the exact set of numbers accepted.    *)
(* A number passes when it is new and less than Window behind the highest. *)
(***************************************************************************)
EXTENDS Integers

CONSTANTS Window,   \* WINDOW_SIZE
          Seqs      \* sequence numbers that may be offered

VARIABLES highest,  \* highest number accepted so far (0 at first)
          seen,     \* every number accepted so far
          verdict   \* the last number offered, and whether it passed

filterVars == <<highest, seen, verdict>>

NoVerdict == [seq |-> -1, ok |-> FALSE]

FilterInit == /\ highest = 0
              /\ seen = {}
              /\ verdict = NoVerdict

\* A number passes when it has never passed before and is not too old.
Passes(s) == /\ s \notin seen
             /\ s > highest - Window

Offer(s) ==
    /\ verdict' = [seq |-> s, ok |-> Passes(s)]
    /\ IF Passes(s)
       THEN /\ seen' = seen \cup {s}
            /\ highest' = IF s > highest THEN s ELSE highest
       ELSE UNCHANGED <<seen, highest>>

FilterNext == \E s \in Seqs : Offer(s)

FilterSpec == FilterInit /\ [][FilterNext]_filterVars
=============================================================================
