---------------------------- MODULE ReplayWindow ----------------------------
(***************************************************************************)
(* Client::Receiver::ValidateSequence (client/receiver.cpp): the sliding   *)
(* replay window every authenticated packet of the client passes before    *)
(* its payload is used.  The window is a ring of Words machine words of    *)
(* WordBits bits; a sequence number owns bit seq % WordBits of word        *)
(* (seq / WordBits) % Words.  Bits of numbers that leave the window are    *)
(* reused, so moving the window forward must clear exactly the bits of the *)
(* numbers it now covers for the first time.                               *)
(*                                                                         *)
(* The code is called under m_mutex and is one step here.  The numbers are *)
(* unsigned 64-bit and start at 0; 2^64 packets are out of reach, so they  *)
(* are natural numbers.                                                    *)
(***************************************************************************)
EXTENDS Integers

CONSTANTS WordBits,   \* bits per word: 64
          Words,      \* words of the window: WINDOW_SIZE / 64 = 16
          Seqs        \* sequence numbers the peer, the network or a replay may offer

ASSUME WindowAssumption == /\ WordBits \in Nat \ {0}
                           /\ Words \in Nat \ {0}
                           /\ Seqs \subseteq Nat

WindowSize == WordBits * Words

VARIABLES maxSequenceReceived,
          sequenceWindow,       \* word index -> set of bit positions that are 1
          passed,               \* history: the numbers ValidateSequence returned true for
          result                \* history: last argument and what was returned

windowVars == <<maxSequenceReceived, sequenceWindow, passed, result>>

WordIdx(seq) == (seq \div WordBits) % Words

Bit(seq)         == seq % WordBits

NoResult == [seq |-> -1, ok |-> FALSE]

WindowInit == /\ maxSequenceReceived = 0
              /\ sequenceWindow = [w \in 0 .. Words - 1 |-> {}]
              /\ passed = {}
              /\ result = NoResult

\* Mutant: the first number the window moves over keeps its bit.
AdvancedButFirst(seq) ==
    [w \in 0 .. Words - 1 |->
        sequenceWindow[w] \ {b \in 0 .. WordBits - 1 :
                                \E t \in maxSequenceReceived + 2 .. seq :
                                    WordIdx(t) = w /\ Bit(t) = b}]

\* Mutant: a jump past the whole window clears nothing.
AdvancedUnlessFar(seq) ==
    [w \in 0 .. Words - 1 |->
        IF seq - maxSequenceReceived >= WindowSize
        THEN sequenceWindow[w]
        ELSE sequenceWindow[w] \ {b \in 0 .. WordBits - 1 :
                                    \E t \in maxSequenceReceived + 1 .. seq :
                                        WordIdx(t) = w /\ Bit(t) = b}]

\* The window after it has moved up to seq (receiver.cpp, "window advancement").
Advanced(seq) ==
    [w \in 0 .. Words - 1 |->
        IF seq - maxSequenceReceived >= WindowSize
        THEN {}
        ELSE sequenceWindow[w] \
               {b \in 0 .. WordBits - 1 :
                   \E t \in maxSequenceReceived + 1 .. seq :
                       WordIdx(t) = w /\ Bit(t) = b}]

\* The window and the maximum when the bit of seq is tested.
WindowAt(seq) == IF seq > maxSequenceReceived THEN Advanced(seq) ELSE sequenceWindow

NeverTooOld(seq) == FALSE         \* mutant: no lower end of the window

TooOld(seq) == /\ seq <= maxSequenceReceived
               /\ maxSequenceReceived - seq >= WindowSize

ValidateSequence(seq) ==
    LET win   == WindowAt(seq)
        fresh == /\ ~ TooOld(seq)
                 /\ Bit(seq) \notin win[WordIdx(seq)]
    IN  /\ result' = [seq |-> seq, ok |-> fresh]
        /\ passed' = IF fresh THEN passed \cup {seq} ELSE passed
        /\ maxSequenceReceived' = IF seq > maxSequenceReceived THEN seq
                                  ELSE maxSequenceReceived
        /\ sequenceWindow' = IF fresh
                             THEN [win EXCEPT ![WordIdx(seq)] = @ \cup {Bit(seq)}]
                             ELSE win

WindowNext == \E seq \in Seqs : ValidateSequence(seq)

WindowSpec == WindowInit /\ [][WindowNext]_windowVars

-----------------------------------------------------------------------------
\* Types of the window's state.
WindowTypeOK ==
    /\ maxSequenceReceived \in Nat
    /\ sequenceWindow \in [0 .. Words - 1 -> SUBSET (0 .. WordBits - 1)]
    /\ passed \subseteq Nat
    /\ result \in [seq : Nat \cup {-1}, ok : BOOLEAN]

\* The numbers the window covers now.
InWindow(seq) == /\ seq <= maxSequenceReceived
                 /\ seq > maxSequenceReceived - WindowSize

\* The bitmask of ValidateSequence says exactly which covered numbers have
\* passed: a bit left behind by a number that fell out of the window would
\* reject a fresh packet, and a bit cleared too far would let a replayed
\* packet through.
WindowExact ==
    \A seq \in 0 .. maxSequenceReceived :
        InWindow(seq) =>
            (Bit(seq) \in sequenceWindow[WordIdx(seq)] <=> seq \in passed)

\* No number above the maximum has passed.
PassedBelowMax == \A seq \in passed : seq <= maxSequenceReceived

WindowInv == WindowTypeOK /\ WindowExact /\ PassedBelowMax

\* Replay protection: ValidateSequence never returns true for a number it has
\* returned true for before, however late the packet is played back.
NeverTwice == [][result'.ok => result'.seq \notin passed]_<<result, passed>>

\* The bitmask window implements the filter with perfect memory.
Filter == INSTANCE ReplayFilter WITH Window  <- WindowSize,
                                     highest <- maxSequenceReceived,
                                     seen    <- passed,
                                     verdict <- result

ImplementsFilter == Filter!FilterSpec
=============================================================================
