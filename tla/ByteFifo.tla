------------------------------ MODULE ByteFifo ------------------------------
(***************************************************************************)
(* What spiram_fifo.h promises its two users: a bounded byte pipe.  Bytes  *)
(* are numbered 1, 2, 3, ... in the order the producer hands them over, so *)
(* a byte's number doubles as its value and order, loss and duplication    *)
(* are visible in what the consumer is given.                              *)
(***************************************************************************)
EXTENDS Naturals

CONSTANTS Capacity,   \* bytes the pipe can hold
          MaxCall     \* length of the consumer's buffer

VARIABLES sent,    \* bytes the producer has handed over so far
          taken,   \* bytes the consumer has been given so far
          got,     \* bytes given to the consumer since it last presented a buffer
          dest     \* that buffer: dest[i] is the i-th byte given, 0 if none yet

vars == <<sent, taken, got, dest>>

Slots == 1..MaxCall

\* A buffer in which nothing has been put yet.
Blank == [i \in Slots |-> 0]

Init == /\ sent = 0
        /\ taken = 0
        /\ got = 0
        /\ dest = Blank

\* The producer hands over n bytes, if there is room for them.
Put(n) == /\ (sent + n) - taken <= Capacity
          /\ sent' = sent + n
          /\ UNCHANGED <<taken, got, dest>>

\* The consumer presents a new, empty buffer.
Present == /\ got' = 0
           /\ dest' = Blank
           /\ UNCHANGED <<sent, taken>>

\* The consumer is given the n oldest bytes it does not have, in order,
\* behind those already in its buffer.
Get(n) == /\ n <= sent - taken
          /\ got + n <= MaxCall
          /\ taken' = taken + n
          /\ got' = got + n
          /\ dest' = [i \in Slots |-> IF got < i /\ i <= got + n
                                        THEN taken + (i - got)
                                        ELSE dest[i]]
          /\ UNCHANGED sent

Next == \/ \E n \in 1..Capacity : Put(n) \/ Get(n)
        \/ Present

Spec == Init /\ [][Next]_vars
=============================================================================
