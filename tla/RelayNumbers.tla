---------------------------- MODULE RelayNumbers ----------------------------
(***************************************************************************)
(* The sequence numbers the adapter gives the reports it relays: an        *)
(* inclusive range, handed out by a cyclic search that starts after the    *)
(* number handed out last.                                                 *)
(***************************************************************************)
EXTENDS Integers

CONSTANTS
    RelaySequenceFloor,     \* the adapter's own numbers are Floor..Ceil
    RelaySequenceCeil

ASSUME RangeAssumption ==
    /\ RelaySequenceFloor \in Nat \ {0}
    /\ RelaySequenceCeil \in Nat
    /\ RelaySequenceFloor <= RelaySequenceCeil

RelaySeqs == RelaySequenceFloor..RelaySequenceCeil

\* Mutant: the search wraps one number too late.
WrapsLate(c) ==
    IF c < RelaySequenceFloor \/ c > RelaySequenceCeil THEN RelaySequenceFloor ELSE c + 1

\* The number tried after c: past the ceiling, and below the floor (the counter
\* starts at zero), the search goes on at the floor.
Successor(c) ==
    IF c < RelaySequenceFloor \/ c >= RelaySequenceCeil THEN RelaySequenceFloor ELSE c + 1

\* How many numbers the search that starts after `from` tries before d.
SearchDistance(from, d) ==
    IF d >= Successor(from)
    THEN d - Successor(from)
    ELSE d - Successor(from) + (RelaySequenceCeil - RelaySequenceFloor + 1)

\* Mutant: the next number, whether or not an exchange is waiting on it.
NextSequence(outstanding, from) == {Successor(from)}

\* The first number the search from `from` meets that nothing is waiting on: no
\* element when the range is full, one otherwise.  NextFreeSequence shows that
\* the loop of the code computes it.
NextFreeRelaySequence(outstanding, from) ==
    {c \in RelaySeqs \ outstanding :
        \A d \in RelaySeqs \ outstanding : SearchDistance(from, c) <= SearchDistance(from, d)}

=============================================================================
