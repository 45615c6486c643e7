-------------------------- MODULE NextFreeSequence --------------------------
(***************************************************************************)
(* The loop of nextFreeRelaySequence (config.go), one action per trip, on  *)
(* every table and every counter it can be called with.                    *)
(***************************************************************************)
EXTENDS RelayNumbers

VARIABLES
    outstanding,    \* the numbers something is waiting on
    from,           \* the number handed out last
    candidate,
    trips,          \* trips of the loop made so far
    returned,       \* the call is over
    found           \* {number} with (number, true), {} with (0, false)

vars == <<outstanding, from, candidate, trips, returned, found>>

\* Mutant: one trip fewer, so the number the search started from is never tried.
OneTripFewer == RelaySequenceCeil - RelaySequenceFloor

MaxTrips == RelaySequenceCeil - RelaySequenceFloor + 1

\* The counter starts at zero and is only ever set to a number handed out.
Init ==
    /\ outstanding \in SUBSET RelaySeqs
    /\ from \in {0} \cup RelaySeqs
    /\ candidate = from
    /\ trips = 0
    /\ returned = FALSE
    /\ found = {}

Trip ==
    /\ ~returned
    /\ trips < MaxTrips
    /\ trips' = trips + 1
    /\ candidate' = Successor(candidate)
    /\ returned' = (candidate' \notin outstanding)
    /\ found' = {candidate'} \ outstanding
    /\ UNCHANGED <<outstanding, from>>

GiveUp ==
    /\ ~returned
    /\ trips = MaxTrips
    /\ returned' = TRUE
    /\ UNCHANGED <<outstanding, from, candidate, trips, found>>

Next == Trip \/ GiveUp

Spec == Init /\ [][Next]_vars

-----------------------------------------------------------------------------

\* Types: no trip goes beyond the range, and only numbers of the range are returned.
TypeOK ==
    /\ outstanding \subseteq RelaySeqs
    /\ from \in Nat
    /\ candidate \in Nat
    /\ trips \in 0..MaxTrips
    /\ returned \in BOOLEAN
    /\ found \subseteq RelaySeqs

\* The loop returns the first free number of the cyclic search, and reports the
\* range exhausted only when no number is free: the ceiling is handed out, and so
\* is the number the search started from, which the wrap reaches last.
FindsFirstFree == returned => found = NextFreeRelaySequence(outstanding, from)

\* Where the loop stands: every number nearer than the candidate is taken.
SearchedSoFar ==
    /\ trips = 0 => candidate = from
    /\ trips > 0 => /\ candidate \in RelaySeqs
                    /\ SearchDistance(from, candidate) = trips - 1
    /\ ~returned =>
         /\ found = {}
         /\ \A d \in RelaySeqs : SearchDistance(from, d) < trips => d \in outstanding

=============================================================================
