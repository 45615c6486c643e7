----------------------- MODULE NextFreeSequenceProofs -----------------------
(***************************************************************************)
(* The search loop computes NextFreeRelaySequence, for every range.        *)
(***************************************************************************)
EXTENDS NextFreeSequence, TLAPS

LoopInv == TypeOK /\ SearchedSoFar /\ FindsFirstFree

-----------------------------------------------------------------------------
(* The cyclic order of the search.                                         *)

\* The search tries every number of the range within its trips.
LEMMA DistanceInRange ==
    ASSUME NEW f \in Nat, NEW d \in RelaySeqs
    PROVE  SearchDistance(f, d) \in 0..(MaxTrips - 1)
BY RangeAssumption DEF SearchDistance, Successor, RelaySeqs, MaxTrips

\* Different numbers are tried at different moments.
LEMMA DistanceIsInjective ==
    ASSUME NEW f \in Nat, NEW c \in RelaySeqs, NEW d \in RelaySeqs,
           SearchDistance(f, c) = SearchDistance(f, d)
    PROVE  c = d
BY RangeAssumption DEF SearchDistance, Successor, RelaySeqs

\* The first trip tries the number at distance zero.
LEMMA FirstTrip ==
    ASSUME NEW f \in Nat
    PROVE  Successor(f) \in RelaySeqs /\ SearchDistance(f, Successor(f)) = 0
BY RangeAssumption DEF SearchDistance, Successor, RelaySeqs

\* Every later trip tries the number one further on, up to the last.
LEMMA LaterTrip ==
    ASSUME NEW f \in Nat, NEW c \in RelaySeqs, SearchDistance(f, c) < MaxTrips - 1
    PROVE  /\ Successor(c) \in RelaySeqs
           /\ SearchDistance(f, Successor(c)) = SearchDistance(f, c) + 1
BY RangeAssumption DEF SearchDistance, Successor, RelaySeqs, MaxTrips

-----------------------------------------------------------------------------

\* Before its first trip the loop has tried nothing.
LEMMA InitEstablishesInv == Init => LoopInv
<1> SUFFICES ASSUME Init PROVE LoopInv
  OBVIOUS
<1>1. from \in Nat /\ MaxTrips \in Nat
  BY RangeAssumption DEF Init, RelaySeqs, MaxTrips
<1>2. TypeOK /\ FindsFirstFree
  <2>1. ~returned /\ returned \in BOOLEAN
    BY Zenon DEF Init
  <2>2. /\ outstanding \subseteq RelaySeqs /\ candidate \in Nat /\ found \subseteq RelaySeqs
        /\ trips \in 0..MaxTrips
    BY <1>1 DEF Init
  <2>3. QED
    BY <1>1, <2>1, <2>2, Zenon DEF TypeOK, FindsFirstFree
<1>3. \A d \in RelaySeqs : ~(SearchDistance(from, d) < 0)
  BY <1>1, DistanceInRange
<1>4. QED
  BY <1>2, <1>3 DEF Init, LoopInv, SearchedSoFar

\* A trip that finds its number taken has ruled out one number more; one that finds
\* it free has found the nearest (nextFreeRelaySequence, the loop's body).
LEMMA TripKeepsInv ==
    ASSUME LoopInv, Trip
    PROVE  LoopInv'
<1> DEFINE c == Successor(candidate)
<1>0. /\ from \in Nat /\ trips \in Nat /\ MaxTrips \in Nat
      /\ trips < MaxTrips /\ ~returned
      /\ trips' = trips + 1 /\ candidate' = c
      /\ outstanding' = outstanding /\ from' = from
      /\ returned' = (c \notin outstanding)
      /\ found' = {c} \ outstanding
  BY RangeAssumption DEF LoopInv, TypeOK, Trip, MaxTrips
<1>1. c \in RelaySeqs /\ SearchDistance(from, c) = trips
  <2>1. CASE trips = 0
    BY <1>0, <2>1, FirstTrip DEF LoopInv, SearchedSoFar
  <2>2. CASE trips > 0
    BY <1>0, <2>2, LaterTrip DEF LoopInv, SearchedSoFar
  <2>3. QED
    BY <1>0, <2>1, <2>2
<1>2. c \in Nat
  BY <1>1, RangeAssumption DEF RelaySeqs
<1> HIDE DEF c
<1>3. TypeOK'
  BY <1>0, <1>1, <1>2 DEF LoopInv, TypeOK
<1>4. \A d \in RelaySeqs : SearchDistance(from, d) < trips => d \in outstanding
  BY <1>0 DEF LoopInv, SearchedSoFar
<1>5. ASSUME c \in outstanding
      PROVE  \A d \in RelaySeqs : SearchDistance(from, d) < trips + 1 => d \in outstanding
  <2> SUFFICES ASSUME NEW d \in RelaySeqs, SearchDistance(from, d) < trips + 1
               PROVE  d \in outstanding
    OBVIOUS
  <2>1. SearchDistance(from, d) \in Nat
    BY <1>0, DistanceInRange
  <2>2. CASE SearchDistance(from, d) < trips
    BY <1>4, <2>2
  <2>3. CASE SearchDistance(from, d) = trips
    BY <1>0, <1>1, <1>5, <2>3, DistanceIsInjective
  <2>4. QED
    BY <1>0, <2>1, <2>2, <2>3
<1>6. SearchedSoFar'
  <2>1. trips' > 0 /\ trips' - 1 = trips
    BY <1>0
  <2>2. \A d : SearchDistance(from, d)' = SearchDistance(from, d)
    BY <1>0 DEF SearchDistance, Successor
  <2>3. SearchDistance(from, candidate)' = trips' - 1
    BY <1>0, <1>1, <2>1 DEF SearchDistance, Successor
  <2>4. ~returned' => c \in outstanding /\ found' = {}
    BY <1>0
  <2>5. ~returned' => \A d \in RelaySeqs :
          SearchDistance(from, d)' < trips' => d \in outstanding'
    BY <1>0, <1>5, <2>2, <2>4
  <2>6. QED
    BY <1>0, <1>1, <2>1, <2>3, <2>4, <2>5 DEF SearchedSoFar
<1>7. ASSUME c \notin outstanding
      PROVE  {c} = NextFreeRelaySequence(outstanding, from)
  <2>1. ASSUME NEW d \in RelaySeqs \ outstanding
        PROVE  /\ SearchDistance(from, c) <= SearchDistance(from, d)
               /\ SearchDistance(from, d) <= SearchDistance(from, c) => d = c
    <3>1. SearchDistance(from, d) \in Nat /\ ~(SearchDistance(from, d) < trips)
      BY <1>0, <1>4, DistanceInRange
    <3>2. SearchDistance(from, d) = SearchDistance(from, c) => d = c
      BY <1>0, <1>1, DistanceIsInjective
    <3>3. QED
      BY <1>0, <1>1, <3>1, <3>2
  <2>2. QED
    BY <1>1, <1>7, <2>1 DEF NextFreeRelaySequence
<1>8. FindsFirstFree'
  BY <1>0, <1>7 DEF FindsFirstFree, NextFreeRelaySequence, SearchDistance, Successor
<1>9. QED
  BY <1>3, <1>6, <1>8 DEF LoopInv

\* After the last trip every number of the range has been tried, so (0, false) is
\* returned only when all are taken.
LEMMA GiveUpKeepsInv ==
    ASSUME LoopInv, GiveUp
    PROVE  LoopInv'
<1>0. /\ from \in Nat /\ trips = MaxTrips /\ ~returned /\ returned'
      /\ UNCHANGED <<outstanding, from, candidate, trips, found>>
      /\ found = {}
  BY DEF LoopInv, TypeOK, GiveUp, SearchedSoFar
<1>1. \A d \in RelaySeqs : d \in outstanding
  BY <1>0, DistanceInRange, RangeAssumption DEF LoopInv, SearchedSoFar, MaxTrips
<1>2. NextFreeRelaySequence(outstanding, from) = {}
  BY <1>1 DEF NextFreeRelaySequence
<1>3. FindsFirstFree'
  BY <1>0, <1>2 DEF FindsFirstFree, NextFreeRelaySequence, SearchDistance, Successor
<1>4. TypeOK'
  BY <1>0 DEF LoopInv, TypeOK, GiveUp
<1>5. SearchedSoFar'
  BY <1>0 DEF LoopInv, SearchedSoFar, SearchDistance, Successor
<1>6. QED
  BY <1>3, <1>4, <1>5 DEF LoopInv

\* A step that changes no variable keeps the invariant.
LEMMA StutterKeepsInv ==
    ASSUME LoopInv, UNCHANGED vars
    PROVE  LoopInv'
BY DEF LoopInv, vars, TypeOK, SearchedSoFar, FindsFirstFree, NextFreeRelaySequence,
       SearchDistance, Successor

\* The inductive invariant holds of every search.
THEOREM LoopInvariance == Spec => []LoopInv
<1>1. LoopInv /\ [Next]_vars => LoopInv'
  BY TripKeepsInv, GiveUpKeepsInv, StutterKeepsInv DEF Next
<1>2. QED
  BY <1>1, InitEstablishesInv, PTL DEF Spec

\* nextFreeRelaySequence returns only numbers of the adapter's own range, and its
\* loop turns no more often than that range has numbers.
THEOREM SearchTypeCorrect == Spec => []TypeOK
<1>1. LoopInv => TypeOK
  BY DEF LoopInv
<1>2. QED
  BY <1>1, LoopInvariance, PTL

\* Whatever the range, the table and the counter, the loop returns the first
\* free number of the cyclic search, and (0, false) only when none is free.
THEOREM SearchIsCorrect == Spec => []FindsFirstFree
<1>1. LoopInv => FindsFirstFree
  BY DEF LoopInv
<1>2. QED
  BY <1>1, LoopInvariance, PTL

=============================================================================
