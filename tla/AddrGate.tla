------------------------------ MODULE AddrGate ------------------------------
(***************************************************************************)
(* What the source gate promises whoever holds state per peer: the set of  *)
(* authorised addresses changes in single steps, and an address leaves it  *)
(* only in a step that also releases it, exactly once.  An address may be  *)
(* released and authorised anew in one step, for its next occupant.        *)
(***************************************************************************)
EXTENDS Integers

CONSTANT Addrs

VARIABLES
    authorised,     \* the addresses reports are relayed for
    releases        \* address -> how often it has been released

vars == <<authorised, releases>>

Init ==
    /\ authorised = {}
    /\ releases = [a \in Addrs |-> 0]

\* The addresses in gone are released; those in come are authorised.
Change(gone, come) ==
    /\ gone \subseteq authorised
    /\ authorised' = (authorised \ gone) \cup come
    /\ releases' = [a \in Addrs |-> IF a \in gone THEN releases[a] + 1 ELSE releases[a]]

Next == \E gone, come \in SUBSET Addrs : Change(gone, come)

Spec == Init /\ [][Next]_vars

=============================================================================
