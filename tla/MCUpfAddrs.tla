----------------------------- MODULE MCUpfAddrs -----------------------------
(***************************************************************************)
(* A user plane named by FQDN and another named by IP, two addresses.      *)
(***************************************************************************)
EXTENDS UpfAddrs, TLC

\* Handlers and addresses are only ever compared.
GateSymmetry == Permutations(Callers) \cup Permutations(Addrs)

=============================================================================
