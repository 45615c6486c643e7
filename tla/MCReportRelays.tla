--------------------------- MODULE MCReportRelays ---------------------------
(***************************************************************************)
(* ReportRelays on three numbers, so the search wraps and the range fills. *)
(***************************************************************************)
EXTENDS ReportRelays, TLC

\* Hosts are only ever compared.
HostSymmetry == Permutations(Hosts)

=============================================================================
