--------------------------- MODULE MCLicenseServ ---------------------------
(* Instances of LicenseServ for TLC. *)
EXTENDS LicenseServ, TLC

Symmetry == Permutations(Clients) \union Permutations(Pids)
=============================================================================
