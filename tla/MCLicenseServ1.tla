--------------------------- MODULE MCLicenseServ1 ---------------------------
(* Instances of LicenseServ1 for TLC. *)
EXTENDS LicenseServ1, TLC

Symmetry == Permutations(Clients) \union Permutations(Pids)
=============================================================================
