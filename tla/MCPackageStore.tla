--------------------------- MODULE MCPackageStore ---------------------------
(* Two processes that put packages, and lists while they do.               *)
EXTENDS PackageStore, TLC

CONSTANTS p1, p2
Perms == Permutations(Process)
=============================================================================
