----------------------------- MODULE MCAuditLog -----------------------------
(* A few records by two or three processes.                                *)
EXTENDS AuditLog, TLC

CONSTANTS p1, p2, p3
Perms == Permutations(Process)
=============================================================================
