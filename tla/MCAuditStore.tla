---------------------------- MODULE MCAuditStore ----------------------------
(* Small instances of AuditStore for TLC. *)
EXTENDS AuditStore, TLC

\* Handlers and submitted contents are interchangeable (safety runs only).
Symmetry == Permutations(Clients) \cup Permutations(Bodies)

=============================================================================
