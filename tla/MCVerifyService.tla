-------------------------- MODULE MCVerifyService --------------------------
(* Small instances of VerifyService for TLC. *)
EXTENDS VerifyService

\* Only full verifications.
FullOnly == {Request("full", 0, 0, 0)}

=============================================================================
