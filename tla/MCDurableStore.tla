-------------------------- MODULE MCDurableStore --------------------------
(* Small instances of DurableStore for TLC. *)
EXTENDS DurableStore

\* Handlers are interchangeable.
Symmetry == Permutations(Clients)

\* One request of every mode.
EachMode == {Request("full", 0, 0, 0), Request("head", 0, 0, 0),
             Request("range", 2, 3, 0), Request("spot", 0, 0, 2)}

=============================================================================
