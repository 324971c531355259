----------------------------- MODULE MCReadApi -----------------------------
(* Small instances of ReadApi for TLC. *)
EXTENDS ReadApi

\* Handlers are interchangeable.
Symmetry == Permutations(Clients)

\* No filter; all but the genesis row; the positions from 2 to 3.
Anything  == [bodies |-> Bodies \cup {GenesisBody}, seq_from |-> 0, seq_to |-> 0]
ByClients == [Anything EXCEPT !.bodies = Bodies]
InRange   == [Anything EXCEPT !.seq_from = 2, !.seq_to = 3]
SomeFilters == {Anything, ByClients, InRange}

=============================================================================
