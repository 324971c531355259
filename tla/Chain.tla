------------------------------- MODULE Chain -------------------------------
(***************************************************************************)
(* The hash chain of internal/chain: how an entry is built from its        *)
(* predecessor and what its hash covers.                                   *)
(*                                                                         *)
(* An entry's business fields (actor, action, target, detail, event_time)  *)
(* are one opaque `body'.  SHA-256 over the delimited fields is taken as   *)
(* injective, so a hash is the tuple of what it covers: the id assigned by *)
(* the database is NOT covered, the position and the previous hash are.    *)
(***************************************************************************)
EXTENDS Integers

\* chain.ZeroHash: the prev_hash of the genesis entry.
ZeroHash == << >>

\* chain.HashEntry: the digest covers seq, prev_hash and the body.
HashEntry(seq, prev, body) == << seq, prev, body >>

\* Mutant of NewEntry: sealed before prev_hash is filled in.
NewEntrySealedEarly(seq, prev, body) ==
  [id |-> 0, seq |-> seq, prev_hash |-> prev, body |-> body,
   hash |-> HashEntry(seq, ZeroHash, body)]

\* chain.NewEntry: a sealed entry that no table holds yet (id is still zero).
NewEntry(seq, prev, body) ==
  [id        |-> 0,
   seq       |-> seq,
   prev_hash |-> prev,
   hash      |-> HashEntry(seq, prev, body),
   body      |-> body]

\* The stored hash is the one verification recomputes from the row.
HashOK(e) == e.hash = HashEntry(e.seq, e.prev_hash, e.body)

\* Entry e follows entry p: next position, and prev_hash refers to p.
Follows(e, p) == /\ e.seq = p.seq + 1
                 /\ e.prev_hash = p.hash

\* The only entry without a predecessor.
IsGenesis(e) == /\ e.seq = 1
                /\ e.prev_hash = ZeroHash

\* A set of entries is ONE hash chain 1, 2, ..., n: no position is taken
\* twice, every entry but the genesis follows another one of the set.
IsChain(S) ==
  /\ \A e, f \in S : e.seq = f.seq => e = f
  /\ \A e \in S : /\ HashOK(e)
                  /\ IsGenesis(e) \/ \E p \in S : Follows(e, p)

=============================================================================
