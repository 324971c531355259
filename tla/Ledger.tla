------------------------------- MODULE Ledger -------------------------------
(***************************************************************************)
(* What the store promises to its clients, without tables, batches, locks  *)
(* or restarts: an append-only ledger.  An entry is added after an entry   *)
(* that is already there, sealed by its hash, under an id nobody else has; *)
(* nothing is ever changed or removed; what a client was told is stored    *)
(* is in the ledger.  The ledger does NOT promise that two entries never   *)
(* follow the same predecessor: AuditStore does not keep that.             *)
(***************************************************************************)
EXTENDS Chain

VARIABLES ledger,   \* all entries, in whatever table
          acked     \* the entries some client was told are stored

lvars == << ledger, acked >>

LInit == /\ ledger = {}
         /\ acked = {}

\* e may be added to S: an entry of its own, at the start or after another.
MayFollow(e, S) ==
  /\ HashOK(e)
  /\ \A r \in S : r.id # e.id
  /\ IF S = {} THEN IsGenesis(e) ELSE \E p \in S : Follows(e, p)

Extend == /\ \E e \in ledger' \ ledger : /\ ledger' = ledger \cup {e}
                                         /\ MayFollow(e, ledger)
          /\ UNCHANGED acked

Acknowledge == /\ UNCHANGED ledger
               /\ \E e \in ledger : acked' = acked \cup {e}

LNext == Extend \/ Acknowledge

LSpec == LInit /\ [][LNext]_lvars

=============================================================================
