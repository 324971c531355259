---------------------------- MODULE DamagedChain ----------------------------
(***************************************************************************)
(* What chain.Verify reports about a log whose rows were changed or lost   *)
(* outside the program, or forked by it.  The verifier finds the rows in a *)
(* quiet store: the head it is given is the last row.                      *)
(***************************************************************************)
EXTENDS ChainVerify, SequencesExt

CONSTANTS Bodies, GenesisBody,
          MaxSeq,      \* bound: length of the log before the damage
          MaxDamage    \* bound: number of damaging steps

ASSUME DamageAssumption == MaxSeq \in Nat \ {0} /\ MaxDamage \in Nat

VARIABLES entries,     \* what AllEntries returns
          damage,      \* number of damaging steps so far
          moved        \* some row was lost or added

vars == << entries, damage, moved >>

\* A hash that belongs to no row.
Junk == HashEntry(0, ZeroHash, GenesisBody)

Row(id, seq, prev, body) == [NewEntry(seq, prev, body) EXCEPT !.id = id]

\* Mutant of NewId: without AUTOINCREMENT, which remembers ids of lost rows.
CountedId == Len(entries) + 1

\* No row has had this id.
NewId == Len(entries) + damage + 1

Init == /\ entries = << Row(1, 1, ZeroHash, GenesisBody) >>
        /\ damage = 0
        /\ moved = FALSE

\* The program appends behind the row it finds last, damaged or not.
AppendRow == LET head == Last(entries) IN
             /\ head.seq < MaxSeq
             /\ \E b \in Bodies :
                  entries' = Append(entries, Row(NewId, head.seq + 1, head.hash, b))
             /\ UNCHANGED << damage, moved >>

Damage == /\ damage < MaxDamage
          /\ damage' = damage + 1

\* A column of row i changes.
AlterBody(i) == /\ \E b \in Bodies \ {entries[i].body} :
                     entries' = [entries EXCEPT ![i].body = b]
                /\ Damage
                /\ UNCHANGED moved

AlterPrev(i) == /\ entries' = [entries EXCEPT ![i].prev_hash = Junk]
                /\ Damage
                /\ UNCHANGED moved

AlterHash(i) == /\ entries' = [entries EXCEPT ![i].hash = Junk]
                /\ Damage
                /\ UNCHANGED moved

\* A row is given the hash of its present content.
Reseal(i) == /\ LET e == entries[i] IN
                entries' = [entries EXCEPT
                  ![i].hash = HashEntry(e.seq, e.prev_hash, e.body)]
             /\ Damage
             /\ UNCHANGED moved

LoseRow(i) == /\ Len(entries) > 1
              /\ entries' = RemoveAt(entries, i)
              /\ Damage
              /\ moved' = TRUE

\* A second row at a position: AuditStore does this by itself.
ForkRow(i) == /\ \E b \in Bodies \ {entries[i].body} :
                   entries' = InsertAt(entries, i + 1,
                     Row(NewId, entries[i].seq, entries[i].prev_hash, b))
              /\ Damage
              /\ moved' = TRUE

Next == \/ AppendRow
        \/ \E i \in DOMAIN entries :
             \/ AlterBody(i) \/ AlterPrev(i) \/ AlterHash(i)
             \/ Reseal(i) \/ LoseRow(i) \/ ForkRow(i)

Spec == Init /\ [][Next]_vars

-----------------------------------------------------------------------------

Rows == ToSet(entries)

Requests == {Request("full", 0, 0, 0), Request("head", 0, 0, 0)}
  \cup {Request("range", a, b, 0) : a \in 1 .. MaxSeq, b \in 1 .. MaxSeq + 1}
  \cup {Request("spot", 0, 0, k) : k \in 1 .. MaxSeq}

Report(req) == Verify(entries, Last(entries).hash, req)

Unforked == \A e, f \in Rows : e.seq = f.seq => e = f

\* The rows a request is about, by their positions.
InScope(e, req) ==
  \/ req.mode = "full"
  \/ req.mode = "range" /\ req.start_seq =< e.seq /\ e.seq =< req.end_seq
  \/ req.mode = "head" /\ Cardinality({f \in Rows : f.seq > e.seq}) < HeadWindow
  \/ /\ req.mode = "spot"
     /\ \/ Cardinality({f \in Rows : f.seq < e.seq}) % req.sample_step = 0
        \/ \A f \in Rows : f.seq =< e.seq

\* A row that is not sealed, or does not refer to the row before it.
Broken(e) ==
  \/ ~HashOK(e)
  \/ e.seq = 1 /\ e.prev_hash # ZeroHash
  \/ \E p \in Rows : p.seq = e.seq - 1 /\ p.hash # e.prev_hash

\* On a log without forks every mode of Verify reports the first broken row
\* it is asked about, counts the rows up to it, and reports ok (never a head
\* mismatch) if there is none.
ReportExact ==
  Unforked =>
    \A req \in {r \in Requests : ValidRequest(r)} :
      LET scope  == {e \in Rows : InScope(e, req)}
          broken == {e \in scope : Broken(e)} IN
      IF broken = {}
      THEN /\ Report(req).status = "ok"
           /\ Report(req).checked_entries = Cardinality(scope)
      ELSE \E e \in broken :
             /\ \A f \in broken : e.seq =< f.seq
             /\ Report(req).status \in {"link_broken", "hash_mismatch"}
             /\ Report(req).break_seq = e.seq
             /\ Report(req).checked_entries
                  = Cardinality({f \in scope : f.seq =< e.seq})

\* A full verification is exact about altered rows: as long as no row was
\* lost or added it reports ok if and only if the rows are one hash chain.
AlterationDetected ==
  ~moved =>
    (Report(Request("full", 0, 0, 0)).status = "ok" <=> IsChain(Rows))

-----------------------------------------------------------------------------
(* The inductive invariant: what damage leaves of the order of a log.      *)

IsRow(e) == /\ e = [id |-> e.id, seq |-> e.seq, prev_hash |-> e.prev_hash,
                   hash |-> e.hash, body |-> e.body]
            /\ e.id \in Nat /\ e.seq \in Nat \ {0}

\* Rows by position, no two of them with one id, all ids below top.
IsLog(s, top) ==
  /\ s \in Seq(ToSet(s)) /\ s # << >>
  /\ \A i \in DOMAIN s : IsRow(s[i]) /\ s[i].id < top
  /\ \A i, j \in DOMAIN s : i < j => /\ s[i].seq =< s[j].seq
                                   /\ s[i].id # s[j].id

Numbered(s) == \A i \in DOMAIN s : s[i].seq = i

\* However a log was damaged, and whatever the program appended to it since:
\* its positions never fall, no id is given twice, and as long as no row was
\* lost or added the n-th row is the one at position n.
DamageInv == /\ damage \in 0 .. MaxDamage /\ moved \in BOOLEAN
             /\ IsLog(entries, NewId)
             /\ ~moved => Numbered(entries)

=============================================================================
