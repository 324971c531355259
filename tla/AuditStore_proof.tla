-------------------------- MODULE AuditStore_proof --------------------------
(***************************************************************************)
(* Proofs about AuditStore, for any number of clients, any bodies, any     *)
(* policy config.Validate accepts and any bound MaxSeq.  The argument is   *)
(* one inductive invariant, StoreInv; the safety properties follow from it. *)
(* HashEntry is never expanded: the proofs hold for any hash function.     *)
(***************************************************************************)
EXTENDS AuditStore, FunctionTheorems, FiniteSetTheorems, SequenceTheorems,
        TLAPS

-----------------------------------------------------------------------------
(* Lemmas about rows and queries                                           *)

\* An entry built on a row, once the database has given it an id, is a row.
LEMMA NewRowIsRow ==
  ASSUME NEW p, IsRow(p), NEW b \in Bodies, NEW i \in Nat \ {0}
  PROVE  IsRow([NewEntry(p.seq + 1, p.hash, b) EXCEPT !.id = i])
<1>1. p.seq \in Nat \ {0}
  BY DEF IsRow
<1>. QED
  BY <1>1 DEF IsRow, NewEntry, HashOK

\* So is the genesis row.
LEMMA GenesisIsRow ==
  ASSUME lastId \in Nat
  PROVE  IsRow(GenesisRow) /\ IsGenesis(GenesisRow)
BY DEF IsRow, GenesisRow, NewEntry, HashOK, IsGenesis

\* The rows Archive selects are closed downwards in ORDER BY seq and leave
\* the head out, because at least one row is kept (KeepMin >= 1).
LEMMA OldestRows ==
  ASSUME ActiveInv, \A e \in auditEntries : e.seq \in Nat,
         NEW n \in Int, n < Cardinality(auditEntries)
  PROVE  /\ Oldest(n) \subseteq auditEntries
         /\ \A r \in Oldest(n), s \in auditEntries :
              s.seq =< r.seq => s \in Oldest(n)
         /\ \A h \in auditEntries : IsHead(h) => h \notin Oldest(n)
<1>1. \A r \in auditEntries :
        /\ IsFiniteSet(Before(r))
        /\ Cardinality(Before(r)) \in Nat
  BY FS_Subset, FS_CardinalityType DEF ActiveInv, Before
<1>2. ASSUME NEW r \in Oldest(n), NEW s \in auditEntries, s.seq =< r.seq
      PROVE  s \in Oldest(n)
  <2>1. r \in auditEntries /\ Cardinality(Before(r)) < n
    BY DEF Oldest
  <2>2. Before(s) \in SUBSET Before(r)
    BY <1>2, <2>1 DEF Before
  <2>3. Cardinality(Before(s)) =< Cardinality(Before(r))
    BY <2>1, <2>2, <1>1, FS_Subset
  <2>. QED
    BY <1>1, <2>1, <2>3 DEF Oldest
<1>3. ASSUME NEW h \in auditEntries, IsHead(h)
      PROVE  h \notin Oldest(n)
  <2>1. Before(h) = auditEntries \ {h}
    BY <1>3 DEF Before, IsHead, ActiveInv
  <2>2. Cardinality(Before(h)) = Cardinality(auditEntries) - 1
    BY <2>1, FS_RemoveElement DEF ActiveInv
  <2>3. Cardinality(auditEntries) \in Nat
    BY FS_CardinalityType DEF ActiveInv
  <2>. QED
    BY <2>2, <2>3 DEF Oldest
<1>. QED
  BY <1>2, <1>3 DEF Oldest

\* ArchivedUpTo is a position, or 0 before the first batch.
LEMMA ArchivedUpToType ==
  ASSUME TableTypes
  PROVE  ArchivedUpTo \in Nat
<1>1. CASE archiveBatches = << >>
  BY <1>1 DEF ArchivedUpTo
<1>2. CASE archiveBatches # << >>
  <2>1. Len(archiveBatches) \in DOMAIN archiveBatches
    BY <1>2, EmptySeq, LenProperties DEF TypeOK, TableTypes
  <2>. QED
    BY <1>2, <2>1 DEF TypeOK, TableTypes, Manifests, IsManifest, ArchivedUpTo
<1>. QED
  BY <1>1, <1>2

-----------------------------------------------------------------------------
(* The inductive invariant                                                 *)

\* What the invariant says of the tables beyond their types.
TableParts == ActiveInv /\ ArchiveInv /\ BatchInv /\ LogInv

\* A step that leaves the tables alone keeps what the invariant says of them.
LEMMA TablesUnchanged ==
  ASSUME StoreInv, UNCHANGED tables
  PROVE  /\ TableParts'
         /\ AllEntries' = AllEntries
<1>1. UNCHANGED << auditEntries, archiveEntries, archiveBatches, lastId >>
  BY DEF tables
<1>2. /\ AllEntries' = AllEntries
      /\ ArchivedRows' = ArchivedRows
      /\ ArchivedUpTo' = ArchivedUpTo
  BY <1>1 DEF AllEntries, ArchivedRows, ArchivedUpTo
<1>3. ActiveInv' /\ ArchiveInv'
  BY <1>1, <1>2 DEF StoreInv, TableInv, ActiveInv, ArchiveInv, IsHead
<1>4. BatchInv'
  BY <1>1 DEF StoreInv, TableInv, BatchInv, BatchesLinked, BatchRows
<1>5. LogInv'
  BY <1>1, <1>2 DEF StoreInv, TableInv, LogInv, IdUnique
<1>. QED
  BY <1>2, <1>3, <1>4, <1>5 DEF TableParts

LEMMA InitInv == Init => StoreInv
<1>. SUFFICES ASSUME Init PROVE StoreInv
  OBVIOUS
<1>1. AllEntries = {} /\ ArchivedRows = {} /\ ArchivedUpTo = 0
  BY DEF Init, AllEntries, ArchivedRows, ArchivedUpTo
<1>2. TypeOK
  <2>1. pc \in [Clients -> {"idle", "built", "stored"}] /\ DOMAIN pending = Clients
    BY DEF Init
  <2>2. Manifests = {} /\ archiveBatches \in Seq(Manifests)
    BY EmptySeq DEF Init, Manifests
  <2>. QED
    BY <1>1, <2>1, <2>2 DEF Init, TypeOK, TableTypes
<1>3. ActiveInv
  BY FS_EmptySet DEF Init, ActiveInv
<1>4. ArchiveInv /\ BatchInv /\ LogInv
  BY <1>1 DEF Init, ArchiveInv, BatchInv, BatchesLinked, LogInv, IdUnique
<1>5. ClientInv /\ JobInv
  BY DEF Init, ClientInv, JobInv
<1>. QED
  BY <1>2, <1>3, <1>4, <1>5
  DEF StoreInv, TableInv, TableParts, TypeOK

\* Steps of the handlers and of the process that touch no table.
LEMMA QuietStep ==
  ASSUME StoreInv,
         \/ Crash
         \/ ArchiveAbort
         \/ \E c \in Clients : AppendFail(c) \/ LoseReply(c)
  PROVE  StoreInv'
<1>1. UNCHANGED << tables, replied >>
  BY DEF Crash, ArchiveAbort, AppendFail, LoseReply
<1>2. TableParts' /\ AllEntries' = AllEntries
  BY <1>1, TablesUnchanged
<1>3. archiveJob' \in {{}, archiveJob}
  BY DEF Crash, ArchiveAbort, AppendFail, LoseReply
<1>4. TypeOK'
  <2>1. pc' \in [Clients -> {"idle", "built", "stored"}]
    BY DEF StoreInv, TableInv, TypeOK, TableTypes, Crash, ArchiveAbort,
           AppendFail, LoseReply
  <2>2. DOMAIN pending' = Clients /\ up' \in BOOLEAN
    BY DEF StoreInv, TableInv, TypeOK, TableTypes, Crash, ArchiveAbort,
           AppendFail, LoseReply
  <2>. QED
    BY <1>1, <1>2, <1>3, <2>1, <2>2
    DEF StoreInv, TableInv, TypeOK, TableTypes, tables, IsRow, IsManifest,
        Manifests
<1>5. ClientInv'
  BY <1>2 DEF StoreInv, TableInv, TypeOK, TableTypes, ClientInv, Crash,
              ArchiveAbort, AppendFail, LoseReply
<1>6. JobInv'
  BY <1>1, <1>3 DEF StoreInv, TableInv, JobInv, tables, IsHead
<1>. QED
  BY <1>2, <1>4, <1>5, <1>6
  DEF StoreInv, TableInv, TableParts, TypeOK

\* Reading the head and sealing an entry changes only the handler.
LEMMA BuildEntryStep ==
  ASSUME StoreInv, NEW c \in Clients, NEW b \in Bodies, BuildEntry(c, b)
  PROVE  StoreInv'
<1>1. UNCHANGED << tables, replied, up, archiveJob >>
  BY DEF BuildEntry
<1>2. TableParts' /\ AllEntries' = AllEntries
  BY <1>1, TablesUnchanged
<1>3. PICK h \in auditEntries :
        pending' = [pending EXCEPT ![c] = NewEntry(h.seq + 1, h.hash, b)]
  BY DEF BuildEntry
<1>4. TypeOK'
  <2>1. pc' \in [Clients -> {"idle", "built", "stored"}]
    BY DEF StoreInv, TableInv, TypeOK, TableTypes, BuildEntry
  <2>2. DOMAIN pending' = Clients
    BY <1>3 DEF StoreInv, TableInv, TypeOK, TableTypes
  <2>. QED
    BY <1>1, <1>2, <2>1, <2>2 DEF StoreInv, TableInv, TypeOK, TableTypes,
                                  tables, IsRow, IsManifest, Manifests
<1>5. ClientInv'
  <2>. SUFFICES ASSUME NEW d \in Clients
                PROVE  /\ pc'[d] = "built" =>
                            \E p \in AllEntries, x \in Bodies :
                              pending'[d] = NewEntry(p.seq + 1, p.hash, x)
                       /\ pc'[d] = "stored" => pending'[d] \in AllEntries
    BY <1>2 DEF ClientInv
  <2>1. CASE d = c
    <3>1. pc'[d] = "built" /\ pending'[d] = NewEntry(h.seq + 1, h.hash, b)
      BY <2>1, <1>3 DEF StoreInv, TableInv, TypeOK, TableTypes, BuildEntry
    <3>2. h \in AllEntries
      BY DEF AllEntries
    <3>. QED
      BY <3>1, <3>2
  <2>2. CASE d # c
    <3>1. pc'[d] = pc[d] /\ pending'[d] = pending[d]
      BY <2>2, <1>3 DEF StoreInv, TableInv, TypeOK, TableTypes, BuildEntry
    <3>. QED
      BY <3>1 DEF StoreInv, TableInv, ClientInv
  <2>. QED
    BY <2>1, <2>2
<1>6. JobInv'
  BY <1>1 DEF StoreInv, TableInv, JobInv, tables, IsHead
<1>. QED
  BY <1>2, <1>4, <1>5, <1>6
  DEF StoreInv, TableInv, TableParts, TypeOK

\* The row a client is told about is stored, wherever it is by now.
LEMMA ReplyStep ==
  ASSUME StoreInv, NEW c \in Clients, Reply(c)
  PROVE  StoreInv'
<1>1. /\ UNCHANGED << tables, up, archiveJob >>
      /\ replied' = replied \cup {pending[c]}
      /\ AllEntries' = AllEntries
      /\ pending[c] \in AllEntries
  BY DEF Reply, tables, AllEntries, ArchivedRows, StoreInv, TableInv, ClientInv
<1>2. TableParts'
  BY <1>1, TablesUnchanged
<1>3. TypeOK'
  <2>1. pc' \in [Clients -> {"idle", "built", "stored"}] /\ DOMAIN pending' = Clients
    BY DEF StoreInv, TableInv, TypeOK, TableTypes, Reply
  <2>2. \A e \in (AllEntries \cup archiveJob \cup replied)' : IsRow(e)
    BY <1>1 DEF StoreInv, TableInv, TypeOK, TableTypes
  <2>. QED
    BY <1>1, <2>1, <2>2 DEF StoreInv, TableInv, TypeOK, TableTypes, tables,
                            IsRow, IsManifest, Manifests
<1>4. ClientInv'
  BY <1>1 DEF StoreInv, TableInv, TypeOK, TableTypes, ClientInv, Reply
<1>5. JobInv'
  BY <1>1 DEF StoreInv, TableInv, JobInv, tables, IsHead
<1>. QED
  BY <1>2, <1>3, <1>4, <1>5
  DEF StoreInv, TableInv, TableParts, TypeOK

\* Archive's selection: see OldestRows.
LEMMA ArchiveSelectStep ==
  ASSUME StoreInv, NEW n \in 0 .. Surplus, ArchiveSelect(n)
  PROVE  StoreInv'
<1>1. UNCHANGED << tables, replied, up, pc, pending >>
  BY DEF ArchiveSelect
<1>2. TableParts' /\ AllEntries' = AllEntries
  BY <1>1, TablesUnchanged
<1>3. \A e \in auditEntries : e.seq \in Nat
  BY DEF StoreInv, TableInv, TypeOK, TableTypes, AllEntries, IsRow
<1>4. Cardinality(auditEntries) \in Nat
  BY FS_CardinalityType DEF StoreInv, TableInv, ActiveInv
<1>5. /\ archiveJob' \subseteq auditEntries
      /\ \A r \in archiveJob', s \in auditEntries :
           s.seq =< r.seq => s \in archiveJob'
      /\ \A h \in auditEntries : IsHead(h) => h \notin archiveJob'
  <2>1. n \in Int /\ n < Cardinality(auditEntries)
    BY <1>4, PolicyAssumption DEF Surplus
  <2>. QED
    BY <1>3, <2>1, OldestRows DEF StoreInv, TableInv, ArchiveSelect
<1>6. TypeOK'
  BY <1>1, <1>2, <1>5
  DEF StoreInv, TableInv, TypeOK, TableTypes, tables, IsRow, IsManifest,
      Manifests, AllEntries
<1>7. ClientInv'
  BY <1>1, <1>2 DEF StoreInv, TableInv, ClientInv
<1>8. JobInv'
  BY <1>1, <1>5 DEF JobInv, tables, IsHead
<1>. QED
  BY <1>2, <1>6, <1>7, <1>8
  DEF StoreInv, TableInv, TableParts, TypeOK

\* Open: only a table that has never held a row gets a genesis entry.
LEMMA StartStep ==
  ASSUME StoreInv, Start
  PROVE  StoreInv'
<1>1. CASE auditEntries # {}
  <2>1. UNCHANGED << tables, replied, pc, pending, archiveJob >> /\ up' \in BOOLEAN
    BY <1>1 DEF Start, tables
  <2>2. TableParts' /\ AllEntries' = AllEntries
    BY <2>1, TablesUnchanged
  <2>3. TypeOK' /\ ClientInv' /\ JobInv'
    BY <2>1, <2>2 DEF StoreInv, TableInv, TypeOK, TableTypes, ClientInv,
                      JobInv, tables, IsRow, IsManifest, Manifests, IsHead
  <2>. QED
    BY <2>2, <2>3
    DEF StoreInv, TableInv, TableParts, TypeOK
<1>2. CASE auditEntries = {}
  <2>1. /\ archiveEntries = {} /\ archiveBatches = << >>
        /\ AllEntries = {} /\ archiveJob = {}
    BY <1>2 DEF StoreInv, TableInv, ActiveInv, LogInv, JobInv, AllEntries,
                ArchivedRows
  <2>2. /\ auditEntries' = {GenesisRow}
        /\ lastId' = lastId + 1
        /\ UNCHANGED << archiveEntries, archiveBatches, replied, archiveJob,
                        pc, pending >>
        /\ up' \in BOOLEAN
    BY <1>2 DEF Start
  <2>3. /\ AllEntries' = {GenesisRow}
        /\ ArchivedRows' = {}
        /\ ArchivedUpTo' = 0
    BY <2>1, <2>2 DEF AllEntries, ArchivedRows, ArchivedUpTo
  <2>4. lastId \in Nat
    BY DEF StoreInv, TableInv, TypeOK, TableTypes
  <2>5. PICK g : /\ g = GenesisRow
                 /\ IsRow(g) /\ IsGenesis(g)
                 /\ g.seq = 1 /\ g.id = lastId + 1
    BY <2>4, GenesisIsRow DEF GenesisRow, NewEntry
  <2>6. TypeOK'
    <3>1. \A e \in (AllEntries \cup archiveJob \cup replied)' : IsRow(e)
      BY <2>1, <2>2, <2>3, <2>5 DEF StoreInv, TypeOK
    <3>. QED
      BY <2>2, <2>4, <3>1 DEF StoreInv, TableInv, TypeOK, TableTypes,
                              IsManifest, Manifests, IsRow
  <2>7. ActiveInv'
    <3>1. IsFiniteSet(auditEntries')
      BY <2>2, FS_Singleton
    <3>2. /\ g \in auditEntries'
          /\ \A r \in auditEntries' : r.seq =< g.seq
          /\ \A e \in auditEntries' : \A n \in 1 .. e.seq : n = 1
      BY <2>2, <2>5
    <3>. QED
      BY <2>2, <2>3, <2>5, <3>1, <3>2 DEF ActiveInv, IsHead
  <2>8. ArchiveInv' /\ BatchInv'
    BY <2>1, <2>2, <2>3 DEF ArchiveInv, BatchInv, BatchesLinked
  <2>9. LogInv'
    BY <2>1, <2>2, <2>3, <2>4, <2>5 DEF LogInv, IdUnique
  <2>10. ClientInv'
    BY <2>1, <2>2 DEF StoreInv, TableInv, ClientInv
  <2>11. JobInv'
    BY <2>1, <2>2 DEF JobInv
  <2>. QED
    BY <2>6, <2>7, <2>8, <2>9, <2>10, <2>11
    DEF StoreInv, TableInv, TableParts, TypeOK
<1>. QED
  BY <1>1, <1>2

\* Store.Append: the row goes on top of the row it was built on, which may
\* have been archived meanwhile.
LEMMA AppendCommitStep ==
  ASSUME StoreInv, NEW c \in Clients, AppendCommit(c)
  PROVE  StoreInv'
<1>1. PICK p \in AllEntries, b \in Bodies :
        pending[c] = NewEntry(p.seq + 1, p.hash, b)
  BY DEF StoreInv, TableInv, ClientInv, AppendCommit
<1>2. PICK row : row = [pending[c] EXCEPT !.id = lastId + 1]
  OBVIOUS
<1>3. /\ auditEntries' = auditEntries \cup {row}
      /\ pending' = [pending EXCEPT ![c] = row]
      /\ lastId' = lastId + 1
      /\ pc' = [pc EXCEPT ![c] = "stored"]
      /\ UNCHANGED << up, archiveEntries, archiveBatches, replied, archiveJob >>
      /\ archiveJob = {}
      /\ \A r \in auditEntries : r.seq # row.seq
  BY <1>1, <1>2 DEF AppendCommit, WriteMuFree, SeqTaken, NewEntry
<1>4. /\ IsRow(p)
      /\ \A e \in AllEntries : IsRow(e)
      /\ lastId \in Nat
  BY DEF StoreInv, TableInv, TypeOK, TableTypes
<1>5. /\ IsRow(row)
      /\ row.seq = p.seq + 1 /\ row.prev_hash = p.hash /\ row.id = lastId + 1
      /\ Follows(row, p)
  BY <1>1, <1>2, <1>4, NewRowIsRow DEF NewEntry, Follows
<1>6. /\ AllEntries' = AllEntries \cup {row}
      /\ ArchivedRows' = ArchivedRows
      /\ ArchivedUpTo' = ArchivedUpTo
  BY <1>3 DEF AllEntries, ArchivedRows, ArchivedUpTo
<1>7. \A e \in AllEntries : e.seq \in Nat \ {0} /\ e.id \in Nat
  BY <1>4 DEF IsRow
<1>8. ArchivedUpTo \in Nat
  BY ArchivedUpToType DEF StoreInv, TableInv
<1>9. TypeOK'
  <2>1. \A e \in (AllEntries \cup archiveJob \cup replied)' : IsRow(e)
    BY <1>3, <1>5, <1>6 DEF StoreInv, TableInv, TypeOK, TableTypes
  <2>2. pc' \in [Clients -> {"idle", "built", "stored"}] /\ DOMAIN pending' = Clients
    BY <1>3 DEF StoreInv, TableInv, TypeOK, TableTypes
  <2>3. up' \in BOOLEAN /\ lastId' \in Nat
    BY <1>3, <1>4 DEF StoreInv, TableInv, TypeOK, TableTypes
  <2>. QED
    BY <1>3, <2>1, <2>2, <2>3 DEF StoreInv, TableInv, TypeOK, TableTypes,
                                  IsManifest, Manifests, IsRow
<1>10. ActiveInv'
  <2>1. IsFiniteSet(auditEntries')
    BY <1>3, FS_AddElement DEF StoreInv, TableInv, ActiveInv
  <2>2. \A r, s \in auditEntries' : r.seq = s.seq => r = s
    BY <1>3 DEF StoreInv, TableInv, ActiveInv
  <2>3. ASSUME NEW e \in auditEntries', NEW n \in ArchivedUpTo + 1 .. e.seq
        PROVE  \E r \in auditEntries' : r.seq = n
    <3>1. CASE e \in auditEntries
      BY <3>1, <1>3 DEF StoreInv, TableInv, ActiveInv
    <3>2. CASE e = row /\ n = row.seq
      BY <3>2, <1>3
    <3>3. CASE e = row /\ n # row.seq
      <4>1. n \in ArchivedUpTo + 1 .. p.seq
        BY <3>3, <1>5, <1>7, <1>8
      <4>2. p \notin ArchivedRows
        BY <4>1, <1>7, <1>8 DEF StoreInv, TableInv, ArchiveInv
      <4>3. p \in auditEntries
        BY <4>2 DEF AllEntries
      <4>. QED
        BY <4>1, <4>3, <1>3 DEF StoreInv, TableInv, ActiveInv
    <3>. QED
      BY <3>1, <3>2, <3>3, <1>3
  <2>4. \E g \in auditEntries' : IsHead(g)' /\ g.seq > ArchivedUpTo
    <3>1. auditEntries # {}
      BY DEF StoreInv, TableInv, ActiveInv, AllEntries, ArchivedRows
    <3>2. PICK h \in auditEntries : IsHead(h) /\ h.seq > ArchivedUpTo
      BY <3>1 DEF StoreInv, TableInv, ActiveInv
    <3>3. row.seq \in Nat /\ h.seq \in Nat /\ \A r \in auditEntries : r.seq \in Nat
      BY <1>5, <1>7 DEF IsRow, AllEntries
    <3>4. CASE row.seq =< h.seq
      <4>1. h \in auditEntries' /\ \A r \in auditEntries' : r.seq =< h.seq
        BY <3>2, <3>4, <1>3 DEF IsHead
      <4>. QED
        BY <3>2, <4>1 DEF IsHead
    <3>5. CASE h.seq < row.seq
      <4>1. row \in auditEntries' /\ \A r \in auditEntries' : r.seq =< row.seq
        BY <3>2, <3>3, <3>5, <1>3 DEF IsHead
      <4>. QED
        BY <3>2, <3>3, <3>5, <4>1, <1>8 DEF IsHead
    <3>. QED
      BY <3>3, <3>4, <3>5
  <2>5. auditEntries' # {}
    BY <1>3
  <2>. QED
    BY <2>1, <2>2, <2>3, <2>4, <2>5, <1>6 DEF ActiveInv
<1>11. ArchiveInv' /\ BatchInv'
  BY <1>3, <1>6 DEF StoreInv, TableInv, ArchiveInv, BatchInv, BatchesLinked,
                    BatchRows
<1>12. LogInv'
  <2>1. \A e \in AllEntries' : IsGenesis(e) \/ \E q \in AllEntries' : Follows(e, q)
    BY <1>5, <1>6 DEF StoreInv, TableInv, LogInv
  <2>2. \A e \in AllEntries' : e.id =< lastId'
    BY <1>3, <1>4, <1>5, <1>6, <1>7 DEF StoreInv, TableInv, LogInv
  <2>3. IdUnique'
    <3>1. \A e \in AllEntries : e.id # row.id
      BY <1>4, <1>5, <1>7 DEF StoreInv, TableInv, LogInv
    <3>2. auditEntries' \cap ArchivedRows' = {}
      BY <3>1, <1>3, <1>6 DEF StoreInv, TableInv, LogInv, IdUnique, AllEntries
    <3>. QED
      BY <3>1, <3>2, <1>6 DEF StoreInv, TableInv, LogInv, IdUnique
  <2>. QED
    BY <2>1, <2>2, <2>3, <1>3, <1>6 DEF StoreInv, TableInv, LogInv
<1>13. ClientInv'
  BY <1>3, <1>6 DEF StoreInv, TableInv, TypeOK, TableTypes, ClientInv
<1>14. JobInv'
  BY <1>3 DEF JobInv
<1>. QED
  BY <1>9, <1>10, <1>11, <1>12, <1>13, <1>14
  DEF StoreInv, TableInv, TableParts, TypeOK

\* What a batch that commits has to do with the tables: it is exactly the
\* active prefix above the archive, and NO active row has an archived
\* position (any such row would be in the batch, or below it, and conflict).
LEMMA CommittedBatch ==
  ASSUME StoreInv, ArchiveCommit
  PROVE  \E first, last \in archiveJob :
           /\ \A r \in archiveJob : first.seq =< r.seq /\ r.seq =< last.seq
           /\ first.seq = ArchivedUpTo + 1
           /\ \A r \in auditEntries : r.seq > ArchivedUpTo
           /\ \A r \in auditEntries : r \in archiveJob <=> r.seq =< last.seq
           /\ auditEntries' = auditEntries \ archiveJob
           /\ ArchivedRows' = ArchivedRows \cup archiveJob
           /\ archiveBatches' =
                Append(archiveBatches, Manifest(archiveJob, first, last))
           /\ ArchivedUpTo' = last.seq
           /\ AllEntries' = AllEntries
<1>1. PICK first \in archiveJob, last \in archiveJob :
        /\ \A r \in archiveJob : first.seq =< r.seq /\ r.seq =< last.seq
        /\ archiveBatches' =
             Append(archiveBatches, Manifest(archiveJob, first, last))
        /\ auditEntries' = auditEntries \ Deleted(last)
  BY DEF ArchiveCommit
<1>2. /\ archiveJob \subseteq auditEntries
      /\ \A r \in archiveJob, s \in auditEntries :
           s.seq =< r.seq => s \in archiveJob
  BY DEF StoreInv, TableInv, JobInv
<1>3. ArchivedUpTo \in Nat /\ \A e \in AllEntries : e.seq \in Nat \ {0}
  BY ArchivedUpToType DEF StoreInv, TableInv, TypeOK, TableTypes, IsRow
<1>4. \A r \in archiveJob, a \in ArchivedRows : r.seq # a.seq
  BY DEF ArchiveCommit, Conflict
<1>5. \A n \in 1 .. ArchivedUpTo : \E a \in ArchivedRows : a.seq = n
  BY DEF StoreInv, TableInv, ArchiveInv
<1>6. \A r \in archiveJob : r.seq > ArchivedUpTo
  <2>. SUFFICES ASSUME NEW r \in archiveJob, r.seq =< ArchivedUpTo PROVE FALSE
    BY <1>2, <1>3 DEF AllEntries
  <2>1. r.seq \in 1 .. ArchivedUpTo
    BY <1>2, <1>3 DEF AllEntries
  <2>. QED
    BY <2>1, <1>4, <1>5
<1>7. \A r \in auditEntries : r.seq > ArchivedUpTo
  <2>. SUFFICES ASSUME NEW r \in auditEntries, r.seq =< ArchivedUpTo PROVE FALSE
    BY <1>3 DEF AllEntries
  <2>1. r.seq =< first.seq
    BY <1>2, <1>3, <1>6 DEF AllEntries
  <2>. QED
    BY <2>1, <1>2, <1>3, <1>6 DEF AllEntries
<1>8. \A r \in auditEntries : r \in archiveJob <=> r.seq =< last.seq
  BY <1>1, <1>2
<1>9. first.seq = ArchivedUpTo + 1
  <2>1. ArchivedUpTo + 1 \in ArchivedUpTo + 1 .. first.seq
    BY <1>2, <1>3, <1>6 DEF AllEntries
  <2>2. PICK r \in auditEntries : r.seq = ArchivedUpTo + 1
    BY <2>1, <1>2 DEF StoreInv, TableInv, ActiveInv
  <2>3. r \in archiveJob
    BY <2>2, <1>2, <1>3, <1>6 DEF AllEntries
  <2>. QED
    BY <2>2, <2>3, <1>1, <1>2, <1>3, <1>6 DEF AllEntries
<1>10. auditEntries' = auditEntries \ archiveJob
  BY <1>1, <1>8 DEF Deleted
<1>11. ArchivedRows' = ArchivedRows \cup archiveJob
  <2>. DEFINE n == Len(archiveBatches) + 1
              new == {[row |-> r, batch_no |-> n] : r \in archiveJob}
  <2>1. ArchivedRows' = {a.row : a \in archiveEntries \cup new}
    BY DEF ArchiveCommit, ArchivedRows
  <2>2. \A r \in archiveJob :
          [row |-> r, batch_no |-> n] \in new /\ [row |-> r, batch_no |-> n].row = r
    OBVIOUS
  <2>3. \A a \in new : a.row \in archiveJob
    OBVIOUS
  <2>. HIDE DEF new
  <2>. QED
    BY <2>1, <2>2, <2>3 DEF ArchivedRows
<1>12. AllEntries' = AllEntries
  BY <1>2, <1>10, <1>11 DEF AllEntries
<1>13. ArchivedUpTo' = last.seq
  <2>1. archiveBatches \in Seq(Manifests)
    BY DEF StoreInv, TableInv, TypeOK, TableTypes
  <2>2. PICK S : /\ archiveBatches \in Seq(S)
                 /\ Manifest(archiveJob, first, last) \in S
    <3>1. archiveBatches \in Seq(Manifests \cup {Manifest(archiveJob, first, last)})
      BY <2>1
    <3>. QED
      BY <3>1
  <2>3. /\ Len(archiveBatches') = Len(archiveBatches) + 1
        /\ archiveBatches'[Len(archiveBatches) + 1] = Manifest(archiveJob, first, last)
        /\ archiveBatches' # << >>
    BY <1>1, <2>2, AppendProperties
  <2>. QED
    BY <2>3 DEF ArchivedUpTo, Manifest
<1>. QED
  BY <1>1, <1>7, <1>8, <1>9, <1>10, <1>11, <1>12, <1>13

\* Moving a batch keeps every table well typed: one more manifest, rows
\* tagged with its number.
LEMMA ArchiveCommitTyped ==
  ASSUME StoreInv, ArchiveCommit
  PROVE  TypeOK'
<1>1. PICK first \in archiveJob, last \in archiveJob :
        /\ archiveBatches' =
             Append(archiveBatches, Manifest(archiveJob, first, last))
        /\ AllEntries' = AllEntries
  BY CommittedBatch
<1>2. PICK m : m = Manifest(archiveJob, first, last)
  OBVIOUS
<1>3. IsManifest(m)
  <2>1. IsRow(first) /\ IsRow(last)
    BY DEF StoreInv, TableInv, TypeOK, TableTypes
  <2>2. IsFiniteSet(archiveJob)
    BY FS_Subset DEF StoreInv, TableInv, ActiveInv, JobInv
  <2>3. Cardinality(archiveJob) \in Nat \ {0}
    BY <2>2, FS_CardinalityType, FS_EmptySet
  <2>. QED
    BY <1>2, <2>1, <2>3 DEF IsManifest, Manifest, IsRow
<1>4. PICK S : S = Manifests \cup {m}
  OBVIOUS
<1>5. archiveBatches \in Seq(S)
  BY <1>4 DEF StoreInv, TableInv, TypeOK, TableTypes
<1>6. /\ archiveBatches' \in Seq(S)
      /\ Len(archiveBatches') = Len(archiveBatches) + 1
      /\ \A n \in 1 .. Len(archiveBatches) : archiveBatches'[n] = archiveBatches[n]
      /\ archiveBatches'[Len(archiveBatches) + 1] = m
      /\ Len(archiveBatches) \in Nat
      /\ DOMAIN archiveBatches = 1 .. Len(archiveBatches)
      /\ DOMAIN archiveBatches' = 1 .. Len(archiveBatches')
  BY <1>1, <1>2, <1>4, <1>5, AppendProperties, LenProperties
<1>7. Manifests' = S
  <2>1. \A n \in DOMAIN archiveBatches' : archiveBatches'[n] \in S
    BY <1>6, ElementOfSeq
  <2>2. \A n \in DOMAIN archiveBatches :
          n \in DOMAIN archiveBatches' /\ archiveBatches'[n] = archiveBatches[n]
    BY <1>6
  <2>3. Len(archiveBatches) + 1 \in DOMAIN archiveBatches'
    BY <1>6
  <2>. QED
    BY <1>4, <1>6, <2>1, <2>2, <2>3 DEF Manifests
<1>8. \A b \in S : IsManifest(b)
  BY <1>3, <1>4 DEF StoreInv, TableInv, TypeOK, TableTypes
<1>9. \A a \in archiveEntries' : /\ a = [row |-> a.row, batch_no |-> a.batch_no]
                                 /\ a.batch_no \in 1 .. Len(archiveBatches')
  <2>1. \A a \in archiveEntries : a.batch_no \in 1 .. Len(archiveBatches')
    BY <1>6 DEF StoreInv, TableInv, TypeOK, TableTypes
  <2>2. Len(archiveBatches) + 1 \in 1 .. Len(archiveBatches')
    BY <1>6
  <2>. QED
    BY <2>1, <2>2 DEF StoreInv, TableInv, TypeOK, TableTypes, ArchiveCommit
<1>10. \A e \in (AllEntries \cup archiveJob \cup replied)' : IsRow(e)
  BY <1>1 DEF StoreInv, TableInv, TypeOK, TableTypes, ArchiveCommit
<1>11. UNCHANGED << up, lastId, pc, pending >>
  BY DEF ArchiveCommit
<1>. QED
  BY <1>6, <1>7, <1>8, <1>9, <1>10, <1>11 DEF StoreInv, TableInv, TypeOK,
                                              TableTypes

\* The rows of a batch fill its segment: as many as it has positions.
LEMMA SegmentSize ==
  ASSUME NEW rows, NEW m \in Nat, NEW n \in Nat, m =< n + 1,
         \A r, s \in rows : r.seq = s.seq => r = s,
         {r.seq : r \in rows} = m .. n
  PROVE  Cardinality(rows) = n - m + 1
<1>. DEFINE f == [r \in rows |-> r.seq]
<1>1. f \in [rows -> m .. n]
  OBVIOUS
<1>2. f \in Injection(rows, m .. n)
  <2>1. \A r, s \in rows : f[r] = f[s] => r = s
    OBVIOUS
  <2>. QED
    BY <1>1, <2>1, Fun_IsInj
<1>3. f \in Surjection(rows, m .. n)
  <2>1. \A k \in m .. n : \E r \in rows : f[r] = k
    OBVIOUS
  <2>. QED
    BY <1>1, <2>1, Fun_IsSurj
<1>4. IsFiniteSet(m .. n) /\ Cardinality(m .. n) = n - m + 1
  BY FS_Interval
<1>. QED
  BY <1>2, <1>3, <1>4, FS_Injection

\* A batch that commits is linked to the one before it: its first row follows
\* the row that batch ended with, whatever else has been appended meanwhile.
LEMMA ArchiveCommitLinked ==
  ASSUME StoreInv, ArchiveCommit
  PROVE  BatchInv'
<1>1. PICK first \in archiveJob, last \in archiveJob :
        /\ \A r \in archiveJob : first.seq =< r.seq /\ r.seq =< last.seq
        /\ first.seq = ArchivedUpTo + 1
        /\ \A r \in auditEntries : r.seq > ArchivedUpTo
        /\ \A r \in auditEntries : r \in archiveJob <=> r.seq =< last.seq
        /\ archiveBatches' =
             Append(archiveBatches, Manifest(archiveJob, first, last))
  BY CommittedBatch
<1>0. PICK L, m : L = Len(archiveBatches) /\ m = Manifest(archiveJob, first, last)
  OBVIOUS
<1>2. /\ ArchivedUpTo \in Nat
      /\ \A e \in AllEntries : e.seq \in Nat \ {0}
      /\ archiveJob \subseteq auditEntries
      /\ auditEntries \subseteq AllEntries /\ ArchivedRows \subseteq AllEntries
  BY ArchivedUpToType DEF StoreInv, TableInv, TypeOK, TableTypes, IsRow, JobInv,
                          AllEntries
<1>3. /\ L \in Nat /\ DOMAIN archiveBatches = 1 .. L
      /\ DOMAIN archiveBatches' = 1 .. L + 1
      /\ \A n \in 1 .. L : archiveBatches'[n] = archiveBatches[n]
      /\ archiveBatches'[L + 1] = m
  <2>1. archiveBatches \in Seq(Manifests \cup {m})
    BY DEF StoreInv, TableInv, TypeOK, TableTypes
  <2>. QED
    BY <1>0, <1>1, <2>1, AppendProperties, LenProperties
<1>4. /\ \A n \in 1 .. L : BatchRows(n)' = BatchRows(n)
      /\ BatchRows(L + 1)' = archiveJob
  <2>. DEFINE new == {[row |-> r, batch_no |-> L + 1] : r \in archiveJob}
  <2>1. archiveEntries' = archiveEntries \cup new
    BY <1>0 DEF ArchiveCommit
  <2>2. \A a \in archiveEntries : a.batch_no \in 1 .. L
    BY <1>0 DEF StoreInv, TypeOK, TableTypes
  <2>3. /\ \A a \in new : a.batch_no = L + 1 /\ a.row \in archiveJob
        /\ \A r \in archiveJob : \E a \in new : a.row = r
    <3>1. \A a \in new : a.batch_no = L + 1 /\ a.row \in archiveJob
      OBVIOUS
    <3>2. \A r \in archiveJob : /\ [row |-> r, batch_no |-> L + 1] \in new
                                /\ [row |-> r, batch_no |-> L + 1].row = r
      OBVIOUS
    <3>. QED
      BY <3>1, <3>2
  <2>. HIDE DEF new
  <2>4. ASSUME NEW n \in 1 .. L PROVE BatchRows(n)' = BatchRows(n)
    <3>1. {x \in archiveEntries' : x.batch_no = n}
            = {x \in archiveEntries : x.batch_no = n}
      BY <1>3, <2>1, <2>3
    <3>. QED
      BY <3>1 DEF BatchRows
  <2>5. BatchRows(L + 1)' = archiveJob
    <3>1. {x \in archiveEntries' : x.batch_no = L + 1} = new
      BY <1>3, <2>1, <2>2, <2>3
    <3>. QED
      BY <2>3, <3>1 DEF BatchRows
  <2>. QED
    BY <2>4, <2>5
<1>5. {r.seq : r \in archiveJob} = first.seq .. last.seq
  <2>1. \A r \in archiveJob : r.seq \in first.seq .. last.seq
    BY <1>1, <1>2
  <2>2. ASSUME NEW n \in first.seq .. last.seq
        PROVE  \E r \in archiveJob : r.seq = n
    <3>1. n \in ArchivedUpTo + 1 .. last.seq
      BY <1>1, <1>2, <2>2
    <3>2. PICK r \in auditEntries : r.seq = n
      BY <1>2, <3>1 DEF StoreInv, TableInv, ActiveInv
    <3>. QED
      BY <1>1, <1>2, <3>1, <3>2
  <2>. QED
    BY <2>1, <2>2
<1>6. Cardinality(archiveJob) = last.seq - first.seq + 1
  <2>1. first.seq \in Nat /\ last.seq \in Nat /\ first.seq =< last.seq + 1
    BY <1>1, <1>2
  <2>2. \A r, s \in archiveJob : r.seq = s.seq => r = s
    BY <1>2 DEF StoreInv, TableInv, ActiveInv
  <2>. QED
    BY <1>5, <2>1, <2>2, SegmentSize
<1>7. IF L = 0
      THEN first.seq = 1 /\ first.prev_hash = ZeroHash
      ELSE /\ first.seq = archiveBatches[L].end_seq + 1
           /\ first.prev_hash = archiveBatches[L].head_hash
  <2>1. IsGenesis(first) \/ \E p \in AllEntries : Follows(first, p)
    BY <1>2 DEF StoreInv, TableInv, LogInv
  <2>2. CASE L = 0
    <3>1. ArchivedUpTo = 0
      BY <1>0, <2>2, EmptySeq DEF ArchivedUpTo, StoreInv, TypeOK, TableTypes
    <3>. QED
      BY <2>1, <2>2, <3>1, <1>1, <1>2 DEF IsGenesis, Follows
  <2>3. CASE L # 0
    <3>1. ArchivedUpTo = archiveBatches[L].end_seq /\ L \in 1 .. L
      BY <1>0, <1>3, <2>3, EmptySeq DEF ArchivedUpTo
    <3>2. archiveBatches[L].end_seq \in Nat \ {0}
      BY <1>3, <3>1 DEF StoreInv, TypeOK, TableTypes, Manifests, IsManifest
    <3>3. PICK p \in ArchivedRows : Follows(first, p)
      BY <1>1, <1>2, <2>1, <3>1, <3>2 DEF IsGenesis, Follows, AllEntries
    <3>4. p.seq = archiveBatches[L].end_seq
      BY <1>1, <1>2, <3>1, <3>3 DEF Follows
    <3>5. PICK q \in BatchRows(L) : q.seq = archiveBatches[L].end_seq
      <4>1. /\ {r.seq : r \in BatchRows(L)} =
                 archiveBatches[L].start_seq .. archiveBatches[L].end_seq
            /\ archiveBatches[L].item_count =
                 archiveBatches[L].end_seq - archiveBatches[L].start_seq + 1
        BY <1>3, <3>1 DEF StoreInv, TableInv, BatchInv, BatchesLinked
      <4>2. IsManifest(archiveBatches[L])
        BY <1>3, <3>1 DEF StoreInv, TypeOK, TableTypes, Manifests
      <4>3. archiveBatches[L].end_seq \in
              archiveBatches[L].start_seq .. archiveBatches[L].end_seq
        BY <4>1, <4>2 DEF IsManifest
      <4>. QED
        BY <4>1, <4>3
    <3>6. q \in ArchivedRows
      BY DEF BatchRows, ArchivedRows
    <3>7. q = p
      BY <3>4, <3>5, <3>6 DEF StoreInv, TableInv, ArchiveInv
    <3>8. q.hash = archiveBatches[L].head_hash
      BY <1>3, <3>1, <3>5 DEF StoreInv, TableInv, BatchInv
    <3>. QED
      BY <1>1, <2>3, <3>1, <3>3, <3>7, <3>8 DEF Follows
  <2>. QED
    BY <2>2, <2>3
<1>8. BatchesLinked'
  <2>. SUFFICES ASSUME NEW n \in 1 .. L + 1
                PROVE  LET b == archiveBatches'[n] IN
                       /\ b.payload = BatchRows(n)'
                       /\ b.item_count = b.end_seq - b.start_seq + 1
                       /\ {r.seq : r \in BatchRows(n)'} = b.start_seq .. b.end_seq
                       /\ IF n = 1
                          THEN b.start_seq = 1 /\ b.prev_hash = ZeroHash
                          ELSE /\ b.start_seq = archiveBatches'[n - 1].end_seq + 1
                               /\ b.prev_hash = archiveBatches'[n - 1].head_hash
    BY <1>3 DEF BatchesLinked
  <2>1. CASE n = L + 1
    <3>1. archiveBatches'[n] = m /\ BatchRows(n)' = archiveJob
      BY <1>3, <1>4, <2>1
    <3>2. n # 1 => archiveBatches'[n - 1] = archiveBatches[L] /\ L # 0
      BY <1>3, <2>1
    <3>3. n = 1 => L = 0
      BY <1>3, <2>1
    <3>. QED
      BY <1>0, <1>5, <1>6, <1>7, <3>1, <3>2, <3>3 DEF Manifest
  <2>2. CASE n \in 1 .. L
    <3>1. archiveBatches'[n] = archiveBatches[n] /\ BatchRows(n)' = BatchRows(n)
      BY <1>3, <1>4, <2>2
    <3>2. n # 1 => archiveBatches'[n - 1] = archiveBatches[n - 1]
      BY <1>3, <2>2
    <3>. QED
      BY <1>3, <2>2, <3>1, <3>2 DEF StoreInv, TableInv, BatchInv, BatchesLinked
  <2>. QED
    BY <1>3, <2>1, <2>2
<1>9. ASSUME NEW n \in 1 .. L + 1, NEW r \in BatchRows(n)',
             r.seq = archiveBatches'[n].end_seq
      PROVE  r.hash = archiveBatches'[n].head_hash
  <2>1. CASE n = L + 1
    <3>1. r \in archiveJob /\ r.seq = last.seq
      BY <1>0, <1>3, <1>4, <1>9, <2>1 DEF Manifest
    <3>2. r = last
      BY <1>2, <3>1 DEF StoreInv, TableInv, ActiveInv
    <3>. QED
      BY <1>0, <1>3, <2>1, <3>2 DEF Manifest
  <2>2. CASE n \in 1 .. L
    BY <1>3, <1>4, <1>9, <2>2 DEF StoreInv, TableInv, BatchInv
  <2>. QED
    BY <1>3, <2>1, <2>2
<1>. QED
  BY <1>3, <1>8, <1>9 DEF BatchInv

\* Archive: the batch leaves audit_entries and joins archive_entries whole.
LEMMA ArchiveCommitStep ==
  ASSUME StoreInv, ArchiveCommit
  PROVE  StoreInv'
<1>1. PICK first \in archiveJob, last \in archiveJob :
        /\ \A r \in archiveJob : first.seq =< r.seq /\ r.seq =< last.seq
        /\ first.seq = ArchivedUpTo + 1
        /\ \A r \in auditEntries : r.seq > ArchivedUpTo
        /\ \A r \in auditEntries : r \in archiveJob <=> r.seq =< last.seq
        /\ auditEntries' = auditEntries \ archiveJob
        /\ ArchivedRows' = ArchivedRows \cup archiveJob
        /\ ArchivedUpTo' = last.seq
        /\ AllEntries' = AllEntries
  BY CommittedBatch
<1>2. /\ ArchivedUpTo \in Nat
      /\ \A e \in AllEntries : e.seq \in Nat \ {0}
      /\ archiveJob \subseteq auditEntries
      /\ auditEntries \subseteq AllEntries /\ ArchivedRows \subseteq AllEntries
  BY ArchivedUpToType DEF StoreInv, TableInv, TypeOK, TableTypes, IsRow,
                          JobInv, AllEntries
<1>3. ActiveInv'
  <2>1. IsFiniteSet(auditEntries')
    BY <1>1, FS_Subset DEF StoreInv, TableInv, ActiveInv
  <2>2. \A r, s \in auditEntries' : r.seq = s.seq => r = s
    BY <1>1 DEF StoreInv, TableInv, ActiveInv
  <2>3. ASSUME NEW e \in auditEntries', NEW n \in last.seq + 1 .. e.seq
        PROVE  \E r \in auditEntries' : r.seq = n
    <3>1. n \in ArchivedUpTo + 1 .. e.seq /\ ~(n =< last.seq)
      BY <1>1, <1>2
    <3>2. PICK r \in auditEntries : r.seq = n
      BY <3>1, <1>1 DEF StoreInv, TableInv, ActiveInv
    <3>. QED
      BY <3>1, <3>2, <1>1
  <2>4. \E h \in auditEntries' : IsHead(h)' /\ h.seq > last.seq
    <3>1. PICK h \in auditEntries : IsHead(h)
      BY <1>1, <1>2 DEF StoreInv, TableInv, ActiveInv
    <3>2. h \in auditEntries' /\ h.seq > last.seq
      BY <3>1, <1>1, <1>2 DEF StoreInv, TableInv, JobInv
    <3>. QED
      BY <3>1, <3>2, <1>1 DEF IsHead
  <2>. QED
    BY <1>1, <2>1, <2>2, <2>3, <2>4 DEF ActiveInv
<1>4. ArchiveInv'
  <2>1. \A r \in ArchivedRows' : r.seq =< last.seq
    BY <1>1, <1>2 DEF StoreInv, TableInv, ArchiveInv
  <2>2. ASSUME NEW n \in 1 .. last.seq
        PROVE  \E r \in ArchivedRows' : r.seq = n
    <3>1. CASE n =< ArchivedUpTo
      BY <3>1, <1>1, <1>2 DEF StoreInv, TableInv, ArchiveInv
    <3>2. CASE n > ArchivedUpTo
      <4>1. n \in ArchivedUpTo + 1 .. last.seq
        BY <3>2, <1>2
      <4>2. PICK r \in auditEntries : r.seq = n
        BY <4>1, <1>2 DEF StoreInv, TableInv, ActiveInv
      <4>. QED
        BY <4>1, <4>2, <1>1
    <3>. QED
      BY <3>1, <3>2, <1>2
  <2>3. \A r, s \in ArchivedRows' : r.seq = s.seq => r = s
    BY <1>1, <1>2 DEF StoreInv, TableInv, ArchiveInv, ActiveInv
  <2>4. ASSUME NEW e \in ArchivedRows'
        PROVE  IsGenesis(e) \/ \E p \in ArchivedRows' : Follows(e, p)
    <3>1. CASE e \in ArchivedRows
      BY <3>1, <1>1 DEF StoreInv, TableInv, ArchiveInv
    <3>2. CASE e \in archiveJob /\ ~IsGenesis(e)
      <4>1. PICK p \in AllEntries : Follows(e, p)
        BY <3>2, <1>2 DEF StoreInv, TableInv, LogInv
      <4>2. CASE p \in auditEntries
        <5>1. p.seq =< last.seq
          BY <3>2, <4>1, <1>1, <1>2 DEF Follows
        <5>. QED
          BY <4>1, <4>2, <5>1, <1>1
      <4>. QED
        BY <4>1, <4>2, <1>1 DEF AllEntries
    <3>. QED
      BY <3>1, <3>2, <1>1
  <2>5. \A x, y \in archiveEntries' : x.row = y.row => x = y
    <3>1. PICK k : k = Len(archiveBatches) + 1
      OBVIOUS
    <3>2. archiveEntries' = archiveEntries \cup
                              {[row |-> r, batch_no |-> k] : r \in archiveJob}
      BY <3>1 DEF ArchiveCommit
    <3>3. \A x \in archiveEntries : x.row \in ArchivedRows
      BY DEF ArchivedRows
    <3>4. \A r \in archiveJob : r \notin ArchivedRows
      BY <1>2 DEF StoreInv, TableInv, LogInv, IdUnique
    <3>. QED
      BY <3>2, <3>3, <3>4 DEF StoreInv, TableInv, ArchiveInv
  <2>. QED
    BY <1>1, <2>1, <2>2, <2>3, <2>4, <2>5 DEF ArchiveInv
<1>5. LogInv'
  <2>1. auditEntries' \cap ArchivedRows' = {}
    BY <1>1 DEF StoreInv, TableInv, LogInv, IdUnique
  <2>. QED
    BY <1>1, <2>1 DEF StoreInv, TableInv, LogInv, IdUnique, ArchiveCommit
<1>6. ClientInv'
  BY <1>1 DEF StoreInv, TableInv, ClientInv, ArchiveCommit
<1>7. JobInv'
  BY DEF JobInv, ArchiveCommit
<1>. QED
  BY <1>3, <1>4, <1>5, <1>6, <1>7, ArchiveCommitTyped, ArchiveCommitLinked
  DEF StoreInv, TableInv, TableParts, TypeOK

LEMMA NextInv == StoreInv /\ [Next]_vars => StoreInv'
<1>. SUFFICES ASSUME StoreInv, [Next]_vars PROVE StoreInv'
  OBVIOUS
<1>1. CASE Start
  BY <1>1, StartStep
<1>2. CASE Crash \/ ArchiveAbort \/ \E c \in Clients : AppendFail(c) \/ LoseReply(c)
  BY <1>2, QuietStep
<1>3. CASE \E c \in Clients, b \in Bodies : BuildEntry(c, b)
  BY <1>3, BuildEntryStep
<1>4. CASE \E c \in Clients : AppendCommit(c)
  BY <1>4, AppendCommitStep
<1>5. CASE \E c \in Clients : Reply(c)
  BY <1>5, ReplyStep
<1>6. CASE \E n \in 0 .. Surplus : ArchiveSelect(n)
  BY <1>6, ArchiveSelectStep
<1>7. CASE ArchiveCommit
  BY <1>7, ArchiveCommitStep
<1>8. CASE UNCHANGED vars
  <2>1. UNCHANGED << tables, up, pc, pending, replied, archiveJob >>
    BY <1>8 DEF vars, tables
  <2>2. TableParts' /\ AllEntries' = AllEntries
    BY <2>1, TablesUnchanged
  <2>3. TypeOK' /\ ClientInv' /\ JobInv'
    BY <2>1, <2>2 DEF StoreInv, TypeOK, TableTypes, ClientInv, JobInv, tables,
                      IsRow, IsManifest, Manifests, IsHead
  <2>. QED
    BY <2>2, <2>3 DEF StoreInv, TableInv, TableParts, TypeOK
<1>. QED
  BY <1>1, <1>2, <1>3, <1>4, <1>5, <1>6, <1>7, <1>8 DEF Next, Client, Archiver

LEMMA StoreInvariance == Spec => []StoreInv
BY InitInv, NextInv, PTL DEF Spec

\* No step takes a row out of the log, and a row that joins it has an id that
\* no row has had before.
LEMMA RowsStay ==
  ASSUME StoreInv, [Next]_vars
  PROVE  /\ AllEntries \subseteq AllEntries'
         /\ \A e \in AllEntries' : e \in AllEntries \/ e.id > lastId
         /\ lastId =< lastId'
<1>0. lastId \in Nat
  BY DEF StoreInv, TypeOK, TableTypes
<1>1. CASE Start /\ auditEntries = {}
  <2>1. AllEntries = {}
    BY <1>1 DEF StoreInv, TableInv, ActiveInv, AllEntries, ArchivedRows
  <2>2. AllEntries' = {GenesisRow} /\ lastId' = lastId + 1
    BY <1>1, <2>1 DEF Start, AllEntries, ArchivedRows
  <2>3. GenesisRow.id = lastId + 1
    BY DEF GenesisRow, NewEntry
  <2>. QED
    BY <1>0, <2>1, <2>2, <2>3
<1>2. ASSUME NEW c \in Clients, AppendCommit(c)
      PROVE  /\ AllEntries \subseteq AllEntries'
             /\ \A e \in AllEntries' : e \in AllEntries \/ e.id > lastId
             /\ lastId =< lastId'
  <2>1. PICK p \in AllEntries, b \in Bodies :
          pending[c] = NewEntry(p.seq + 1, p.hash, b)
    BY <1>2 DEF StoreInv, ClientInv, AppendCommit
  <2>2. PICK row : row = [pending[c] EXCEPT !.id = lastId + 1]
    OBVIOUS
  <2>3. AllEntries' = AllEntries \cup {row} /\ lastId' = lastId + 1
    BY <1>2, <2>2 DEF AppendCommit, AllEntries, ArchivedRows
  <2>4. row.id = lastId + 1
    BY <2>1, <2>2 DEF NewEntry
  <2>. QED
    BY <1>0, <2>3, <2>4
<1>3. CASE ArchiveCommit
  <2>1. AllEntries' = AllEntries
    BY <1>3, CommittedBatch
  <2>. QED
    BY <1>0, <1>3, <2>1 DEF ArchiveCommit
<1>4. CASE \/ Start /\ auditEntries # {}
           \/ Crash \/ ArchiveAbort \/ \E n \in 0 .. Surplus : ArchiveSelect(n)
           \/ \E c \in Clients : \/ \E b \in Bodies : BuildEntry(c, b)
                                 \/ AppendFail(c) \/ Reply(c) \/ LoseReply(c)
           \/ UNCHANGED vars
  BY <1>0, <1>4 DEF Start, Crash, ArchiveSelect, ArchiveAbort, BuildEntry,
                    AppendFail, Reply, LoseReply, vars, tables, AllEntries,
                    ArchivedRows
<1>. QED
  BY <1>1, <1>2, <1>3, <1>4 DEF Next, Client, Archiver

\* What a client is told is stored when it is told, and stays.
LEMMA RepliesStored ==
  ASSUME IInv, [Next]_vars
  PROVE  (replied \subseteq AllEntries)'
<1>1. AllEntries \subseteq AllEntries'
  BY RowsStay DEF IInv
<1>2. CASE \E c \in Clients : Reply(c)
  <2>1. PICK c \in Clients : Reply(c)
    BY <1>2
  <2>2. pending[c] \in AllEntries /\ replied' = replied \cup {pending[c]}
    BY <2>1 DEF Reply, IInv, StoreInv, ClientInv
  <2>. QED
    BY <1>1, <2>2 DEF IInv
<1>3. CASE UNCHANGED replied
  BY <1>1, <1>3 DEF IInv
<1>4. UNCHANGED replied \/ \E c \in Clients : Reply(c)
  BY DEF Next, Client, Archiver, Start, Crash, BuildEntry, AppendCommit,
         AppendFail, LoseReply, ArchiveSelect, ArchiveCommit, ArchiveAbort, vars
<1>. QED
  BY <1>2, <1>3, <1>4

\* The invariant the model checker looks at holds for every instance.
THEOREM Invariance == Spec => []IInv
<1>1. Init => IInv
  BY InitInv DEF Init, IInv
<1>2. IInv /\ [Next]_vars => IInv'
  BY NextInv, RepliesStored DEF IInv
<1>. QED
  BY <1>1, <1>2, PTL DEF Spec

-----------------------------------------------------------------------------
(* The theorems                                                            *)

\* Every row any table ever holds is sealed by its own hash and well typed.
THEOREM TypeCorrect == Spec => []TypeOK
<1>1. StoreInv => TypeOK
  BY DEF StoreInv, TableInv
<1>. QED
  BY <1>1, StoreInvariance, PTL

\* An append that fails, races or is interrupted leaves no hole behind.
LEMMA NoHole ==
  ASSUME TableInv
  PROVE  NoGap
<1>. SUFFICES ASSUME NEW e \in AllEntries, NEW n \in 1 .. e.seq
              PROVE  \E r \in AllEntries : r.seq = n
  BY DEF NoGap
<1>1. ArchivedUpTo \in Nat /\ e.seq \in Nat
  BY ArchivedUpToType DEF TableInv, TableTypes, IsRow
<1>2. CASE n =< ArchivedUpTo
  <2>1. n \in 1 .. ArchivedUpTo
    BY <1>1, <1>2
  <2>. QED
    BY <2>1 DEF TableInv, ArchiveInv, AllEntries
<1>3. CASE n > ArchivedUpTo
  <2>1. n \in ArchivedUpTo + 1 .. e.seq
    BY <1>1, <1>3
  <2>2. e \in auditEntries
    BY <1>1, <1>3 DEF TableInv, ArchiveInv, AllEntries
  <2>. QED
    BY <2>1, <2>2 DEF TableInv, ActiveInv, AllEntries
<1>. QED
  BY <1>1, <1>2, <1>3

\* Every position up to that of any stored row is taken, at any time.
THEOREM NoGapCorrect == Spec => []NoGap
<1>1. StoreInv => NoGap
  BY NoHole DEF StoreInv
<1>. QED
  BY <1>1, StoreInvariance, PTL

\* The archive is always one intact chain, even when the log has forked.
THEOREM ArchiveCorrect == Spec => []ArchiveIsChain
<1>1. StoreInv => ArchiveIsChain
  BY DEF StoreInv, TableInv, TypeOK, TableTypes, ArchiveInv, ArchiveIsChain,
         IsChain, IsRow, AllEntries
<1>. QED
  BY <1>1, StoreInvariance, PTL

\* Every manifest describes its rows exactly and is linked to the batch
\* before it, also when appends forked the log around it.
THEOREM BatchesCorrect == Spec => []BatchesLinked
<1>1. StoreInv => BatchesLinked
  BY DEF StoreInv, TableInv, BatchInv
<1>. QED
  BY <1>1, StoreInvariance, PTL

\* Ids stay unique across the two tables, through archiving and restarts.
THEOREM IdsCorrect == Spec => []IdUnique
<1>1. StoreInv => IdUnique
  BY DEF StoreInv, TableInv, LogInv
<1>. QED
  BY <1>1, StoreInvariance, PTL

\* The head row is never archived, deleted or replaced by an older one.
THEOREM HeadCorrect == Spec => HeadStays
<1>1. StoreInv /\ [Next]_vars
        => [\A h \in auditEntries : IsHead(h) => h \in auditEntries']_vars
  <2>. SUFFICES ASSUME StoreInv, Next, NEW h \in auditEntries, IsHead(h)
                PROVE  h \in auditEntries'
    OBVIOUS
  <2>1. CASE ArchiveCommit
    <3>1. auditEntries' = auditEntries \ archiveJob
      BY <2>1, CommittedBatch
    <3>. QED
      BY <3>1 DEF StoreInv, TableInv, JobInv
  <2>2. CASE ~ArchiveCommit
    BY <2>2 DEF Next, Client, Archiver, Start, Crash, BuildEntry, AppendCommit,
                AppendFail, Reply, LoseReply, ArchiveSelect, ArchiveAbort,
                tables
  <2>. QED
    BY <2>1, <2>2
<1>. QED
  BY <1>1, StoreInvariance, PTL DEF Spec, HeadStays

\* No batch is archived once two rows share a position.
THEOREM FrozenCorrect == Spec => ForkFreezesArchive
<1>1. StoreInv /\ [Next]_vars
        => [Forked => UNCHANGED << archiveEntries, archiveBatches >>]_vars
  <2>. SUFFICES ASSUME StoreInv, Next, Forked
                PROVE  UNCHANGED << archiveEntries, archiveBatches >>
    OBVIOUS
  <2>1. CASE ArchiveCommit
    <3>1. /\ \A r \in auditEntries : r.seq > ArchivedUpTo
          /\ ArchivedUpTo \in Nat
          /\ \A r \in AllEntries : r.seq \in Nat
      BY <2>1, CommittedBatch, ArchivedUpToType
      DEF StoreInv, TableInv, TypeOK, TableTypes, IsRow
    <3>2. SeqUnique
      BY <3>1 DEF SeqUnique, AllEntries, StoreInv, TableInv, ActiveInv,
                  ArchiveInv
    <3>. QED
      BY <3>2 DEF Forked
  <2>2. CASE ~ArchiveCommit
    BY <2>2 DEF Next, Client, Archiver, Start, Crash, BuildEntry, AppendCommit,
                AppendFail, Reply, LoseReply, ArchiveSelect, ArchiveAbort,
                tables
  <2>. QED
    BY <2>1, <2>2
<1>. QED
  BY <1>1, StoreInvariance, PTL DEF Spec, ForkFreezesArchive

\* Only an append whose position has been archived in the meantime forks the
\* log; no start, no batch and no other late append does.
THEOREM ForkCorrect == Spec => ForkNeedsLateAppend
<1>1. StoreInv /\ [Next]_vars
        => [~Forked /\ Forked' =>
              \E c \in Clients : /\ pc[c] = "built" /\ pc'[c] = "stored"
                                 /\ \E r \in ArchivedRows :
                                      r.seq = pending[c].seq]_vars
  <2>. SUFFICES ASSUME StoreInv, Next, SeqUnique, ~SeqUnique'
                PROVE  \E c \in Clients : /\ pc[c] = "built" /\ pc'[c] = "stored"
                                          /\ \E r \in ArchivedRows :
                                               r.seq = pending[c].seq
    BY DEF Forked
  <2>0. AllEntries' # AllEntries
    BY DEF SeqUnique
  <2>1. CASE ArchiveCommit
    BY <2>0, <2>1, CommittedBatch
  <2>2. CASE Start
    <3>1. CASE auditEntries = {}
      <4>1. AllEntries' = {GenesisRow}
        BY <2>2, <3>1 DEF Start, StoreInv, TableInv, ActiveInv, AllEntries,
                          ArchivedRows
      <4>. QED
        BY <4>1 DEF SeqUnique
    <3>2. CASE auditEntries # {}
      BY <2>0, <2>2, <3>2 DEF Start, AllEntries, ArchivedRows
    <3>. QED
      BY <3>1, <3>2
  <2>3. ASSUME NEW c \in Clients, AppendCommit(c)
        PROVE  /\ pc[c] = "built" /\ pc'[c] = "stored"
               /\ \E r \in ArchivedRows : r.seq = pending[c].seq
    <3>1. pc[c] = "built" /\ pc'[c] = "stored"
      BY <2>3 DEF AppendCommit, StoreInv, TableInv, TypeOK, TableTypes
    <3>2. PICK p \in AllEntries, b \in Bodies :
            pending[c] = NewEntry(p.seq + 1, p.hash, b)
      BY <3>1 DEF StoreInv, TableInv, ClientInv
    <3>3. PICK row : row = [pending[c] EXCEPT !.id = lastId + 1]
      OBVIOUS
    <3>4. AllEntries' = AllEntries \cup {row}
      BY <2>3, <3>3 DEF AppendCommit, AllEntries, ArchivedRows
    <3>5. row.seq = pending[c].seq
      BY <3>2, <3>3 DEF NewEntry
    <3>6. \E r \in AllEntries : r.seq = row.seq
      BY <3>4 DEF SeqUnique
    <3>. QED
      BY <2>3, <3>1, <3>5, <3>6 DEF AppendCommit, SeqTaken, AllEntries
  <2>4. CASE \/ Crash \/ (\E n \in 0 .. Surplus : ArchiveSelect(n)) \/ ArchiveAbort
             \/ \E c \in Clients : \/ \E b \in Bodies : BuildEntry(c, b)
                                   \/ AppendFail(c) \/ Reply(c) \/ LoseReply(c)
    BY <2>0, <2>4 DEF Crash, ArchiveSelect, ArchiveAbort, BuildEntry,
                      AppendFail, Reply, LoseReply, tables, AllEntries,
                      ArchivedRows
  <2>. QED
    BY <2>1, <2>2, <2>3, <2>4 DEF Next, Client, Archiver
<1>. QED
  BY <1>1, StoreInvariance, PTL DEF Spec, ForkNeedsLateAppend

-----------------------------------------------------------------------------
(* AuditStore implements Ledger                                            *)

\* Every step extends the ledger by one linked entry, acknowledges one that
\* is in it, or changes neither.
LEMMA LedgerStep ==
  StoreInv /\ [Next]_vars => [AsLedger!LNext]_(AsLedger!lvars)
<1>. SUFFICES ASSUME StoreInv, [Next]_vars
              PROVE  AsLedger!LNext \/ UNCHANGED << AllEntries, replied >>
  BY DEF AsLedger!lvars
<1>1. CASE Start /\ auditEntries = {}
  <2>1. AllEntries = {} /\ AllEntries' = {GenesisRow} /\ replied' = replied
    BY <1>1 DEF Start, StoreInv, TableInv, ActiveInv, AllEntries, ArchivedRows
  <2>2. IsRow(GenesisRow) /\ IsGenesis(GenesisRow)
    BY GenesisIsRow DEF StoreInv, TableInv, TypeOK, TableTypes
  <2>3. AsLedger!MayFollow(GenesisRow, AllEntries)
    BY <2>1, <2>2 DEF AsLedger!MayFollow, AsLedger!HashOK, AsLedger!IsGenesis,
                      AsLedger!HashEntry, AsLedger!ZeroHash, IsRow, HashOK,
                      IsGenesis, HashEntry, ZeroHash
  <2>. QED
    BY <2>1, <2>3 DEF AsLedger!LNext, AsLedger!Extend
<1>2. ASSUME NEW c \in Clients, AppendCommit(c)
      PROVE  AsLedger!LNext
  <2>1. PICK p \in AllEntries, b \in Bodies :
          pending[c] = NewEntry(p.seq + 1, p.hash, b)
    BY <1>2 DEF StoreInv, TableInv, ClientInv, AppendCommit
  <2>2. PICK row : row = [pending[c] EXCEPT !.id = lastId + 1]
    OBVIOUS
  <2>3. AllEntries' = AllEntries \cup {row} /\ replied' = replied
    BY <1>2, <2>2 DEF AppendCommit, AllEntries, ArchivedRows
  <2>4. lastId \in Nat /\ IsRow(p) /\ \A e \in AllEntries : e.id \in Nat
    BY DEF StoreInv, TableInv, TypeOK, TableTypes, IsRow
  <2>5. /\ IsRow(row) /\ row.id = lastId + 1
        /\ Follows(row, p)
    BY <2>1, <2>2, <2>4, NewRowIsRow DEF NewEntry, Follows
  <2>6. \A r \in AllEntries : r.id # row.id
    BY <2>4, <2>5 DEF StoreInv, TableInv, LogInv
  <2>7. AsLedger!MayFollow(row, AllEntries)
    BY <2>5, <2>6 DEF AsLedger!MayFollow, AsLedger!HashOK, AsLedger!Follows,
                      AsLedger!HashEntry, IsRow, HashOK, Follows, HashEntry
  <2>. QED
    BY <2>3, <2>6, <2>7 DEF AsLedger!LNext, AsLedger!Extend
<1>3. ASSUME NEW c \in Clients, Reply(c)
      PROVE  AsLedger!LNext
  BY <1>3 DEF Reply, tables, AllEntries, ArchivedRows, StoreInv, TableInv,
              ClientInv, AsLedger!LNext, AsLedger!Acknowledge
<1>4. CASE ArchiveCommit
  <2>1. AllEntries' = AllEntries
    BY <1>4, CommittedBatch
  <2>. QED
    BY <1>4, <2>1 DEF ArchiveCommit
<1>5. CASE \/ Start /\ auditEntries # {}
           \/ Crash \/ (\E n \in 0 .. Surplus : ArchiveSelect(n)) \/ ArchiveAbort
           \/ \E c \in Clients : \/ \E b \in Bodies : BuildEntry(c, b)
                                 \/ AppendFail(c)
                                 \/ LoseReply(c)
           \/ UNCHANGED vars
  BY <1>5 DEF Start, Crash, ArchiveSelect, ArchiveAbort, BuildEntry,
              AppendFail, LoseReply, vars, tables, AllEntries, ArchivedRows
<1>. QED
  BY <1>1, <1>2, <1>3, <1>4, <1>5 DEF Next, Client, Archiver

\* Appends, batches, crashes and restarts implement the append-only ledger:
\* no row and no acknowledged entry is ever lost, altered or unlinked.
THEOREM LedgerCorrect == Spec => ImplementsLedger
<1>1. Init => AsLedger!LInit
  BY DEF Init, AsLedger!LInit, AllEntries, ArchivedRows
<1>. QED
  BY <1>1, LedgerStep, StoreInvariance, PTL DEF Spec, ImplementsLedger,
                                           AsLedger!LSpec

-----------------------------------------------------------------------------
(* With a single writer the log does not fork                              *)

\* No active row has an archived position, and an entry that is on its way
\* to the table still follows the head.
WriterInv ==
  /\ \A r \in auditEntries : r.seq > ArchivedUpTo
  /\ \A c \in Clients : pc[c] = "built" =>
       \E h \in auditEntries : IsHead(h) /\ pending[c].seq = h.seq + 1

LEMMA WriterStep ==
  ASSUME \A c, d \in Clients : c = d,
         StoreInv, WriterInv, [Next]_vars
  PROVE  WriterInv'
<1>0. ArchivedUpTo \in Nat /\ \A e \in AllEntries : e.seq \in Nat
  BY ArchivedUpToType DEF StoreInv, TableInv, TypeOK, TableTypes, IsRow
<1>1. CASE Start /\ auditEntries = {}
  <2>1. archiveBatches = << >> /\ \A c \in Clients : pc[c] # "built"
    BY <1>1 DEF StoreInv, TableInv, ActiveInv, WriterInv
  <2>2. auditEntries' = {GenesisRow} /\ pc' = pc /\ archiveBatches' = archiveBatches
    BY <1>1 DEF Start
  <2>3. GenesisRow.seq = 1
    BY DEF GenesisRow, NewEntry
  <2>. QED
    BY <2>1, <2>2, <2>3 DEF WriterInv, ArchivedUpTo
<1>2. ASSUME NEW c \in Clients, NEW b \in Bodies, BuildEntry(c, b)
      PROVE  WriterInv'
  <2>1. PICK h \in auditEntries :
          /\ IsHead(h)
          /\ pending' = [pending EXCEPT ![c] = NewEntry(h.seq + 1, h.hash, b)]
    BY <1>2 DEF BuildEntry
  <2>2. pending'[c].seq = h.seq + 1
    BY <2>1 DEF StoreInv, TableInv, TypeOK, TableTypes, NewEntry
  <2>3. UNCHANGED << auditEntries, archiveBatches >>
    BY <1>2 DEF BuildEntry, tables
  <2>. QED
    BY <2>1, <2>2, <2>3 DEF WriterInv, IsHead, ArchivedUpTo
<1>3. ASSUME NEW c \in Clients, AppendCommit(c)
      PROVE  WriterInv'
  <2>1. PICK h \in auditEntries : IsHead(h) /\ pending[c].seq = h.seq + 1
    BY <1>3 DEF WriterInv, AppendCommit
  <2>2. PICK p \in AllEntries, b \in Bodies :
          pending[c] = NewEntry(p.seq + 1, p.hash, b)
    BY <1>3 DEF StoreInv, TableInv, ClientInv, AppendCommit
  <2>3. PICK row : row = [pending[c] EXCEPT !.id = lastId + 1]
    OBVIOUS
  <2>4. row.seq = h.seq + 1 /\ h.seq > ArchivedUpTo /\ h.seq \in Nat
    BY <1>0, <2>1, <2>2, <2>3 DEF NewEntry, WriterInv, AllEntries
  <2>5. /\ auditEntries' = auditEntries \cup {row}
        /\ ArchivedUpTo' = ArchivedUpTo
        /\ pc'[c] = "stored"
    BY <1>3, <2>3 DEF AppendCommit, ArchivedUpTo, StoreInv, TableInv, TypeOK,
                      TableTypes
  <2>. QED
    BY <1>0, <2>4, <2>5 DEF WriterInv
<1>4. CASE ArchiveCommit
  <2>1. PICK last \in archiveJob :
          /\ \A r \in auditEntries : r \in archiveJob <=> r.seq =< last.seq
          /\ auditEntries' = auditEntries \ archiveJob
          /\ ArchivedUpTo' = last.seq
    BY <1>4, CommittedBatch
  <2>2. \A r \in auditEntries' : r.seq > last.seq
    BY <1>0, <2>1 DEF AllEntries, StoreInv, TableInv, JobInv
  <2>3. \A h \in auditEntries : IsHead(h) => h \in auditEntries' /\ IsHead(h)'
    BY <2>1 DEF StoreInv, TableInv, JobInv, IsHead
  <2>4. UNCHANGED << pc, pending >>
    BY <1>4 DEF ArchiveCommit
  <2>. QED
    BY <2>1, <2>2, <2>3, <2>4 DEF WriterInv
<1>5. CASE \/ Start /\ auditEntries # {}
           \/ Crash \/ (\E n \in 0 .. Surplus : ArchiveSelect(n)) \/ ArchiveAbort
           \/ \E c \in Clients : AppendFail(c) \/ LoseReply(c) \/ Reply(c)
           \/ UNCHANGED vars
  <2>1. /\ UNCHANGED << auditEntries, archiveBatches >>
        /\ \A c \in Clients : pc'[c] = "built" => /\ pc[c] = "built"
                                                  /\ pending'[c] = pending[c]
    BY <1>5 DEF Start, Crash, ArchiveSelect, ArchiveAbort, AppendFail,
                LoseReply, Reply, vars, tables, StoreInv, TableInv, TypeOK,
                TableTypes
  <2>. QED
    BY <2>1 DEF WriterInv, IsHead, ArchivedUpTo
<1>. QED
  BY <1>1, <1>2, <1>3, <1>4, <1>5 DEF Next, Client, Archiver

\* With one handler at a time, crashes and batches included, positions are
\* unique in the whole log: what breaks SeqUnique is only that Append reads
\* the head before it takes writeMu.
THEOREM SingleWriterUnique ==
  ASSUME \A c, d \in Clients : c = d
  PROVE  Spec => []SeqUnique
<1>1. Init => WriterInv
  BY DEF Init, WriterInv
<1>2. StoreInv /\ WriterInv /\ [Next]_vars => WriterInv'
  BY WriterStep
<1>3. StoreInv /\ WriterInv => SeqUnique
  <2>. SUFFICES ASSUME StoreInv, WriterInv PROVE SeqUnique
    OBVIOUS
  <2>1. ArchivedUpTo \in Nat /\ \A e \in AllEntries : e.seq \in Nat
    BY ArchivedUpToType DEF StoreInv, TableInv, TypeOK, TableTypes, IsRow
  <2>. QED
    BY <2>1 DEF SeqUnique, WriterInv, StoreInv, TableInv, ActiveInv,
                ArchiveInv, AllEntries
<1>. QED
  BY <1>1, <1>2, <1>3, StoreInvariance, PTL DEF Spec

-----------------------------------------------------------------------------
(* What the queries return                                                 *)

\* The log is finite: the archive has one row per position.
LEMMA LogFinite ==
  ASSUME TableInv
  PROVE  IsFiniteSet(AllEntries)
<1>. DEFINE f == [r \in ArchivedRows |-> r.seq]
<1>1. ArchivedUpTo \in Nat /\ \A r \in ArchivedRows : r.seq \in Nat \ {0}
  BY ArchivedUpToType DEF TableInv, TableTypes, IsRow, AllEntries
<1>2. f \in [ArchivedRows -> 1 .. ArchivedUpTo]
  BY <1>1 DEF TableInv, ArchiveInv
<1>3. \A r, s \in ArchivedRows : f[r] = f[s] => r = s
  BY DEF TableInv, ArchiveInv
<1>4. f \in Injection(ArchivedRows, 1 .. ArchivedUpTo)
  BY <1>2, <1>3, Fun_IsInj
<1>5. IsFiniteSet(1 .. ArchivedUpTo)
  BY <1>1, FS_Interval
<1>6. IsFiniteSet(ArchivedRows)
  BY <1>4, <1>5, FS_Injection
<1>. QED
  BY <1>6, FS_Union DEF AllEntries, TableInv, ActiveInv

\* No two rows share an id: in whichever order SQLite lists two rows at one
\* position, ORDER BY seq is a total order of the rows.
LEMMA OrderTotal ==
  ASSUME TableInv, NEW oldFirst \in BOOLEAN
  PROVE  \A r, s, t \in AllEntries :
           /\ ~ComesBefore(r, r, oldFirst)
           /\ r # s => \/ ComesBefore(r, s, oldFirst)
                       \/ ComesBefore(s, r, oldFirst)
           /\ ComesBefore(r, s, oldFirst) /\ ComesBefore(s, t, oldFirst)
                => ComesBefore(r, t, oldFirst)
<1>. SUFFICES ASSUME NEW r \in AllEntries, NEW s \in AllEntries,
                     NEW t \in AllEntries
              PROVE  /\ ~ComesBefore(r, r, oldFirst)
                     /\ r # s => \/ ComesBefore(r, s, oldFirst)
                                 \/ ComesBefore(s, r, oldFirst)
                     /\ /\ ComesBefore(r, s, oldFirst)
                        /\ ComesBefore(s, t, oldFirst)
                        => ComesBefore(r, t, oldFirst)
  OBVIOUS
<1>1. r.seq \in Nat /\ s.seq \in Nat /\ t.seq \in Nat
  BY DEF TableInv, TableTypes, IsRow
<1>2. /\ r.id \in Nat /\ s.id \in Nat /\ t.id \in Nat
      /\ r # s => r.id # s.id
  BY DEF TableInv, TableTypes, IsRow, LogInv, IdUnique
<1>3. ~ComesBefore(r, r, oldFirst)
  BY <1>1, <1>2 DEF ComesBefore
<1>4. r # s => \/ ComesBefore(r, s, oldFirst)
               \/ ComesBefore(s, r, oldFirst)
  BY <1>1, <1>2 DEF ComesBefore
<1>5. /\ ComesBefore(r, s, oldFirst)
      /\ ComesBefore(s, t, oldFirst)
      => ComesBefore(r, t, oldFirst)
  BY <1>1, <1>2 DEF ComesBefore
<1>. QED
  BY <1>3, <1>4, <1>5

\* So any rows of the log have ranks 0, 1, 2, ... in that order.
LEMMA RanksExact ==
  ASSUME TableInv, NEW S \in SUBSET AllEntries, NEW oldFirst \in BOOLEAN
  PROVE  /\ Cardinality(S) \in Nat
         /\ \A r \in S :
              Rank(r, S, oldFirst) \in 0 .. Cardinality(S) - 1
         /\ \A r, s \in S :
              ComesBefore(r, s, oldFirst)
                <=> Rank(r, S, oldFirst) < Rank(s, S, oldFirst)
         /\ \A i \in 1 .. Cardinality(S) :
              \E r \in S : Rank(r, S, oldFirst) = i - 1
<1>. DEFINE preds(r) == {s \in S : ComesBefore(s, r, oldFirst)}
            f == [r \in S |-> Rank(r, S, oldFirst)]
<1>0. PICK N : N = Cardinality(S)
  OBVIOUS
<1>1. IsFiniteSet(S) /\ N \in Nat
  BY <1>0, LogFinite, FS_Subset, FS_CardinalityType
<1>2. \A r \in S :
        /\ preds(r) \in SUBSET S
        /\ IsFiniteSet(preds(r))
        /\ Rank(r, S, oldFirst) = Cardinality(preds(r))
        /\ Rank(r, S, oldFirst) \in Nat
  BY <1>1, FS_Subset, FS_CardinalityType DEF Rank
<1>3. ASSUME NEW r \in S
      PROVE  Rank(r, S, oldFirst) \in 0 .. N - 1
  <2>1. preds(r) # S
    BY OrderTotal
  <2>2. Cardinality(preds(r)) =< N /\ Cardinality(preds(r)) # N
    BY <1>0, <1>1, <1>2, <2>1, FS_Subset
  <2>. QED
    BY <1>1, <1>2, <2>2
<1>4. ASSUME NEW r \in S, NEW s \in S,
             ComesBefore(r, s, oldFirst)
      PROVE  Rank(r, S, oldFirst) < Rank(s, S, oldFirst)
  <2>1. preds(r) \in SUBSET preds(s)
    BY <1>4, OrderTotal
  <2>2. r \in preds(s) /\ r \notin preds(r)
    BY <1>4, OrderTotal
  <2>3. /\ Cardinality(preds(r)) =< Cardinality(preds(s))
        /\ Cardinality(preds(r)) # Cardinality(preds(s))
    BY <1>2, <2>1, <2>2, FS_Subset
  <2>. QED
    BY <1>2, <2>3
<1>5. ASSUME NEW r \in S, NEW s \in S,
             Rank(r, S, oldFirst) < Rank(s, S, oldFirst)
      PROVE  ComesBefore(r, s, oldFirst)
  <2>0. Rank(r, S, oldFirst) \in Nat /\ Rank(s, S, oldFirst) \in Nat
    BY <1>2
  <2>1. ~(Rank(s, S, oldFirst) < Rank(r, S, oldFirst)) /\ r # s
    BY <1>5, <2>0
  <2>2. ~ComesBefore(s, r, oldFirst)
    BY <1>4, <2>1
  <2>. QED
    BY <2>1, <2>2, OrderTotal
<1>6. f \in Injection(S, 0 .. N - 1)
  <2>1. f \in [S -> 0 .. N - 1]
    BY <1>3
  <2>2. ASSUME NEW r \in S, NEW s \in S, f[r] = f[s]
        PROVE  r = s
    <3>1. Rank(r, S, oldFirst) = Rank(s, S, oldFirst)
      BY <2>2
    <3>2. ~ComesBefore(r, s, oldFirst) /\ ~ComesBefore(s, r, oldFirst)
      <4>1. Rank(r, S, oldFirst) \in Nat
        BY <1>2
      <4>2. /\ ~(Rank(r, S, oldFirst) < Rank(s, S, oldFirst))
            /\ ~(Rank(s, S, oldFirst) < Rank(r, S, oldFirst))
        BY <3>1, <4>1
      <4>. QED
        BY <1>4, <4>2
    <3>. QED
      BY <3>2, OrderTotal
  <2>. QED
    BY <2>1, <2>2, Fun_IsInj
<1>7. IsFiniteSet(0 .. N - 1) /\ Cardinality(0 .. N - 1) = N
  BY <1>1, FS_Interval
<1>8. f \in Surjection(S, 0 .. N - 1)
  BY <1>0, <1>6, <1>7, FS_Injection
<1>9. \A k \in 0 .. N - 1 : \E r \in S : f[r] = k
  BY <1>8 DEF Surjection
<1>10. \A i \in 1 .. N : \E r \in S : Rank(r, S, oldFirst) = i - 1
  BY <1>1, <1>9
<1>. QED
  BY <1>0, <1>1, <1>3, <1>4, <1>5, <1>10

\* The n rows of S, each once, by position.
IsListing(entries, n, S) ==
  /\ \A i \in 1 .. n : entries[i] \in S
  /\ \A r \in S : \E i \in 1 .. n : entries[i] = r
  /\ \A i, j \in 1 .. n : i < j => /\ entries[i] # entries[j]
                                   /\ entries[i].seq =< entries[j].seq

\* A query returns every row it selects once, in ORDER BY seq.
LEMMA ListingExact ==
  ASSUME TableInv, NEW S \in SUBSET AllEntries, NEW oldFirst \in BOOLEAN,
         NEW entries, entries = BySeq(S, oldFirst)
  PROVE  /\ entries \in Seq(S)
         /\ \E n \in Nat : /\ n = Cardinality(S)
                          /\ n = Len(entries)
                          /\ DOMAIN entries = 1 .. n
                          /\ IsListing(entries, n, S)
<1>0. PICK N : N = Cardinality(S)
  OBVIOUS
<1>1. N \in Nat /\ DOMAIN entries = 1 .. N
  BY <1>0, RanksExact DEF BySeq
<1>2. \A i \in 1 .. N : /\ entries[i] \in S
                        /\ Rank(entries[i], S, oldFirst) = i - 1
  BY <1>0, RanksExact DEF BySeq
<1>3. /\ \A r \in S : Rank(r, S, oldFirst) \in 0 .. N - 1
      /\ \A r, s \in S :
           /\ ComesBefore(r, s, oldFirst)
                <=> Rank(r, S, oldFirst) < Rank(s, S, oldFirst)
           /\ r # s => \/ ComesBefore(r, s, oldFirst)
                       \/ ComesBefore(s, r, oldFirst)
  BY <1>0, RanksExact, OrderTotal
<1>4. entries \in Seq(S)
  <2>1. entries = [i \in 1 .. N |-> entries[i]]
    BY <1>0 DEF BySeq
  <2>. QED
    BY <1>1, <1>2, <2>1, IsASeq
<1>5. ASSUME NEW r \in S
      PROVE  \E i \in 1 .. N : entries[i] = r
  <2>1. PICK k \in 0 .. N - 1 : Rank(r, S, oldFirst) = k
    BY <1>3
  <2>2. /\ k + 1 \in 1 .. N /\ entries[k + 1] \in S
        /\ Rank(entries[k + 1], S, oldFirst) = k
    <3>1. k + 1 \in 1 .. N /\ (k + 1) - 1 = k
      BY <1>1
    <3>. QED
      BY <1>2, <3>1
  <2>3. ~(k < k)
    OBVIOUS
  <2>4. entries[k + 1] = r
    BY <1>3, <2>1, <2>2, <2>3
  <2>. QED
    BY <2>2, <2>4
<1>6. ASSUME NEW i \in 1 .. N, NEW j \in 1 .. N, i < j
      PROVE  entries[i] # entries[j] /\ entries[i].seq =< entries[j].seq
  <2>1. ComesBefore(entries[i], entries[j], oldFirst)
    <3>1. i - 1 < j - 1
      BY <1>1, <1>6
    <3>. QED
      BY <1>2, <1>3, <3>1
  <2>2. entries[i] # entries[j]
    BY <1>2, <2>1, OrderTotal
  <2>3. entries[i].seq \in Nat /\ entries[j].seq \in Nat
    BY <1>2 DEF TableInv, TableTypes, IsRow
  <2>4. entries[i].seq < entries[j].seq \/ entries[i].seq = entries[j].seq
    BY <2>1 DEF ComesBefore
  <2>. QED
    BY <2>2, <2>3, <2>4
<1>7. IsListing(entries, N, S)
  BY <1>2, <1>5, <1>6 DEF IsListing
<1>8. Len(entries) = N
  BY <1>1, <1>4, LenProperties
<1>. QED
  BY <1>0, <1>1, <1>4, <1>7, <1>8

\* The same, of the positions the list has.
LEMMA SortedRows ==
  ASSUME TableInv, NEW S \in SUBSET AllEntries, NEW oldFirst \in BOOLEAN,
         NEW entries, entries = BySeq(S, oldFirst)
  PROVE  /\ entries \in Seq(S)
         /\ \A r \in S : \E i \in DOMAIN entries : entries[i] = r
         /\ \A i, j \in DOMAIN entries :
              i < j => /\ entries[i] # entries[j]
                       /\ entries[i].seq =< entries[j].seq
<1>1. entries \in Seq(S)
  BY ListingExact
<1>2. PICK n \in Nat : DOMAIN entries = 1 .. n /\ IsListing(entries, n, S)
  BY ListingExact
<1>. QED
  BY <1>1, <1>2 DEF IsListing

-----------------------------------------------------------------------------
(* Batches, for the modules that read them                                 *)

\* A batch once committed stays what it is.
LEMMA BatchesStay ==
  ASSUME StoreInv, [Next]_vars
  PROVE  \A n \in DOMAIN archiveBatches :
           n \in DOMAIN archiveBatches' /\ archiveBatches'[n] = archiveBatches[n]
<1>1. CASE ArchiveCommit
  <2>1. PICK m : archiveBatches' = Append(archiveBatches, m)
    BY <1>1 DEF ArchiveCommit
  <2>2. PICK S : S = Manifests \cup {m}
    OBVIOUS
  <2>3. archiveBatches \in Seq(S) /\ m \in S
    BY <2>2 DEF StoreInv, TypeOK, TableTypes
  <2>. QED
    BY <2>1, <2>3, AppendProperties, LenProperties
<1>2. CASE UNCHANGED archiveBatches
  BY <1>2
<1>3. ArchiveCommit \/ UNCHANGED archiveBatches
  BY DEF Next, Client, Archiver, Start, Crash, BuildEntry, AppendCommit,
         AppendFail, Reply, LoseReply, ArchiveSelect, ArchiveAbort, tables, vars
<1>. QED
  BY <1>1, <1>2, <1>3

\* A segment of the archive hangs together and on the segment before it.
LEMMA SegmentLinked ==
  ASSUME TableInv, NEW n \in DOMAIN archiveBatches, NEW r \in BatchRows(n)
  PROVE  r.seq = 1 \/ \E p \in BatchRows(n) \cup BatchRows(n - 1) : Follows(r, p)
<1>. DEFINE start(k) == archiveBatches[k].start_seq
            end(k) == archiveBatches[k].end_seq
<1>1. \A k : BatchRows(k) \subseteq ArchivedRows
  BY DEF BatchRows, ArchivedRows
<1>2. /\ \A p \in ArchivedRows : p.seq \in Nat \ {0}
      /\ \A p, q \in ArchivedRows : p.seq = q.seq => p = q
  BY DEF TableInv, TableTypes, IsRow, ArchiveInv, AllEntries
<1>3. \A k \in DOMAIN archiveBatches :
        /\ start(k) \in Nat \ {0} /\ end(k) \in Nat \ {0}
        /\ archiveBatches[k].item_count \in Nat \ {0}
  BY DEF TableInv, TableTypes, Manifests, IsManifest
<1>4. \A k \in DOMAIN archiveBatches :
        /\ archiveBatches[k].item_count = end(k) - start(k) + 1
        /\ {p.seq : p \in BatchRows(k)} = start(k) .. end(k)
        /\ k = 1 => start(k) = 1
        /\ k # 1 => start(k) = archiveBatches[k - 1].end_seq + 1
  BY DEF TableInv, BatchInv, BatchesLinked
<1>5. \A k \in DOMAIN archiveBatches : start(k) =< end(k)
  BY <1>3, <1>4
<1>6. r.seq \in start(n) .. end(n)
  BY <1>4
<1>7. CASE IsGenesis(r)
  BY <1>7 DEF IsGenesis
<1>8. ASSUME NEW p \in ArchivedRows, Follows(r, p)
      PROVE  r.seq = 1 \/ p \in BatchRows(n) \cup BatchRows(n - 1)
  <2>1. p.seq = r.seq - 1 /\ p.seq \in Nat \ {0}
    BY <1>1, <1>2, <1>8 DEF Follows
  <2>2. CASE p.seq >= start(n)
    <3>1. p.seq \in start(n) .. end(n)
      BY <1>3, <1>6, <2>1, <2>2
    <3>2. PICK q \in BatchRows(n) : q.seq = p.seq
      BY <1>4, <3>1
    <3>. QED
      BY <1>1, <1>2, <3>2
  <2>3. CASE p.seq < start(n)
    <3>1. p.seq = start(n) - 1
      BY <1>3, <1>6, <2>1, <2>3
    <3>2. n # 1
      <4>1. n = 1 => start(n) = 1
        BY <1>4
      <4>2. p.seq \in Nat \ {0} /\ p.seq = start(n) - 1
        BY <2>1, <3>1
      <4>. QED
        BY <4>1, <4>2
    <3>3. n - 1 \in DOMAIN archiveBatches
      <4>1. archiveBatches \in Seq(Manifests)
        BY DEF TableInv, TableTypes
      <4>2. PICK L \in Nat : DOMAIN archiveBatches = 1 .. L
        BY <4>1, LenProperties
      <4>. QED
        BY <3>2, <4>2
    <3>4. p.seq = end(n - 1)
      BY <1>3, <1>4, <3>1, <3>2, <3>3
    <3>5. p.seq \in start(n - 1) .. end(n - 1)
      BY <1>3, <1>5, <3>3, <3>4
    <3>6. PICK q \in BatchRows(n - 1) : q.seq = p.seq
      BY <1>4, <3>3, <3>5
    <3>. QED
      BY <1>1, <1>2, <3>6
  <2>. QED
    BY <1>3, <2>1, <2>2, <2>3
<1>9. IsGenesis(r) \/ \E p \in ArchivedRows : Follows(r, p)
  BY <1>1 DEF TableInv, ArchiveInv
<1>. QED
  BY <1>7, <1>8, <1>9

=============================================================================
