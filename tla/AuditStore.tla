----------------------------- MODULE AuditStore -----------------------------
(***************************************************************************)
(* The core of auditlog: the SQLite store (internal/store/sqlite.go) and   *)
(* the two services that write to it, AuditService.Append                  *)
(* (internal/service/audit.go) and the archiver.                           *)
(*                                                                         *)
(* database/sql runs on ONE connection (SetMaxOpenConns(1)), so everything *)
(* between BeginTx and Commit, and every statement outside a transaction,  *)
(* is one atomic step.  writeMu serialises the insert of Append and the    *)
(* whole of Archive.  The read of the chain head that an append is built   *)
(* on happens BEFORE writeMu is taken: it is a step of its own, and any    *)
(* number of other appends and archive batches may commit between it and   *)
(* the insert.                                                             *)
(***************************************************************************)
EXTENDS Chain, Sequences, FiniteSets

CONSTANTS Clients,      \* concurrent POST /api/v1/entries handlers
          Bodies,       \* the business content clients submit
          GenesisBody,  \* system/genesis/audit_chain
          Threshold,    \* config.ArchiveThreshold
          KeepMin,      \* config.ArchiveKeepMin
          MaxSeq        \* bound: no entry is built beyond this position

ASSUME BodiesAssumption == GenesisBody \notin Bodies

\* config.Validate refuses every other pair.
ASSUME PolicyAssumption == /\ Threshold \in Nat
                           /\ KeepMin \in Nat \ {0}
                           /\ KeepMin < Threshold

ASSUME MaxSeqAssumption == MaxSeq \in Nat \ {0}

VARIABLES
  up,              \* the server process runs, the database is open
  auditEntries,    \* table audit_entries: the rows of the active chain
  archiveEntries,  \* table archive_entries: [row, batch_no]
  archiveBatches,  \* table archive_batches, in batch_no order
  lastId,          \* sqlite_sequence of audit_entries (AUTOINCREMENT)
  pc,              \* per client: "idle", "built" or "stored"
  pending,         \* per client: the entry it carries to Store.Append
  replied,         \* rows returned to a client with status 201
  archiveJob       \* rows Archive has selected; non-empty = it holds writeMu

vars == << up, auditEntries, archiveEntries, archiveBatches, lastId,
           pc, pending, replied, archiveJob >>

tables == << auditEntries, archiveEntries, archiveBatches, lastId >>

-----------------------------------------------------------------------------
(* What the queries return                                                 *)

ArchivedRows == {a.row : a \in archiveEntries}

Manifests == {archiveBatches[n] : n \in DOMAIN archiveBatches}

\* AllEntries: audit_entries UNION ALL archive_entries.
AllEntries == auditEntries \cup ArchivedRows

\* Head: SELECT ... FROM audit_entries ORDER BY seq DESC LIMIT 1.
IsHead(h) == /\ h \in auditEntries
             /\ \A r \in auditEntries : r.seq =< h.seq

\* The rows before r in ORDER BY seq.
Before(r) == {s \in auditEntries : s.seq < r.seq}

\* Mutant of Oldest: one row too many.
OldestAndNext(n) == {r \in auditEntries : Cardinality(Before(r)) =< n}

\* SELECT ... FROM audit_entries ORDER BY seq LIMIT n.
Oldest(n) == {r \in auditEntries : Cardinality(Before(r)) < n}

\* ORDER BY seq.  The order of two rows at one position (one of each table)
\* is not specified: either may come first.
ComesBefore(r, s, oldFirst) ==
  \/ r.seq < s.seq
  \/ r.seq = s.seq /\ IF oldFirst THEN r.id < s.id ELSE s.id < r.id

Rank(r, rows, oldFirst) ==
  Cardinality({s \in rows : ComesBefore(s, r, oldFirst)})

BySeq(rows, oldFirst) ==
  [i \in 1 .. Cardinality(rows) |->
     CHOOSE r \in rows : Rank(r, rows, oldFirst) = i - 1]

\* Handlers wait for writeMu while a batch is being moved.
WriteMuFree == archiveJob = {}

\* The zero model.Entry of a handler that has built nothing.
NoEntry == NewEntry(0, ZeroHash, GenesisBody)

-----------------------------------------------------------------------------
(* Start and stop of the process                                           *)

Init == /\ up = FALSE
        /\ auditEntries = {}
        /\ archiveEntries = {}
        /\ archiveBatches = << >>
        /\ lastId = 0
        /\ pc = [c \in Clients |-> "idle"]
        /\ pending = [c \in Clients |-> NoEntry]
        /\ replied = {}
        /\ archiveJob = {}

\* Open, ensureGenesis: only an empty audit_entries gets a genesis row.
GenesisRow == [NewEntry(1, ZeroHash, GenesisBody) EXCEPT !.id = lastId + 1]

\* Mutant of Start: INSERT OR IGNORE of the genesis row, without the count.
StartIgnoringConflict ==
  /\ ~up
  /\ up' = TRUE
  /\ IF \A r \in auditEntries : r.seq # 1
     THEN /\ auditEntries' = auditEntries \cup {GenesisRow}
          /\ lastId' = lastId + 1
     ELSE UNCHANGED << auditEntries, lastId >>
  /\ UNCHANGED << archiveEntries, archiveBatches, pc, pending, replied,
                  archiveJob >>

Start ==
  /\ ~up
  /\ up' = TRUE
  /\ IF auditEntries = {}
     THEN /\ auditEntries' = {GenesisRow}
          /\ lastId' = lastId + 1
     ELSE UNCHANGED << auditEntries, lastId >>
  /\ UNCHANGED << archiveEntries, archiveBatches, pc, pending, replied,
                  archiveJob >>

\* The process dies, or main returns and closes the database: handlers and
\* the archiver are gone, an open transaction is rolled back by SQLite.
Crash ==
  /\ up
  /\ up' = FALSE
  /\ pc' = [c \in Clients |-> "idle"]
  /\ pending' = [c \in Clients |-> NoEntry]
  /\ archiveJob' = {}
  /\ UNCHANGED << tables, replied >>

-----------------------------------------------------------------------------
(* POST /api/v1/entries                                                    *)

\* AuditService.Append up to Store.Append: read the head, without writeMu,
\* and seal the entry that follows it.
BuildEntry(c, body) ==
  /\ up
  /\ pc[c] = "idle"
  /\ \E h \in auditEntries :
       /\ IsHead(h)
       /\ h.seq < MaxSeq
       /\ pending' = [pending EXCEPT ![c] = NewEntry(h.seq + 1, h.hash, body)]
  /\ pc' = [pc EXCEPT ![c] = "built"]
  /\ UNCHANGED << up, tables, replied, archiveJob >>

\* Mutant of SeqTaken: audit_entries.seq is not UNIQUE.
SeqNeverTaken(e) == FALSE

\* audit_entries.seq is UNIQUE (in that table only).
SeqTaken(e) == \E r \in auditEntries : r.seq = e.seq

\* Mutant of AppendCommit: the id is the number of active rows plus one.
AppendCountedId(c) ==
  /\ up
  /\ pc[c] = "built"
  /\ WriteMuFree
  /\ ~SeqTaken(pending[c])
  /\ LET row == [pending[c] EXCEPT !.id = Cardinality(auditEntries) + 1] IN
       /\ auditEntries' = auditEntries \cup {row}
       /\ pending' = [pending EXCEPT ![c] = row]
  /\ lastId' = lastId + 1
  /\ pc' = [pc EXCEPT ![c] = "stored"]
  /\ UNCHANGED << up, archiveEntries, archiveBatches, replied, archiveJob >>

\* Store.Append: lock, INSERT with the next AUTOINCREMENT id, commit.
AppendCommit(c) ==
  /\ up
  /\ pc[c] = "built"
  /\ WriteMuFree
  /\ ~SeqTaken(pending[c])
  /\ LET row == [pending[c] EXCEPT !.id = lastId + 1] IN
       /\ auditEntries' = auditEntries \cup {row}
       /\ pending' = [pending EXCEPT ![c] = row]
  /\ lastId' = lastId + 1
  /\ pc' = [pc EXCEPT ![c] = "stored"]
  /\ UNCHANGED << up, archiveEntries, archiveBatches, replied, archiveJob >>

\* Mutant of AppendFail: the handler tries the same entry again.
AppendAgain(c) ==
  /\ up
  /\ pc[c] = "built"
  /\ WriteMuFree
  /\ UNCHANGED vars

\* The insert violates UNIQUE(seq), or the statement, the commit or the
\* request context fails: rollback, the client gets a 400.
AppendFail(c) ==
  /\ up
  /\ pc[c] = "built"
  /\ WriteMuFree
  /\ pc' = [pc EXCEPT ![c] = "idle"]
  /\ pending' = [pending EXCEPT ![c] = NoEntry]
  /\ UNCHANGED << up, tables, replied, archiveJob >>

\* The 201 response with the stored row reaches the client ...
Reply(c) ==
  /\ up
  /\ pc[c] = "stored"
  /\ replied' = replied \cup {pending[c]}
  /\ pc' = [pc EXCEPT ![c] = "idle"]
  /\ pending' = [pending EXCEPT ![c] = NoEntry]
  /\ UNCHANGED << up, tables, archiveJob >>

\* ... or the connection is gone: the row is stored, the client does not know.
LoseReply(c) ==
  /\ up
  /\ pc[c] = "stored"
  /\ pc' = [pc EXCEPT ![c] = "idle"]
  /\ pending' = [pending EXCEPT ![c] = NoEntry]
  /\ UNCHANGED << up, tables, replied, archiveJob >>

-----------------------------------------------------------------------------
(* SQLite.Archive                                                          *)

\* The rows beyond the KeepMin newest: what Archive asks for.
Surplus == Cardinality(auditEntries) - KeepMin

\* Mutant of ArchiveSelect: only above the threshold.
ArchiveSelectAbove(n) ==
  /\ up
  /\ WriteMuFree
  /\ Cardinality(auditEntries) > Threshold
  /\ n \in 0 .. Surplus
  /\ Oldest(n) # {}
  /\ archiveJob' = Oldest(n)
  /\ UNCHANGED << up, tables, pc, pending, replied >>

\* Lock, count, and select the Surplus oldest rows; n of them arrive.  A
\* read error in the middle ends the loop as if there were no more rows
\* (rows.Err is never looked at), and the batch is made of those that came.
ArchiveSelect(n) ==
  /\ up
  /\ WriteMuFree
  /\ Cardinality(auditEntries) >= Threshold
  /\ Cardinality(auditEntries) > KeepMin
  /\ n \in 0 .. Surplus
  /\ Oldest(n) # {}
  /\ archiveJob' = Oldest(n)
  /\ UNCHANGED << up, tables, pc, pending, replied >>

\* Mutant of Conflict: archive_entries.seq is not UNIQUE.
ConflictOfIds(rows) == \E r \in rows, a \in ArchivedRows : r.id = a.id

\* archive_entries has a PRIMARY KEY on id and UNIQUE(seq): one row of the
\* batch in conflict fails the whole transaction.
Conflict(rows) ==
  \E r \in rows, a \in ArchivedRows : r.seq = a.seq \/ r.id = a.id

\* Mutant of Manifest: the head hash is taken from the wrong end.
ManifestOfFirst(rows, first, last) ==
  [start_seq |-> first.seq, end_seq |-> last.seq,
   prev_hash |-> first.prev_hash, head_hash |-> first.hash,
   item_count |-> Cardinality(rows), payload |-> rows]

\* The archive_batches row; payload_hash determines the rows it was made of.
Manifest(rows, first, last) ==
  [start_seq  |-> first.seq,
   end_seq    |-> last.seq,
   prev_hash  |-> first.prev_hash,
   head_hash  |-> last.hash,
   item_count |-> Cardinality(rows),
   payload    |-> rows]

\* Mutant of Deleted: one position too far.
DeletedAndNext(last) == {r \in auditEntries : r.seq =< last.seq + 1}

\* DELETE FROM audit_entries WHERE seq <= end_seq.
Deleted(last) == {r \in auditEntries : r.seq =< last.seq}

\* One transaction: copy the rows, add the manifest, delete, commit.
ArchiveCommit ==
  /\ up
  /\ ~WriteMuFree
  /\ ~Conflict(archiveJob)
  /\ \E first, last \in archiveJob :
       /\ \A r \in archiveJob : first.seq =< r.seq /\ r.seq =< last.seq
       /\ archiveBatches' =
            Append(archiveBatches, Manifest(archiveJob, first, last))
       /\ auditEntries' = auditEntries \ Deleted(last)
  /\ archiveEntries' = archiveEntries \cup
       {[row |-> r, batch_no |-> Len(archiveBatches) + 1] : r \in archiveJob}
  /\ archiveJob' = {}
  /\ UNCHANGED << up, lastId, pc, pending, replied >>

\* Mutant of ArchiveAbort: the statements are not one transaction.
ArchiveHalf ==
  /\ up
  /\ ~WriteMuFree
  /\ auditEntries' = auditEntries \ archiveJob
  /\ archiveJob' = {}
  /\ UNCHANGED << up, archiveEntries, archiveBatches, lastId, pc, pending,
                  replied >>

\* A statement of the transaction fails (a conflict always does): rollback.
ArchiveAbort ==
  /\ up
  /\ ~WriteMuFree
  /\ archiveJob' = {}
  /\ UNCHANGED << up, tables, pc, pending, replied >>

-----------------------------------------------------------------------------

Client(c) == \/ \E body \in Bodies : BuildEntry(c, body)
             \/ AppendCommit(c)
             \/ AppendFail(c)
             \/ Reply(c)
             \/ LoseReply(c)

Archiver == \/ \E n \in 0 .. Surplus : ArchiveSelect(n)
            \/ ArchiveCommit
            \/ ArchiveAbort

Next == \/ Start
        \/ Crash
        \/ \E c \in Clients : Client(c)
        \/ Archiver

Spec == Init /\ [][Next]_vars

-----------------------------------------------------------------------------
(* Properties                                                              *)

IsRow(e) == /\ e \in [id : Nat \ {0}, seq : Nat \ {0},
                      prev_hash : {e.prev_hash}, hash : {e.hash},
                      body : Bodies \cup {GenesisBody}]
            /\ HashOK(e)

IsManifest(b) ==
  b \in [start_seq : Nat \ {0}, end_seq : Nat \ {0},
         prev_hash : {b.prev_hash}, head_hash : {b.head_hash},
         item_count : Nat \ {0}, payload : {b.payload}]

\* Every row of a table is sealed by its own hash, and the columns have the
\* types of the schema.
TableTypes ==
  /\ \A e \in AllEntries : IsRow(e)
  /\ \A a \in archiveEntries : a = [row |-> a.row, batch_no |-> a.batch_no]
  /\ \A a \in archiveEntries : a.batch_no \in 1 .. Len(archiveBatches)
  /\ archiveBatches \in Seq(Manifests)
  /\ \A b \in Manifests : IsManifest(b)
  /\ lastId \in Nat

\* The type invariant: the tables, and the rows handlers, the archiver and
\* clients hold.
TypeOK ==
  /\ TableTypes
  /\ up \in BOOLEAN
  /\ \A e \in archiveJob \cup replied : IsRow(e)
  /\ pc \in [Clients -> {"idle", "built", "stored"}]
  /\ DOMAIN pending = Clients

\* docs/03 "seq UNIQUE, main + archive: the merged order is reliable": no
\* two rows of the whole log carry the same position.  UNIQUE(seq) is per
\* table and the head is read outside writeMu (audit.go:20): this holds only
\* as long as no two appends overlap.
SeqUnique == \A r, s \in AllEntries : r.seq = s.seq => r = s

\* docs/01 "no hole in the chain": whatever failed, crashed or was moved,
\* every position up to that of any stored row is taken by some row.
NoGap == \A e \in AllEntries :
           \A n \in 1 .. e.seq : \E r \in AllEntries : r.seq = n

\* Whatever interleaves with Archive, the archived rows alone are always one
\* unforked, intact hash chain starting at the genesis row.
ArchiveIsChain == IsChain(ArchivedRows)

\* An id finds at most one row although each table has its own primary key
\* and EntryByID reads both with UNION ALL: no row is in both tables, no
\* two rows share an id.
IdUnique == /\ auditEntries \cap ArchivedRows = {}
            /\ \A r, s \in AllEntries : r.id = s.id => r = s

\* The rows tagged with a batch number.
BatchRows(n) == {a.row : a \in {x \in archiveEntries : x.batch_no = n}}

\* The manifests partition the archive into consecutive, linked segments:
\* a batch starts where the one before it ended, at its position and at its
\* hash, and its payload hash still matches the rows tagged with its number.
BatchesLinked ==
  \A n \in DOMAIN archiveBatches :
    LET b == archiveBatches[n] IN
    /\ b.payload = BatchRows(n)
    /\ b.item_count = b.end_seq - b.start_seq + 1
    /\ {r.seq : r \in BatchRows(n)} = b.start_seq .. b.end_seq
    /\ IF n = 1
       THEN b.start_seq = 1 /\ b.prev_hash = ZeroHash
       ELSE /\ b.start_seq = archiveBatches[n - 1].end_seq + 1
            /\ b.prev_hash = archiveBatches[n - 1].head_hash

\* The chain head never leaves audit_entries, where Head looks for it: the
\* archiver, a restart or a late append never move or replace it by an
\* older one.
HeadStays == [][\A h \in auditEntries : IsHead(h) => h \in auditEntries']_vars

\* Once two rows share a position, no batch is ever archived again: the
\* archiver never moves a forked piece of the chain.
Forked == ~SeqUnique
ForkFreezesArchive ==
  [][Forked => UNCHANGED << archiveEntries, archiveBatches >>]_vars

\* How a log forks: only by an append whose position has been archived since
\* its handler read the head.  A start, a batch or an append that is merely
\* late never puts a second row at a position.
ForkNeedsLateAppend ==
  [][~Forked /\ Forked' =>
       \E c \in Clients : /\ pc[c] = "built" /\ pc'[c] = "stored"
                          /\ \E r \in ArchivedRows : r.seq = pending[c].seq]_vars

\* The store implements the ledger: appends, archive batches, crashes and
\* restarts never lose or alter a row, nor one a client has been told about.
AsLedger == INSTANCE Ledger WITH ledger <- AllEntries, acked <- replied
ImplementsLedger == AsLedger!LSpec

-----------------------------------------------------------------------------
(* The inductive invariant behind the safety properties: what the tables,  *)
(* the handlers and the archiver agree on between any two steps.           *)

\* The last archived position; the archive holds exactly 1 .. ArchivedUpTo.
ArchivedUpTo == IF archiveBatches = << >>
                THEN 0
                ELSE archiveBatches[Len(archiveBatches)].end_seq

\* Active rows: one per position, no hole above the archive, and the head is
\* an active row above the archive.
ActiveInv ==
  /\ IsFiniteSet(auditEntries)
  /\ \A r, s \in auditEntries : r.seq = s.seq => r = s
  /\ \A e \in auditEntries :
       \A n \in ArchivedUpTo + 1 .. e.seq : \E r \in auditEntries : r.seq = n
  /\ IF auditEntries = {}
     THEN archiveEntries = {} /\ archiveBatches = << >>
     ELSE \E h \in auditEntries : IsHead(h) /\ h.seq > ArchivedUpTo

\* Archived rows: exactly the positions up to ArchivedUpTo, once each and in
\* one batch, and linked among themselves.
ArchiveInv ==
  /\ \A r \in ArchivedRows : r.seq =< ArchivedUpTo
  /\ \A n \in 1 .. ArchivedUpTo : \E r \in ArchivedRows : r.seq = n
  /\ \A r, s \in ArchivedRows : r.seq = s.seq => r = s
  /\ \A a, b \in archiveEntries : a.row = b.row => a = b
  /\ \A e \in ArchivedRows :
       IsGenesis(e) \/ \E p \in ArchivedRows : Follows(e, p)

\* The manifests are linked, and the head hash of each is the hash of the
\* archived row its segment ends with: what the next batch is linked to.
BatchInv ==
  /\ BatchesLinked
  /\ \A n \in DOMAIN archiveBatches : \A r \in BatchRows(n) :
       r.seq = archiveBatches[n].end_seq => r.hash = archiveBatches[n].head_hash

\* Every stored row follows a stored row, archived or not; ids are dense
\* enough to stay distinct.
LogInv ==
  /\ \A e \in AllEntries : IsGenesis(e) \/ \E p \in AllEntries : Follows(e, p)
  /\ \A e \in AllEntries : e.id =< lastId
  /\ IdUnique

\* What holds of the four tables alone: in the file as in the running store.
TableInv == TableTypes /\ ActiveInv /\ ArchiveInv /\ BatchInv /\ LogInv

\* What a handler carries was built on a row that is (still) in the log.
ClientInv ==
  \A c \in Clients :
    /\ pc[c] = "built" =>
         \E p \in AllEntries, b \in Bodies :
           pending[c] = NewEntry(p.seq + 1, p.hash, b)
    /\ pc[c] = "stored" => pending[c] \in AllEntries

\* The rows Archive selected are the oldest active ones, the head is not
\* among them.
JobInv ==
  /\ archiveJob \subseteq auditEntries
  /\ \A r \in archiveJob, s \in auditEntries :
       s.seq =< r.seq => s \in archiveJob
  /\ \A h \in auditEntries : IsHead(h) => h \notin archiveJob

\* All of the above, at every step of Append, Archive, a crash and a restart;
\* it does not mention what clients remember, so that it also survives a step
\* back to older tables (DurableStore).
StoreInv == TypeOK /\ TableInv /\ ClientInv /\ JobInv

\* The inductive invariant: what clients were told is in the tables as well.
IInv == StoreInv /\ replied \subseteq AllEntries

=============================================================================
