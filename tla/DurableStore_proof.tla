-------------------------- MODULE DurableStore_proof --------------------------
(***************************************************************************)
(* Proofs about DurableStore, for any number of handlers, any requests     *)
(* ValidateVerifyRequest accepts, any policy and any bound: what a         *)
(* verification says of an intact log while appends, batches, crashes and  *)
(* power losses interleave with it, that a start finds a whole schema, and *)
(* that a power loss takes the newest rows only.                           *)
(***************************************************************************)
EXTENDS DurableStore, AuditStore_proof

-----------------------------------------------------------------------------
(* What chain.Verify says of it                                            *)

\* A report has one of four statuses.
LEMMA VerifyStatus ==
  ASSUME NEW entries, NEW h, NEW req
  PROVE  Verify(entries, h, req).status
           \in {"ok", "link_broken", "hash_mismatch", "head_mismatch"}
BY DEF Verify, EntryStatus

\* The entries of a log that has not forked, each linked, with no hole.
IntactRead(entries) ==
  /\ Len(entries) \in Nat \ {0}
  /\ DOMAIN entries = 1 .. Len(entries)
  /\ \A i \in DOMAIN entries : IsRow(entries[i])
  /\ \A i, j \in DOMAIN entries : entries[i].seq = entries[j].seq => i = j
  /\ \A i, j \in DOMAIN entries : i < j => entries[i].seq =< entries[j].seq
  /\ \A i \in DOMAIN entries :
       /\ \/ IsGenesis(entries[i])
          \/ \E j \in DOMAIN entries : Follows(entries[i], entries[j])
       /\ \A n \in 1 .. entries[i].seq :
            \E j \in DOMAIN entries : entries[j].seq = n

\* findSeq finds the entry at a position that is taken once.
LEMMA FindSeqFinds ==
  ASSUME NEW entries, IntactRead(entries), NEW j \in DOMAIN entries
  PROVE  FindSeq(entries, entries[j].seq) = j
BY DEF FindSeq, IntactRead

\* So the loop of Verify finds nothing wrong with any entry.
LEMMA EntryOk ==
  ASSUME NEW entries, IntactRead(entries), NEW i \in DOMAIN entries
  PROVE  EntryStatus(entries, entries[i]) = "ok"
<1>1. IsRow(entries[i]) /\ HashOK(entries[i])
  BY DEF IntactRead, IsRow
<1>2. entries[i].prev_hash = ExpectedPrev(entries, entries[i])
  <2>1. CASE IsGenesis(entries[i])
    BY <2>1 DEF IsGenesis, ExpectedPrev
  <2>2. ASSUME NEW j \in DOMAIN entries, Follows(entries[i], entries[j])
        PROVE  entries[i].prev_hash = ExpectedPrev(entries, entries[i])
    <3>1. entries[j].seq \in Nat \ {0} /\ entries[i].seq = entries[j].seq + 1
      BY <2>2 DEF Follows, IntactRead, IsRow
    <3>2. entries[i].seq - 1 = entries[j].seq /\ entries[i].seq # 1
      BY <3>1
    <3>3. FindSeq(entries, entries[i].seq - 1) = j
      BY <3>2, FindSeqFinds
    <3>4. j > 0
      BY DEF IntactRead
    <3>. QED
      BY <2>2, <3>2, <3>3, <3>4 DEF ExpectedPrev, Follows
  <2>. QED
    BY <2>1, <2>2 DEF IntactRead
<1>. QED
  BY <1>1, <1>2 DEF EntryStatus

\* n entries without a hole, each position once: the last is at position n.
LEMMA LastPosition ==
  ASSUME NEW entries, IntactRead(entries)
  PROVE  entries[Len(entries)].seq = Len(entries)
<1>1. PICK n \in Nat \ {0} : n = Len(entries) /\ DOMAIN entries = 1 .. n
  BY DEF IntactRead
<1>2. PICK m \in Nat \ {0} : m = entries[n].seq
  BY <1>1 DEF IntactRead, IsRow
<1>. DEFINE f == [i \in 1 .. n |-> entries[i].seq]
<1>3. ASSUME NEW i \in 1 .. n
      PROVE  entries[i].seq \in 1 .. m
  <2>1. entries[i].seq \in Nat \ {0}
    BY <1>1 DEF IntactRead, IsRow
  <2>2. i = n \/ i < n
    OBVIOUS
  <2>3. i < n => entries[i].seq =< entries[n].seq
    <3>1. \A j, k \in 1 .. n : j < k => entries[j].seq =< entries[k].seq
      BY <1>1 DEF IntactRead
    <3>. QED
      BY <3>1
  <2>. QED
    BY <1>2, <2>1, <2>2, <2>3
<1>4. f \in Injection(1 .. n, 1 .. m)
  <2>1. f \in [1 .. n -> 1 .. m]
    BY <1>3
  <2>2. \A i, j \in 1 .. n : f[i] = f[j] => i = j
    BY <1>1 DEF IntactRead
  <2>. QED
    BY <2>1, <2>2, Fun_IsInj
<1>5. f \in Surjection(1 .. n, 1 .. m)
  <2>1. \A k \in 1 .. m : \E i \in 1 .. n : f[i] = k
    BY <1>1, <1>2 DEF IntactRead
  <2>. QED
    BY <1>3, <2>1, Fun_IsSurj
<1>6. /\ IsFiniteSet(1 .. m)
      /\ Cardinality(1 .. m) = m
      /\ Cardinality(1 .. n) = n
  <2>1. 1 \in Int /\ n \in Int /\ m \in Int /\ ~(1 > n) /\ ~(1 > m)
    OBVIOUS
  <2>. QED
    BY <2>1, FS_Interval
<1>7. Cardinality(1 .. n) = Cardinality(1 .. m)
  BY <1>4, <1>5, <1>6, FS_Injection
<1>. QED
  BY <1>1, <1>2, <1>6, <1>7

\* The report: no break, and "ok" for a full verification means all of it.
LEMMA VerifyIntact ==
  ASSUME NEW entries, IntactRead(entries), NEW h, NEW req,
         NEW report, report = Verify(entries, h, req)
  PROVE  /\ report.status \in {"ok", "head_mismatch"}
         /\ report.status = "head_mismatch" => entries[Len(entries)].hash # h
         /\ report.status = "ok" /\ req.mode = "full"
              => /\ entries[Len(entries)].hash = h
                 /\ report.checked_entries = Len(entries)
                 /\ report.end_seq = Len(entries)
                 /\ report.head_hash = h
<1>. DEFINE sel == SelectEntries(entries, req)
<1>1. PICK n \in Nat \ {0} : n = Len(entries) /\ DOMAIN entries = 1 .. n
  BY DEF IntactRead
<1>2. sel \subseteq 1 .. n
  BY <1>1 DEF SelectEntries
<1>3. {i \in sel : EntryStatus(entries, entries[i]) # "ok"} = {}
  BY <1>1, <1>2, EntryOk
<1>4. CASE sel # {} /\ req.mode \in {"full", "head"} /\ entries[n].hash # h
  <2>1. report.status = "head_mismatch"
    BY <1>1, <1>3, <1>4 DEF Verify
  <2>. QED
    BY <1>1, <1>4, <2>1
<1>5. CASE ~(sel # {} /\ req.mode \in {"full", "head"} /\ entries[n].hash # h)
  <2>1. report = [status |-> "ok", break_seq |-> 0,
                  checked_entries |-> Cardinality(sel),
                  start_seq |-> IF sel = {} THEN 0
                                ELSE entries[Smallest(sel)].seq,
                  end_seq |-> IF sel = {} THEN 0
                              ELSE entries[Largest(sel)].seq,
                  head_hash |-> h]
    BY <1>1, <1>3, <1>5 DEF Verify
  <2>2. ASSUME req.mode = "full"
        PROVE  /\ entries[n].hash = h
               /\ Cardinality(sel) = n
               /\ sel # {}
               /\ entries[Largest(sel)].seq = n
    <3>1. sel = 1 .. n
      BY <1>1, <2>2 DEF SelectEntries
    <3>2. n \in sel /\ \A j \in sel : j =< n
      BY <3>1
    <3>3. Largest(sel) = n
      BY <3>1, <3>2 DEF Largest
    <3>4. Cardinality(1 .. n) = n
      BY FS_Interval
    <3>. QED
      BY <1>1, <1>5, <2>2, <3>1, <3>2, <3>3, <3>4, LastPosition
  <2>. QED
    BY <1>1, <2>1, <2>2
<1>. QED
  BY <1>4, <1>5

-----------------------------------------------------------------------------
(* The verification's steps                                                *)

\* In a log that has not forked, what a verification has read is intact.
LEMMA ReadIsIntact ==
  ASSUME StoreInv, VerifyInv, SeqUnique, vpc # "idle"
  PROVE  IntactRead(vEntries)
<1>1. /\ vEntries \in Seq(AllEntries) /\ vEntries # << >>
      /\ \A i, j \in DOMAIN vEntries :
           i < j => /\ vEntries[i] # vEntries[j]
                    /\ vEntries[i].seq =< vEntries[j].seq
      /\ \A i \in DOMAIN vEntries :
           /\ \/ IsGenesis(vEntries[i])
              \/ \E j \in DOMAIN vEntries : Follows(vEntries[i], vEntries[j])
           /\ \A n \in 1 .. vEntries[i].seq :
                \E j \in DOMAIN vEntries : vEntries[j].seq = n
  BY DEF VerifyInv, ReadInv
<1>2. /\ Len(vEntries) \in Nat
      /\ DOMAIN vEntries = 1 .. Len(vEntries)
      /\ Len(vEntries) # 0
      /\ \A i \in DOMAIN vEntries : vEntries[i] \in AllEntries
  BY <1>1, EmptySeq, LenProperties, ElementOfSeq
<1>3. \A i \in DOMAIN vEntries : IsRow(vEntries[i])
  BY <1>2 DEF StoreInv, TypeOK, TableTypes
<1>4. ASSUME NEW i \in DOMAIN vEntries, NEW j \in DOMAIN vEntries,
             vEntries[i].seq = vEntries[j].seq
      PROVE  i = j
  <2>1. vEntries[i] = vEntries[j]
    BY <1>2, <1>4 DEF SeqUnique
  <2>. QED
    BY <1>1, <1>2, <2>1
<1>. QED
  BY <1>1, <1>2, <1>3, <1>4 DEF IntactRead

\* AllEntries reads the whole log, which is not empty while the server runs.
LEMMA ReadEntriesStep ==
  ASSUME StoreInv, VerifyInv, auditEntries # {},
         NEW req \in VerifyRequests, ReadEntries(req)
  PROVE  VerifyInv'
<1>1. PICK first \in BOOLEAN : vEntries' = BySeq(AllEntries, first)
  BY DEF ReadEntries
<1>2. PICK entries : entries = vEntries' /\ entries = BySeq(AllEntries, first)
  BY <1>1
<1>3. /\ vpc' = "read" /\ vreq' = req
      /\ UNCHANGED << vars, vHead, vReport, vBatches, lastVerify >>
  BY DEF ReadEntries
<1>4. AllEntries' = AllEntries /\ archiveBatches' = archiveBatches
  BY <1>3 DEF vars, AllEntries, ArchivedRows
<1>5. /\ entries \in Seq(AllEntries)
      /\ \A r \in AllEntries : \E i \in DOMAIN entries : entries[i] = r
      /\ \A i, j \in DOMAIN entries :
           i < j => /\ entries[i] # entries[j]
                    /\ entries[i].seq =< entries[j].seq
  BY <1>2, SortedRows DEF StoreInv
<1>6. \A i \in DOMAIN entries : entries[i] \in AllEntries
  BY <1>5, LenProperties, ElementOfSeq
<1>7. VTypeOK'
  <2>1. \A i \in DOMAIN entries : IsRow(entries[i])
    BY <1>6 DEF StoreInv, TypeOK, TableTypes
  <2>2. ValidRequest(req)
    BY RequestsAssumption
  <2>. QED
    BY <1>2, <1>3, <2>1, <2>2 DEF VerifyInv, VTypeOK, ValidRequest, IsRow
<1>8. ReadInv'
  <2>1. entries # << >>
    BY <1>5, EmptySeq DEF AllEntries
  <2>2. ASSUME NEW i \in DOMAIN entries
        PROVE  /\ \/ IsGenesis(entries[i])
                  \/ \E j \in DOMAIN entries : Follows(entries[i], entries[j])
               /\ \A n \in 1 .. entries[i].seq :
                    \E j \in DOMAIN entries : entries[j].seq = n
    <3>1. \/ IsGenesis(entries[i])
          \/ \E p \in AllEntries : Follows(entries[i], p)
      BY <1>6 DEF StoreInv, TableInv, LogInv
    <3>2. \A n \in 1 .. entries[i].seq : \E r \in AllEntries : r.seq = n
      BY <1>6, NoHole DEF StoreInv, NoGap
    <3>. QED
      BY <1>5, <3>1, <3>2
  <2>. QED
    BY <1>2, <1>4, <1>5, <2>1, <2>2 DEF ReadInv
<1>9. ReportInv'
  BY <1>3 DEF ReportInv
<1>10. SeenBatchesInv'
  BY <1>3, <1>4 DEF VerifyInv, SeenBatchesInv
<1>11. StoredInv'
  BY <1>3, <1>4 DEF VerifyInv, StoredInv, SeqUnique
<1>. QED
  BY <1>7, <1>8, <1>9, <1>10, <1>11 DEF VerifyInv

\* Head is read later: the archiver never moves the head, so that it is not
\* older than any row read before.
LEMMA ReadHeadStep ==
  ASSUME StoreInv, VerifyInv, ReadHead
  PROVE  VerifyInv'
<1>1. /\ vpc = "read" /\ vpc' = "head"
      /\ UNCHANGED << vars, vreq, vEntries, vBatches, lastVerify >>
  BY DEF ReadHead
<1>2. PICK h \in auditEntries :
        /\ IsHead(h)
        /\ vHead' = h
        /\ vReport' = Verify(vEntries, h.hash, vreq)
  BY DEF ReadHead
<1>3. AllEntries' = AllEntries /\ archiveBatches' = archiveBatches
  BY <1>1 DEF vars, AllEntries, ArchivedRows
<1>4. VTypeOK'
  BY <1>1 DEF VerifyInv, VTypeOK, ValidRequest, IsRow
<1>5. ReadInv'
  BY <1>1, <1>3 DEF VerifyInv, ReadInv
<1>6. ReportInv'
  <2>1. vEntries \in Seq(AllEntries) /\ vEntries # << >>
    BY <1>1 DEF VerifyInv, ReadInv
  <2>2. Last(vEntries) \in AllEntries
    BY <2>1, EmptySeq, LenProperties, ElementOfSeq DEF Last
  <2>3. PICK g \in auditEntries : IsHead(g) /\ g.seq > ArchivedUpTo
    BY DEF StoreInv, TableInv, ActiveInv
  <2>4. /\ ArchivedUpTo \in Nat
        /\ \A r \in AllEntries : r.seq \in Nat
    BY ArchivedUpToType DEF StoreInv, TableInv, TableTypes, IsRow
  <2>5. g.seq =< h.seq
    BY <1>2 DEF IsHead
  <2>6. Last(vEntries).seq =< h.seq
    BY <1>2, <2>2, <2>3, <2>4, <2>5
    DEF IsHead, AllEntries, StoreInv, TableInv, ArchiveInv
  <2>. QED
    BY <1>1, <1>2, <1>3, <2>6 DEF ReportInv, AllEntries, Last
<1>7. SeenBatchesInv'
  BY <1>1, <1>3 DEF VerifyInv, SeenBatchesInv
<1>8. StoredInv'
  BY <1>1, <1>3 DEF VerifyInv, StoredInv, SeqUnique
<1>. QED
  BY <1>4, <1>5, <1>6, <1>7, <1>8 DEF VerifyInv

\* Batches is read last.
LEMMA ReadBatchesStep ==
  ASSUME StoreInv, VerifyInv, ReadBatches
  PROVE  VerifyInv'
<1>1. /\ vpc = "head" /\ vpc' = "checked"
      /\ UNCHANGED << vars, vreq, vEntries, vHead, vReport, lastVerify >>
  BY DEF ReadBatches
<1>2. AllEntries' = AllEntries /\ archiveBatches' = archiveBatches
  BY <1>1 DEF vars, AllEntries, ArchivedRows
<1>3. VTypeOK'
  BY <1>1 DEF VerifyInv, VTypeOK, ValidRequest, IsRow
<1>4. ReadInv' /\ ReportInv'
  BY <1>1, <1>2 DEF VerifyInv, ReadInv, ReportInv
<1>5. SeenBatchesInv'
  <2>1. PICK L : L = Len(archiveBatches)
    OBVIOUS
  <2>2. L \in Nat /\ DOMAIN archiveBatches = 1 .. L
    BY <2>1, LenProperties DEF StoreInv, TypeOK, TableTypes
  <2>3. PICK k \in 0 .. L :
          vBatches' = {[batch_no  |-> n,
                        start_seq |-> archiveBatches[n].start_seq,
                        end_seq   |-> archiveBatches[n].end_seq,
                        head_hash |-> archiveBatches[n].head_hash,
                        linked    |-> TRUE] : n \in L - k + 1 .. L}
    BY <2>1 DEF ReadBatches
  <2>4. L - k + 1 .. L \subseteq 1 .. L
    BY <2>2
  <2>5. ASSUME NEW b \in vBatches'
        PROVE  /\ b.batch_no \in DOMAIN archiveBatches
               /\ b.start_seq = archiveBatches[b.batch_no].start_seq
               /\ b.end_seq = archiveBatches[b.batch_no].end_seq
               /\ b.head_hash = archiveBatches[b.batch_no].head_hash
    <3>1. PICK n \in L - k + 1 .. L :
            b = [batch_no  |-> n,
                 start_seq |-> archiveBatches[n].start_seq,
                 end_seq   |-> archiveBatches[n].end_seq,
                 head_hash |-> archiveBatches[n].head_hash,
                 linked    |-> TRUE]
      BY <2>3, <2>5
    <3>. QED
      BY <2>2, <2>4, <3>1
  <2>. QED
    BY <1>2, <2>5 DEF SeenBatchesInv
<1>6. StoredInv'
  BY <1>1, <1>2 DEF VerifyInv, StoredInv, SeqUnique
<1>. QED
  BY <1>3, <1>4, <1>5, <1>6 DEF VerifyInv

\* What a verification that is idle again holds.
LEMMA IdleAgain ==
  ASSUME VIdle,
         lastVerify' \in {"none", "ok", "link_broken", "hash_mismatch",
                          "head_mismatch"},
         StoredInv'
  PROVE  VerifyInv'
<1>1. /\ vpc' = "idle" /\ vEntries' = << >> /\ vBatches' = {}
      /\ vreq' = Request("full", 0, 0, 0)
  BY DEF VIdle
<1>2. ValidRequest(Request("full", 0, 0, 0))
  BY DEF ValidRequest, Request, Modes
<1>3. VTypeOK'
  BY <1>1, <1>2 DEF VTypeOK, ValidRequest
<1>. QED
  BY <1>1, <1>3 DEF VerifyInv, ReadInv, ReportInv, SeenBatchesInv

\* The report that is stored, and the one the client gets, are of the rows
\* that were read: what forked the log since does not make them wrong.
LEMMA ReportIntact ==
  ASSUME StoreInv, VerifyInv, SeqUnique, vpc \in {"head", "checked"}
  PROVE  vReport.status \in {"ok", "head_mismatch"}
<1>1. IntactRead(vEntries)
  BY ReadIsIntact
<1>2. vReport = Verify(vEntries, vHead.hash, vreq)
  BY DEF VerifyInv, ReportInv
<1>. QED
  BY <1>1, <1>2, VerifyIntact

LEMMA StoreReportStep ==
  ASSUME StoreInv, VerifyInv, StoreReport
  PROVE  VerifyInv'
<1>1. vpc = "checked" /\ lastVerify' = vReport.status /\ VIdle /\ UNCHANGED vars
  BY DEF StoreReport
<1>2. AllEntries' = AllEntries
  BY <1>1 DEF vars, AllEntries, ArchivedRows
<1>3. vReport.status \in {"ok", "link_broken", "hash_mismatch", "head_mismatch"}
  BY <1>1, VerifyStatus DEF VerifyInv, ReportInv
<1>4. StoredInv'
  BY <1>1, <1>2, ReportIntact DEF StoredInv, SeqUnique
<1>. QED
  BY <1>1, <1>3, <1>4, IdleAgain

LEMMA VerifyStepInv ==
  ASSUME StoreInv, VerifyInv, up => auditEntries # {}, VerifyStep
  PROVE  VerifyInv'
<1>1. ASSUME NEW req \in VerifyRequests, ReadEntries(req)
      PROVE  VerifyInv'
  <2>1. auditEntries # {}
    BY <1>1 DEF ReadEntries
  <2>. QED
    BY <1>1, <2>1, ReadEntriesStep
<1>2. CASE VerifyFail
  <2>1. VIdle /\ UNCHANGED << vars, lastVerify >>
    BY <1>2 DEF VerifyFail
  <2>2. AllEntries' = AllEntries
    BY <2>1 DEF vars, AllEntries, ArchivedRows
  <2>. QED
    BY <2>1, <2>2, IdleAgain DEF VerifyInv, VTypeOK, StoredInv, SeqUnique
<1>. QED
  BY <1>1, <1>2, ReadHeadStep, ReadBatchesStep, StoreReportStep DEF VerifyStep

-----------------------------------------------------------------------------
(* The store's steps                                                       *)

\* Whatever the store does, what a verification in progress holds stays true.
LEMMA StoreStepKeeps ==
  ASSUME StoreInv, [Next]_vars, VerifyInv, UNCHANGED vvars
  PROVE  VerifyInv'
<1>1. /\ UNCHANGED << vpc, vreq, vEntries, vHead, vReport, vBatches, lastVerify >>
      /\ AllEntries \subseteq AllEntries'
  BY RowsStay DEF vvars, vlocals
<1>2. VTypeOK'
  BY <1>1 DEF VerifyInv, VTypeOK, ValidRequest, IsRow
<1>3. ReadInv'
  <2>1. vEntries \in Seq(AllEntries) => vEntries \in Seq(AllEntries')
    BY <1>1, SeqMonotonic
  <2>. QED
    BY <1>1, <2>1 DEF VerifyInv, ReadInv
<1>4. ReportInv'
  BY <1>1 DEF VerifyInv, ReportInv
<1>5. SeenBatchesInv'
  BY <1>1, BatchesStay DEF VerifyInv, SeenBatchesInv
<1>6. StoredInv'
  BY <1>1 DEF VerifyInv, StoredInv, SeqUnique
<1>. QED
  BY <1>2, <1>3, <1>4, <1>5, <1>6 DEF VerifyInv

-----------------------------------------------------------------------------
(* The tables and the file                                                 *)

\* Rows, manifests and links are the same thing in the file.
LEMMA DiskRows ==
  /\ \A e : OnDisk!IsRow(e) <=> IsRow(e)
  /\ \A b : OnDisk!IsManifest(b) <=> IsManifest(b)
  /\ \A e, p : OnDisk!Follows(e, p) <=> Follows(e, p)
  /\ \A e : OnDisk!IsGenesis(e) <=> IsGenesis(e)
  /\ OnDisk!ZeroHash = ZeroHash
  /\ \A S : OnDisk!IsFiniteSet(S) <=> IsFiniteSet(S)
<1>1. \A S : OnDisk!IsFiniteSet(S) <=> IsFiniteSet(S)
  BY DEF IsFiniteSet, OnDisk!IsFiniteSet
<1>. QED
  BY <1>1
  DEF IsRow, OnDisk!IsRow, HashOK, OnDisk!HashOK, HashEntry,
      OnDisk!HashEntry, IsManifest, OnDisk!IsManifest, Follows,
      OnDisk!Follows, IsGenesis, OnDisk!IsGenesis, ZeroHash, OnDisk!ZeroHash

\* Recovery brings back a store that is as sound as the file.
LEMMA Restored ==
  ASSUME OnDisk!TableInv, Restore
  PROVE  /\ TableInv'
         /\ AllEntries' = OnDisk!AllEntries
         /\ SeqUnique' <=> OnDisk!SeqUnique
<1>1. /\ auditEntries' = disk[1] /\ archiveEntries' = disk[2]
      /\ archiveBatches' = disk[3] /\ lastId' = disk[4]
  BY DEF Restore
<1>2. /\ ArchivedRows' = OnDisk!ArchivedRows
      /\ AllEntries' = OnDisk!AllEntries
      /\ Manifests' = OnDisk!Manifests
      /\ ArchivedUpTo' = OnDisk!ArchivedUpTo
  BY <1>1 DEF ArchivedRows, OnDisk!ArchivedRows, AllEntries, OnDisk!AllEntries,
              Manifests, OnDisk!Manifests, ArchivedUpTo, OnDisk!ArchivedUpTo
<1>3. TableTypes'
  BY <1>1, <1>2, DiskRows DEF OnDisk!TableInv, TableTypes, OnDisk!TableTypes
<1>4. ActiveInv'
  BY <1>1, <1>2, DiskRows DEF OnDisk!TableInv, ActiveInv, OnDisk!ActiveInv,
                              IsHead, OnDisk!IsHead
<1>5. ArchiveInv'
  BY <1>1, <1>2, DiskRows DEF OnDisk!TableInv, ArchiveInv, OnDisk!ArchiveInv
<1>6. BatchInv'
  BY <1>1, DiskRows
  DEF OnDisk!TableInv, BatchInv, OnDisk!BatchInv, BatchesLinked,
      OnDisk!BatchesLinked, BatchRows, OnDisk!BatchRows
<1>7. LogInv'
  BY <1>1, <1>2, DiskRows DEF OnDisk!TableInv, LogInv, OnDisk!LogInv, IdUnique,
                              OnDisk!IdUnique
<1>8. SeqUnique' <=> OnDisk!SeqUnique
  BY <1>2 DEF SeqUnique, OnDisk!SeqUnique
<1>. QED
  BY <1>2, <1>3, <1>4, <1>5, <1>6, <1>7, <1>8 DEF TableInv

\* The file is as sound as the store that is written to it.
LEMMA Persisted ==
  TableInv /\ disk = database
    => /\ OnDisk!TableInv
       /\ OnDisk!AllEntries = AllEntries
       /\ OnDisk!SeqUnique <=> SeqUnique
<1>. SUFFICES ASSUME TableInv, disk = database
              PROVE  /\ OnDisk!TableInv
                     /\ OnDisk!AllEntries = AllEntries
                     /\ OnDisk!SeqUnique <=> SeqUnique
  OBVIOUS
<1>1. /\ disk[1] = auditEntries /\ disk[2] = archiveEntries
      /\ disk[3] = archiveBatches /\ disk[4] = lastId
  BY DEF database
<1>2. /\ OnDisk!ArchivedRows = ArchivedRows
      /\ OnDisk!AllEntries = AllEntries
      /\ OnDisk!Manifests = Manifests
      /\ OnDisk!ArchivedUpTo = ArchivedUpTo
  BY <1>1 DEF ArchivedRows, OnDisk!ArchivedRows, AllEntries, OnDisk!AllEntries,
              Manifests, OnDisk!Manifests, ArchivedUpTo, OnDisk!ArchivedUpTo
<1>3. OnDisk!TableTypes
  BY <1>1, <1>2, DiskRows DEF TableInv, TableTypes, OnDisk!TableTypes
<1>4. OnDisk!ActiveInv
  BY <1>1, <1>2, DiskRows DEF TableInv, ActiveInv, OnDisk!ActiveInv, IsHead,
                              OnDisk!IsHead
<1>5. OnDisk!ArchiveInv
  BY <1>1, <1>2, DiskRows DEF TableInv, ArchiveInv, OnDisk!ArchiveInv
<1>6. OnDisk!BatchInv
  BY <1>1, DiskRows
  DEF TableInv, BatchInv, OnDisk!BatchInv, BatchesLinked,
      OnDisk!BatchesLinked, BatchRows, OnDisk!BatchRows
<1>7. OnDisk!LogInv
  BY <1>1, <1>2, DiskRows DEF TableInv, LogInv, OnDisk!LogInv, IdUnique,
                              OnDisk!IdUnique
<1>8. OnDisk!SeqUnique <=> SeqUnique
  BY <1>2 DEF SeqUnique, OnDisk!SeqUnique
<1>. QED
  BY <1>2, <1>3, <1>4, <1>5, <1>6, <1>7, <1>8 DEF OnDisk!TableInv

\* A step that does not write the file.
LEMMA DiskUnchanged ==
  ASSUME OnDisk!TableInv, UNCHANGED disk
  PROVE  /\ OnDisk!TableInv'
         /\ OnDisk!AllEntries' = OnDisk!AllEntries
         /\ OnDisk!SeqUnique' <=> OnDisk!SeqUnique
<1>1. /\ OnDisk!ArchivedRows' = OnDisk!ArchivedRows
      /\ OnDisk!AllEntries' = OnDisk!AllEntries
      /\ OnDisk!Manifests' = OnDisk!Manifests
      /\ OnDisk!ArchivedUpTo' = OnDisk!ArchivedUpTo
  BY DEF OnDisk!ArchivedRows, OnDisk!AllEntries, OnDisk!Manifests,
         OnDisk!ArchivedUpTo
<1>2. OnDisk!TableTypes' /\ OnDisk!ActiveInv' /\ OnDisk!ArchiveInv'
  BY <1>1, DiskRows DEF OnDisk!TableInv, OnDisk!TableTypes, OnDisk!ActiveInv,
                        OnDisk!ArchiveInv, OnDisk!IsHead
<1>3. OnDisk!BatchInv'
  BY DEF OnDisk!TableInv, OnDisk!BatchInv, OnDisk!BatchesLinked,
         OnDisk!BatchRows
<1>4. OnDisk!LogInv'
  BY <1>1, DiskRows DEF OnDisk!TableInv, OnDisk!LogInv, OnDisk!IdUnique
<1>5. OnDisk!SeqUnique' <=> OnDisk!SeqUnique
  BY <1>1 DEF OnDisk!SeqUnique
<1>. QED
  BY <1>1, <1>2, <1>3, <1>4, <1>5 DEF OnDisk!TableInv

-----------------------------------------------------------------------------
(* The inductive invariant                                                 *)

LEMMA DInitInv == DInit => DInv
<1>. SUFFICES ASSUME DInit PROVE DInv
  OBVIOUS
<1>1. StoreInv
  BY InitInv DEF DInit, VInit
<1>2. AllEntries = {}
  BY DEF DInit, VInit, Init, AllEntries, ArchivedRows
<1>3. VerifyInv
  <2>1. ValidRequest(vreq)
    BY DEF DInit, VInit, ValidRequest, Request, Modes
  <2>. QED
    BY <2>1 DEF DInit, VInit, VerifyInv, VTypeOK, ReadInv, ReportInv,
                SeenBatchesInv, StoredInv
<1>4. IsSchema(NoSchema)
  BY DEF IsSchema, NoSchema, LatestSchema
<1>5. OpenInv
  BY <1>2, <1>4 DEF DInit, VInit, Init, OpenInv, LatestSchema
<1>6. disk = database
  BY DEF DInit, VInit, Init, database
<1>7. DiskInv
  <2>1. OnDisk!TableInv /\ OnDisk!AllEntries = AllEntries
    BY <1>1, <1>6, Persisted DEF StoreInv
  <2>2. lastId = 0 /\ disk[4] = 0 /\ disk[5] = "none" /\ disk[6] = NoSchema
    BY DEF DInit, VInit, Init
  <2>. QED
    BY <1>2, <1>4, <2>1, <2>2 DEF DiskInv
<1>. QED
  BY <1>1, <1>3, <1>5, <1>7 DEF DInv

\* While the file is not written, the log only grows beyond it.
LEMMA FileStays ==
  ASSUME DInv, [Next]_vars, UNCHANGED disk
  PROVE  DiskInv'
<1>1. /\ OnDisk!TableInv'
      /\ OnDisk!AllEntries' = OnDisk!AllEntries
      /\ OnDisk!SeqUnique' <=> OnDisk!SeqUnique
  BY DiskUnchanged DEF DInv, DiskInv
<1>2. /\ AllEntries \subseteq AllEntries'
      /\ \A e \in AllEntries' : e \in AllEntries \/ e.id > lastId
      /\ lastId =< lastId'
  BY RowsStay DEF DInv
<1>3. StoreInv'
  BY NextInv DEF DInv
<1>4. /\ lastId \in Nat /\ lastId' \in Nat /\ disk[4] \in Nat
      /\ \A e \in AllEntries' : e.id \in Nat
  BY <1>3 DEF DInv, DiskInv, StoreInv, TypeOK, TableTypes, IsRow,
              OnDisk!TableInv, OnDisk!TableTypes
<1>5. disk[4] =< lastId /\ OnDisk!AllEntries \subseteq AllEntries
  BY DEF DInv, DiskInv
<1>6. \A e \in AllEntries' : e \in OnDisk!AllEntries \/ e.id > disk[4]
  BY <1>2, <1>4, <1>5 DEF DInv, DiskInv
<1>7. disk[4] =< lastId'
  BY <1>2, <1>4, <1>5
<1>. QED
  BY <1>1, <1>2, <1>5, <1>6, <1>7 DEF DInv, DiskInv, IsSchema

\* Open goes through the schema steps; the tables are not touched.
LEMMA SchemaStep ==
  ASSUME DInv, OpenDatabase \/ Migrate \/ OpenFails
  PROVE  DInv'
<1>1. UNCHANGED << allVars, disk >>
  BY DEF OpenDatabase, Migrate, OpenFails
<1>2. UNCHANGED vars /\ UNCHANGED vvars
  BY <1>1 DEF allVars
<1>3. StoreInv' /\ VerifyInv' /\ DiskInv'
  BY <1>1, <1>2, NextInv, StoreStepKeeps, FileStays DEF DInv
<1>4. UNCHANGED << up, auditEntries, AllEntries >>
  BY <1>2 DEF vars, AllEntries, ArchivedRows
<1>5. /\ IsSchema(schema) /\ schema.version \in 0 .. 3
      /\ opening \in 0 .. 4
      /\ opening # 0 => ~up /\ schema # NoSchema /\ opening = schema.version + 1
      /\ up => schema.version = 3 /\ auditEntries # {}
      /\ AllEntries # {} => schema.version = 3
  BY DEF DInv, OpenInv, IsSchema, LatestSchema
<1>6. CASE OpenDatabase
  <2>1. PICK v \in 0 .. 3 : v = schema.version
    BY <1>5
  <2>2. schema.made = IF schema = NoSchema THEN {} ELSE 0 .. v
    BY <1>5, <2>1 DEF IsSchema
  <2>3. schema = NoSchema => v = 0
    BY <2>1 DEF NoSchema
  <2>4. schema.made \cup {0} = 0 .. v
    BY <2>2, <2>3
  <2>5. schema' = [version |-> v, made |-> 0 .. v] /\ opening' = v + 1
    BY <1>5, <1>6, <2>1, <2>4 DEF OpenDatabase, IsSchema
  <2>6. schema' # NoSchema
    BY <2>5 DEF NoSchema
  <2>7. IsSchema(schema')
    BY <2>5, <2>6 DEF IsSchema, LatestSchema
  <2>8. ~up
    BY <1>6 DEF OpenDatabase
  <2>9. OpenInv'
    BY <1>4, <1>5, <2>1, <2>5, <2>6, <2>7, <2>8 DEF OpenInv, LatestSchema
  <2>. QED
    BY <1>3, <2>9 DEF DInv
<1>7. CASE Migrate
  <2>1. PICK v \in 0 .. 2 : v = schema.version /\ opening = v + 1
    BY <1>5, <1>7 DEF Migrate, LatestSchema
  <2>2. ~up /\ schema.made = 0 .. v /\ AllEntries = {}
    BY <1>5, <2>1 DEF IsSchema
  <2>3. schema' = [version |-> v + 1, made |-> 0 .. v + 1] /\ opening' = v + 2
    <3>1. (0 .. v) \cup {v + 1} = 0 .. v + 1
      OBVIOUS
    <3>2. schema.made \cup {v + 1} = 0 .. v + 1
      BY <2>2, <3>1
    <3>3. schema' = [version |-> v + 1, made |-> schema.made \cup {v + 1}]
      BY <1>7, <2>1 DEF Migrate
    <3>4. opening' = v + 2
      BY <1>7, <2>1 DEF Migrate
    <3>. QED
      BY <3>2, <3>3, <3>4
  <2>4. schema' # NoSchema
    BY <2>3 DEF NoSchema
  <2>5. IsSchema(schema')
    BY <2>3, <2>4 DEF IsSchema, LatestSchema
  <2>6. OpenInv'
    BY <1>4, <2>2, <2>3, <2>4, <2>5 DEF OpenInv, LatestSchema
  <2>. QED
    BY <1>3, <2>6 DEF DInv
<1>8. CASE OpenFails
  <2>1. opening' = 0 /\ schema' = schema
    BY <1>8 DEF OpenFails
  <2>2. OpenInv'
    BY <1>4, <1>5, <2>1 DEF OpenInv, LatestSchema, IsSchema
  <2>. QED
    BY <1>3, <2>2 DEF DInv
<1>. QED
  BY <1>6, <1>7, <1>8

\* The server starts on the latest schema, with a chain head.
LEMMA OpenReturnsStep ==
  ASSUME DInv, OpenReturns
  PROVE  DInv'
<1>1. Start /\ opening' = 0 /\ UNCHANGED << vvars, schema, disk >>
  BY DEF OpenReturns
<1>2. Next
  BY <1>1 DEF Next
<1>3. StoreInv' /\ VerifyInv' /\ DiskInv'
  BY <1>1, <1>2, NextInv, StoreStepKeeps, FileStays DEF DInv
<1>4. IsSchema(schema) /\ schema.version = LatestSchema
  BY DEF OpenReturns, DInv, OpenInv, IsSchema, LatestSchema
<1>5. auditEntries' # {}
  BY <1>1 DEF Start
<1>6. OpenInv'
  BY <1>1, <1>4, <1>5 DEF OpenInv, LatestSchema, IsSchema
<1>. QED
  BY <1>3, <1>6 DEF DInv

\* The server runs: requests, batches, verifications, and its end.
LEMMA RunningStep ==
  ASSUME DInv, DStoreStep \/ VerifyStep, UNCHANGED dvars
  PROVE  DInv'
<1>1. UNCHANGED << schema, opening, disk >>
  BY DEF dvars
<1>2. [Next]_vars
  BY DEF DStoreStep, VerifyStep, Next, ReadEntries, ReadHead, ReadBatches,
         StoreReport, VerifyFail
<1>3. StoreInv' /\ DiskInv' /\ AllEntries \subseteq AllEntries'
  BY <1>1, <1>2, NextInv, FileStays, RowsStay DEF DInv
<1>4. up /\ (up' => up)
  BY DEF DStoreStep, VerifyStep, ReadEntries, ReadHead, ReadBatches,
         StoreReport, VerifyFail, Crash, Client, BuildEntry, AppendCommit,
         AppendFail, Reply, LoseReply, Archiver, ArchiveSelect, ArchiveCommit,
         ArchiveAbort
<1>5. VerifyInv'
  <2>1. CASE VerifyStep
    BY <1>4, <2>1, VerifyStepInv DEF DInv, OpenInv
  <2>2. CASE Crash /\ VIdle /\ UNCHANGED lastVerify
    <3>1. AllEntries' = AllEntries
      BY <2>2 DEF Crash, tables, AllEntries, ArchivedRows
    <3>. QED
      BY <2>2, <3>1, IdleAgain
      DEF DInv, VerifyInv, VTypeOK, StoredInv, SeqUnique
  <2>3. CASE UNCHANGED vvars
    BY <1>2, <2>3, StoreStepKeeps DEF DInv
  <2>. QED
    BY <2>1, <2>2, <2>3 DEF DStoreStep
<1>6. OpenInv'
  <2>1. /\ IsSchema(schema) /\ opening = 0 /\ schema.version = LatestSchema
        /\ auditEntries # {}
    BY <1>4 DEF DInv, OpenInv
  <2>2. AllEntries' # {}
    BY <1>3, <2>1 DEF AllEntries
  <2>3. auditEntries' # {}
    <3>1. TableInv'
      BY <1>3 DEF StoreInv
    <3>. QED
      BY <2>2, <3>1 DEF TableInv, ActiveInv, AllEntries, ArchivedRows
  <2>. QED
    BY <1>1, <2>1, <2>3 DEF OpenInv, LatestSchema, IsSchema
<1>. QED
  BY <1>3, <1>5, <1>6 DEF DInv

\* The log file gets to disk.
LEMMA PersistStep ==
  ASSUME DInv, Persist
  PROVE  DInv'
<1>1. disk' = database /\ UNCHANGED << allVars, schema, opening >>
  BY DEF Persist
<1>2. UNCHANGED vars /\ UNCHANGED vvars
  BY <1>1 DEF allVars
<1>3. StoreInv' /\ VerifyInv'
  BY <1>2, NextInv, StoreStepKeeps DEF DInv
<1>4. UNCHANGED << up, auditEntries, AllEntries, lastId, lastVerify, database >>
  BY <1>1, <1>2 DEF vars, vvars, AllEntries, ArchivedRows, database
<1>5. OpenInv'
  BY <1>1, <1>4 DEF DInv, OpenInv, IsSchema
<1>6. DiskInv'
  <2>1. /\ OnDisk!TableInv'
        /\ OnDisk!AllEntries' = AllEntries'
        /\ OnDisk!SeqUnique' <=> SeqUnique'
    <3>1. TableInv' /\ disk' = database'
      BY <1>1, <1>3, <1>4 DEF StoreInv
    <3>2. (TableInv /\ disk = database
             => /\ OnDisk!TableInv
                /\ OnDisk!AllEntries = AllEntries
                /\ OnDisk!SeqUnique <=> SeqUnique)'
      BY Persisted, PTL
    <3>. QED
      BY <3>1, <3>2
  <2>2. /\ disk'[4] = lastId' /\ disk'[5] = lastVerify' /\ disk'[6] = schema'
        /\ lastId' \in Nat
    BY <1>1, <1>3, <1>4 DEF database, StoreInv, TypeOK, TableTypes
  <2>3. /\ VTypeOK' /\ StoredInv'
        /\ IsSchema(schema)'
        /\ (AllEntries # {} => schema.version = LatestSchema)'
    BY <1>3, <1>5 DEF VerifyInv, OpenInv
  <2>. QED
    BY <2>1, <2>2, <2>3 DEF DiskInv, VTypeOK, StoredInv, IsSchema
<1>. QED
  BY <1>3, <1>5, <1>6 DEF DInv

\* The machine stops: the store is what the file is, nothing is in progress.
LEMMA PowerLossStep ==
  ASSUME DInv, PowerLoss
  PROVE  DInv'
<1>1. /\ Restore /\ VIdle /\ UNCHANGED << replied, disk >>
      /\ up' = FALSE /\ opening' = 0 /\ archiveJob' = {}
      /\ pc' = [c \in Clients |-> "idle"]
      /\ pending' = [c \in Clients |-> NoEntry]
  BY DEF PowerLoss
<1>2. /\ lastId' = disk[4] /\ lastVerify' = disk[5] /\ schema' = disk[6]
  BY <1>1 DEF Restore
<1>3. /\ TableInv'
      /\ AllEntries' = OnDisk!AllEntries
      /\ SeqUnique' <=> OnDisk!SeqUnique
  BY <1>1, Restored DEF DInv, DiskInv
<1>4. StoreInv'
  <2>1. TypeOK'
    <3>1. \A e \in (archiveJob \cup replied)' : IsRow(e)
      BY <1>1 DEF DInv, StoreInv, TypeOK
    <3>2. pc' \in [Clients -> {"idle", "built", "stored"}] /\ DOMAIN pending' = Clients
      BY <1>1
    <3>. QED
      BY <1>1, <1>3, <3>1, <3>2 DEF TableInv, TypeOK, IsRow
  <2>2. ClientInv' /\ JobInv'
    BY <1>1 DEF ClientInv, JobInv
  <2>. QED
    BY <1>3, <2>1, <2>2 DEF StoreInv
<1>5. VerifyInv'
  <2>1. StoredInv'
    BY <1>2, <1>3 DEF DInv, DiskInv, StoredInv
  <2>. QED
    BY <1>1, <1>2, <2>1, IdleAgain DEF DInv, DiskInv
<1>6. OpenInv'
  BY <1>1, <1>2, <1>3 DEF DInv, DiskInv, OpenInv, IsSchema, LatestSchema
<1>7. DiskInv'
  <2>1. /\ OnDisk!TableInv'
        /\ OnDisk!AllEntries' = OnDisk!AllEntries
        /\ OnDisk!SeqUnique' <=> OnDisk!SeqUnique
    BY <1>1, DiskUnchanged DEF DInv, DiskInv
  <2>2. lastId' \in Nat
    BY <1>4 DEF StoreInv, TypeOK, TableTypes
  <2>. QED
    BY <1>1, <1>2, <1>3, <2>1, <2>2 DEF DInv, DiskInv, IsSchema
<1>. QED
  BY <1>4, <1>5, <1>6, <1>7 DEF DInv

LEMMA DNextInv == DInv /\ [DNext]_durableVars => DInv'
<1>. SUFFICES ASSUME DInv, [DNext]_durableVars PROVE DInv'
  OBVIOUS
<1>1. CASE UNCHANGED durableVars
  <2>1. /\ UNCHANGED vars /\ UNCHANGED vvars
        /\ UNCHANGED << schema, opening, disk >>
    BY <1>1 DEF durableVars, allVars, dvars
  <2>2. StoreInv' /\ VerifyInv' /\ DiskInv'
    BY <2>1, NextInv, StoreStepKeeps, FileStays DEF DInv
  <2>3. OpenInv'
    BY <2>1 DEF DInv, OpenInv, IsSchema, vars, AllEntries, ArchivedRows
  <2>. QED
    BY <2>2, <2>3 DEF DInv
<1>2. CASE DNext
  BY <1>2, SchemaStep, OpenReturnsStep, RunningStep, PersistStep, PowerLossStep
  DEF DNext
<1>. QED
  BY <1>1, <1>2

-----------------------------------------------------------------------------
(* The theorems                                                            *)

\* The invariant the model checker looks at holds for every instance.
THEOREM DInvariance == DSpec => []DInv
BY DInitInv, DNextInv, PTL DEF DSpec

\* A start that ends anywhere leaves a schema the next start completes, and
\* nothing is served or stored before it is complete.
THEOREM SchemaCorrect == DSpec => []SchemaWhole
<1>1. DInv => SchemaWhole
  BY DEF DInv, OpenInv, IsSchema, SchemaWhole
<1>. QED
  BY <1>1, DInvariance, PTL

\* A power loss takes the newest rows and no others.
THEOREM LossCorrect == DSpec => LossIsTail
<1>1. DInv /\ [DNext]_durableVars
        => [PowerLoss =>
              /\ AllEntries' \subseteq AllEntries
              /\ \A lost \in AllEntries \ AllEntries', left \in AllEntries' :
                   left.id < lost.id]_durableVars
  <2>. SUFFICES ASSUME DInv, PowerLoss
                PROVE  /\ AllEntries' \subseteq AllEntries
                       /\ \A lost \in AllEntries \ AllEntries',
                             left \in AllEntries' : left.id < lost.id
    OBVIOUS
  <2>1. AllEntries' = OnDisk!AllEntries
    BY Restored DEF DInv, DiskInv, PowerLoss
  <2>2. AllEntries' \subseteq AllEntries
    BY <2>1 DEF DInv, DiskInv
  <2>3. disk[4] \in Nat /\ \A e \in AllEntries : e.id \in Nat
    BY DEF DInv, DiskInv, OnDisk!TableInv, OnDisk!TableTypes, StoreInv, TypeOK,
           TableTypes, IsRow
  <2>4. \A left \in AllEntries' : left.id =< disk[4]
    BY <2>1 DEF DInv, DiskInv, OnDisk!TableInv, OnDisk!LogInv
  <2>5. \A lost \in AllEntries \ AllEntries' : lost.id > disk[4]
    BY <2>1 DEF DInv, DiskInv
  <2>. QED
    BY <2>2, <2>3, <2>4, <2>5
<1>. QED
  BY <1>1, DInvariance, PTL DEF DSpec, LossIsTail

\* What a verification holds is well typed.
THEOREM VTypeCorrect == DSpec => []VTypeOK
<1>1. DInv => VTypeOK
  BY DEF DInv, VerifyInv
<1>. QED
  BY <1>1, DInvariance, PTL

\* No interleaving makes an intact log look broken, now or in what is stored.
THEOREM NoFalseBreakCorrect == DSpec => []NoFalseBreak
<1>1. DInv => NoFalseBreak
  BY ReportIntact DEF DInv, VerifyInv, StoredInv, NoFalseBreak
<1>. QED
  BY <1>1, DInvariance, PTL

\* What the report of a verification in progress says of an intact log.
LEMMA ReportOfIntact ==
  ASSUME DInv, SeqUnique, vpc \in {"head", "checked"}
  PROVE  /\ Last(vEntries) \in AllEntries /\ vHead \in AllEntries
         /\ Last(vEntries).seq = Len(vEntries)
         /\ Last(vEntries).seq =< vHead.seq
         /\ vReport.status = "head_mismatch" => Last(vEntries).hash # vHead.hash
         /\ vReport.status = "ok" /\ vreq.mode = "full"
              => /\ Last(vEntries).hash = vHead.hash
                 /\ vReport.checked_entries = Len(vEntries)
                 /\ vReport.end_seq = Len(vEntries)
                 /\ vReport.head_hash = vHead.hash
<1>1. IntactRead(vEntries)
  BY ReadIsIntact DEF DInv
<1>2. vEntries \in Seq(AllEntries) /\ vEntries # << >>
  BY DEF DInv, VerifyInv, ReadInv
<1>3. Last(vEntries) \in AllEntries
  BY <1>2, EmptySeq, LenProperties, ElementOfSeq DEF Last
<1>4. Last(vEntries).seq = Len(vEntries)
  BY <1>1, LastPosition DEF Last
<1>5. /\ vHead \in AllEntries /\ Last(vEntries).seq =< vHead.seq
      /\ vReport = Verify(vEntries, vHead.hash, vreq)
  BY DEF DInv, VerifyInv, ReportInv
<1>. QED
  BY <1>1, <1>3, <1>4, <1>5, VerifyIntact DEF Last

\* "ok" for a full verification of an intact log covers every position up to
\* the head the report names, although log and head are read apart.
THEOREM OkCorrect == DSpec => []OkCoversHead
<1>1. DInv => OkCoversHead
  <2>. SUFFICES ASSUME DInv, SeqUnique, vpc \in {"head", "checked"},
                       vReport.status = "ok", vreq.mode = "full"
                PROVE  /\ vReport.checked_entries = vHead.seq
                       /\ vReport.end_seq = vHead.seq
                       /\ vReport.head_hash = Last(vEntries).hash
    BY DEF OkCoversHead
  <2>1. IsRow(vHead) /\ IsRow(Last(vEntries))
    BY ReportOfIntact DEF DInv, StoreInv, TypeOK, TableTypes
  <2>2. Last(vEntries).seq = vHead.seq
    BY <2>1, ReportOfIntact DEF IsRow, HashOK, HashEntry
  <2>. QED
    BY <2>2, ReportOfIntact
<1>. QED
  BY <1>1, DInvariance, PTL

\* The only cause of a head mismatch in an intact log is that it has grown
\* between the two reads.
THEOREM MismatchCorrect == DSpec => []MismatchMeansGrowth
<1>1. DInv => MismatchMeansGrowth
  <2>. SUFFICES ASSUME DInv, SeqUnique, vpc \in {"head", "checked"},
                       vReport.status = "head_mismatch"
                PROVE  vHead.seq > Last(vEntries).seq
    BY DEF MismatchMeansGrowth
  <2>1. vHead.seq \in Nat /\ Last(vEntries).seq \in Nat
    BY ReportOfIntact DEF DInv, StoreInv, TypeOK, TableTypes, IsRow
  <2>2. vHead.seq # Last(vEntries).seq
    BY ReportOfIntact DEF SeqUnique
  <2>. QED
    BY <2>1, <2>2, ReportOfIntact
<1>. QED
  BY <1>1, DInvariance, PTL

\* "linked" is true of every batch a report lists, although nothing was
\* compared: also of batches archived since the log was read, and in a fork.
THEOREM LinkedCorrect == DSpec => []LinkedBatchesIntact
<1>1. DInv => LinkedBatchesIntact
  <2>. SUFFICES ASSUME DInv, NEW b \in vBatches
                PROVE  /\ {r.seq : r \in BatchRows(b.batch_no)}
                            = b.start_seq .. b.end_seq
                       /\ \A r \in BatchRows(b.batch_no) :
                            /\ r.seq = b.end_seq => r.hash = b.head_hash
                            /\ \/ r.seq = 1
                               \/ \E p \in BatchRows(b.batch_no)
                                           \cup BatchRows(b.batch_no - 1) :
                                    Follows(r, p)
    BY DEF LinkedBatchesIntact
  <2>1. PICK n \in DOMAIN archiveBatches :
          /\ b.batch_no = n
          /\ b.start_seq = archiveBatches[n].start_seq
          /\ b.end_seq = archiveBatches[n].end_seq
          /\ b.head_hash = archiveBatches[n].head_hash
    BY DEF DInv, VerifyInv, SeenBatchesInv
  <2>2. TableInv
    BY DEF DInv, StoreInv
  <2>3. /\ {r.seq : r \in BatchRows(n)}
             = archiveBatches[n].start_seq .. archiveBatches[n].end_seq
        /\ \A r \in BatchRows(n) : r.seq = archiveBatches[n].end_seq
             => r.hash = archiveBatches[n].head_hash
    BY <2>2 DEF TableInv, BatchInv, BatchesLinked
  <2>. QED
    BY <2>1, <2>2, <2>3, SegmentLinked
<1>. QED
  BY <1>1, DInvariance, PTL

=============================================================================
