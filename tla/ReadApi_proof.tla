--------------------------- MODULE ReadApi_proof ---------------------------
(***************************************************************************)
(* Proofs about ReadApi, for any number of handlers, any filters, page     *)
(* sizes and radius: that requests of several queries and walks over       *)
(* several pages deliver what they promise while the log grows and is      *)
(* archived between the queries.                                           *)
(***************************************************************************)
EXTENDS ReadApi, AuditStore_proof

-----------------------------------------------------------------------------
(* Page windows, for every list length, page number and page size          *)

\* The start of a page lies within the list exactly if the page passes the
\* check.
LEMMA StartInList ==
  ASSUME NEW n \in Nat, NEW k \in Nat \ {0}, NEW s \in Nat \ {0}
  PROVE  /\ (k - 1) * s \in Nat
         /\ (k - 1) * s =< n <=> k =< (n \div s) + 1
<1>1. PICK q \in Nat : q = n \div s
  OBVIOUS
<1>2. PICK r \in Nat : n = q * s + r /\ r < s
  <2>1. n % s \in 0 .. s - 1 /\ n = (n \div s) * s + (n % s)
    BY SMTT(30)
  <2>. QED
    BY <2>1, <1>1
<1>3. PICK j \in Nat : j = k - 1
  OBVIOUS
<1>4. j * s \in Nat /\ q * s \in Nat
  BY SMTT(30)
<1>5. CASE j =< q
  <2>1. j * s =< q * s
    BY <1>5, SMTT(30)
  <2>. QED
    BY <1>1, <1>2, <1>3, <1>4, <1>5, <2>1
<1>6. CASE j > q
  <2>1. j * s >= (q + 1) * s
    BY <1>6, SMTT(30)
  <2>2. (q + 1) * s = q * s + s
    BY SMTT(30)
  <2>. QED
    BY <1>1, <1>2, <1>3, <1>4, <1>6, <2>1, <2>2
<1>. QED
  BY <1>5, <1>6

\* A page is what is left of the list at its start, up to its size, or
\* nothing; no intermediate result overflows.
LEMMA WindowExact ==
  ASSUME NEW n \in 0 .. IntMax - SizeCap, NEW p \in Nat \ {0}, NEW s \in Ints,
         NEW k, k = (p - 1) * PageSize(s)
  PROVE  /\ PageSize(s) \in 1 .. SizeCap
         /\ k \in Nat
         /\ Window(n, p, s) =
              IF k > n THEN << 0, 0 >>
              ELSE << k, IF k + PageSize(s) > n THEN n ELSE k + PageSize(s) >>
<1>1. /\ IntMax \in Nat /\ SizeCap \in Nat \ {0}
      /\ PageSize(s) \in 1 .. SizeCap /\ PageNo(p) = p
  BY PagingAssumption DEF PageSize, PageNo, Ints
<1>2. PICK d \in Nat \ {0} : d = PageSize(s)
  BY <1>1
<1>3. n \in Nat /\ k \in Nat /\ (k =< n <=> p =< (n \div d) + 1)
  BY <1>1, <1>2, StartInList
<1>4. n \div d \in Nat
  BY <1>2, <1>3
<1>5. BeyondLast(n, p, s) <=> k > n
  BY <1>1, <1>2, <1>3, <1>4 DEF BeyondLast
<1>6. CASE k > n
  BY <1>1, <1>3, <1>5, <1>6 DEF Window
<1>7. CASE k =< n
  <2>1. Wrap(k) = k /\ Wrap(k + d) = k + d
    BY <1>1, <1>2, <1>3, <1>7 DEF Wrap, Ints
  <2>. QED
    BY <1>1, <1>2, <1>3, <1>5, <1>7, <2>1 DEF Window
<1>. QED
  BY <1>1, <1>3, <1>6, <1>7

\* No page request makes a slice out of bounds, whatever number it carries:
\* neither the offset nor the end of the window overflows.
THEOREM WindowValid ==
  ASSUME NEW n \in 0 .. IntMax - SizeCap, NEW p \in Ints, NEW s \in Ints
  PROVE  /\ ValidSlice(n, Window(n, p, s))
         /\ Window(n, p, s)[2] - Window(n, p, s)[1] =< PageSize(s)
<1>1. PICK q \in Nat \ {0} : q = PageNo(p) /\ q = PageNo(q)
  BY PagingAssumption DEF PageNo, Ints
<1>2. PICK k : k = (q - 1) * PageSize(s)
  OBVIOUS
<1>3. Window(n, p, s) = Window(n, q, s)
  BY <1>1 DEF Window, BeyondLast
<1>4. PICK d \in Nat \ {0} : d = PageSize(s)
  BY <1>2, WindowExact
<1>5. /\ n \in Nat /\ k \in Nat
      /\ Window(n, p, s) = IF k > n THEN << 0, 0 >>
                           ELSE << k, IF k + d > n THEN n ELSE k + d >>
  <2>1. Window(n, q, s) =
          IF k > n THEN << 0, 0 >>
          ELSE << k, IF k + PageSize(s) > n THEN n ELSE k + PageSize(s) >>
    BY <1>2, WindowExact
  <2>2. n \in Nat /\ k \in Nat
    BY <1>2, WindowExact
  <2>. QED
    BY <1>3, <1>4, <2>1, <2>2
<1>. QED
  BY <1>4, <1>5 DEF ValidSlice

\* Where a number falls when it is cut into pages of d.
LEMMA QuotientExact ==
  ASSUME NEW a \in Nat, NEW j \in Nat, NEW d \in Nat \ {0}
  PROVE  a \div d = j <=> j * d =< a /\ a < j * d + d
<1>1. PICK q \in Nat : q = a \div d
  OBVIOUS
<1>2. PICK r \in Nat : a = q * d + r /\ r < d
  <2>1. a % d \in 0 .. d - 1 /\ a = (a \div d) * d + (a % d)
    BY SMTT(30)
  <2>. QED
    BY <2>1, <1>1
<1>3. j * d \in Nat /\ q * d \in Nat
  BY SMTT(30)
<1>4. CASE q = j
  BY <1>1, <1>2, <1>3, <1>4
<1>5. CASE q < j
  <2>1. (q + 1) * d =< j * d
    BY <1>5, SMTT(30)
  <2>2. (q + 1) * d = q * d + d
    BY SMTT(30)
  <2>. QED
    BY <1>1, <1>2, <1>3, <1>5, <2>1, <2>2
<1>6. CASE q > j
  <2>1. (j + 1) * d =< q * d
    BY <1>6, SMTT(30)
  <2>2. (j + 1) * d = j * d + d
    BY SMTT(30)
  <2>. QED
    BY <1>1, <1>2, <1>3, <1>6, <2>1, <2>2
<1>. QED
  BY <1>4, <1>5, <1>6

\* The window holds just the rows that division puts on the page.
LEMMA WindowIsPage ==
  ASSUME NEW n \in 0 .. IntMax - SizeCap, NEW p \in Ints, NEW s \in Ints,
         NEW w, w = Window(n, p, s)
  PROVE  /\ ValidSlice(n, w)
         /\ \A i \in 1 .. n : w[1] < i /\ i =< w[2]
                                <=> (i - 1) \div PageSize(s) = PageNo(p) - 1
<1>1. PICK q \in Nat \ {0} : q = PageNo(p) /\ q = PageNo(q)
  BY PagingAssumption DEF PageNo, Ints
<1>2. PICK k : k = (q - 1) * PageSize(s)
  OBVIOUS
<1>3. PICK d \in Nat \ {0} : d = PageSize(s)
  BY <1>2, WindowExact
<1>4. /\ k \in Nat /\ k = (q - 1) * d
      /\ w = IF k > n THEN << 0, 0 >>
             ELSE << k, IF k + d > n THEN n ELSE k + d >>
  <2>1. Window(n, p, s) = Window(n, q, s)
    BY <1>1 DEF Window, BeyondLast
  <2>2. Window(n, q, s) =
          IF k > n THEN << 0, 0 >>
          ELSE << k, IF k + PageSize(s) > n THEN n ELSE k + PageSize(s) >>
    BY <1>2, WindowExact
  <2>3. k \in Nat
    BY <1>2, WindowExact
  <2>. QED
    BY <1>2, <1>3, <2>1, <2>2, <2>3
<1>5. n \in Nat
  BY PagingAssumption
<1>6. ASSUME NEW i \in 1 .. n
      PROVE  w[1] < i /\ i =< w[2] <=> (i - 1) \div d = q - 1
  <2>1. PICK a \in Nat, j \in Nat : a = i - 1 /\ j = q - 1
    BY <1>5
  <2>2. (a \div d = j) <=> k =< a /\ a < k + d
    <3>1. a \div d = j <=> j * d =< a /\ a < j * d + d
      BY QuotientExact
    <3>2. k = j * d
      BY <1>4, <2>1
    <3>. QED
      BY <3>1, <3>2
  <2>3. w[1] < i /\ i =< w[2] <=> k =< a /\ a < k + d
    BY <1>3, <1>4, <1>5, <2>1
  <2>. QED
    BY <2>1, <2>2, <2>3
<1>7. ValidSlice(n, w)
  BY WindowValid
<1>. QED
  BY <1>1, <1>3, <1>6, <1>7

-----------------------------------------------------------------------------
(* Lists of rows                                                           *)

\* The rows have the positions from lo to hi, one row each.
OneEach(rows, lo, hi) ==
  /\ \A r \in rows : r.seq \in lo .. hi
  /\ \A k \in lo .. hi : \E r \in rows : r.seq = k
  /\ \A r, s \in rows : r.seq = s.seq => r = s

\* They are listed at those positions.
IsRun(rows, lo, hi) == /\ Len(rows) = hi - lo + 1
                       /\ \A i \in DOMAIN rows : rows[i].seq = lo + i - 1

\* Rows with each position of a range once are listed without a hole.
LEMMA Consecutive ==
  ASSUME TableInv, NEW S \in SUBSET AllEntries, NEW oldFirst \in BOOLEAN,
         NEW rows, rows = BySeq(S, oldFirst),
         NEW lo \in Nat \ {0}, NEW hi \in Nat, lo =< hi,
         OneEach(S, lo, hi)
  PROVE  IsRun(rows, lo, hi)
<1>0. /\ \A r \in S : r.seq \in lo .. hi
      /\ \A k \in lo .. hi : \E r \in S : r.seq = k
      /\ \A r, s \in S : r.seq = s.seq => r = s
  BY DEF OneEach
<1>1. PICK N : N = Cardinality(S)
  OBVIOUS
<1>2. N \in Nat /\ DOMAIN rows = 1 .. N /\ Len(rows) = N
  BY <1>1, RanksExact DEF BySeq
<1>3. \A i \in 1 .. N : /\ rows[i] \in S
                        /\ Rank(rows[i], S, oldFirst) = i - 1
  BY <1>1, RanksExact DEF BySeq
<1>4. \A r \in S : r.seq \in Nat \ {0} /\ r.seq \in lo .. hi
  BY <1>0 DEF TableInv, TableTypes, IsRow
<1>5. ASSUME NEW m \in lo .. hi + 1, NEW T, T = {s \in S : s.seq < m}
      PROVE  IsFiniteSet(T) /\ Cardinality(T) = m - lo
  <2>. DEFINE f == [s \in T |-> s.seq]
  <2>1. f \in Injection(T, lo .. m - 1)
    <3>1. f \in [T -> lo .. m - 1]
      BY <1>4, <1>5
    <3>2. \A r, s \in T : f[r] = f[s] => r = s
      BY <1>0, <1>5
    <3>. QED
      BY <3>1, <3>2, Fun_IsInj
  <2>2. f \in Surjection(T, lo .. m - 1)
    <3>1. ASSUME NEW k \in lo .. m - 1
          PROVE  \E r \in T : f[r] = k
      <4>1. k \in lo .. hi /\ k < m
        OBVIOUS
      <4>2. PICK r \in S : r.seq = k
        BY <1>0, <4>1
      <4>. QED
        BY <1>5, <4>1, <4>2
    <3>2. f \in [T -> lo .. m - 1]
      BY <1>4, <1>5
    <3>. QED
      BY <3>1, <3>2, Fun_IsSurj
  <2>3. IsFiniteSet(lo .. m - 1) /\ Cardinality(lo .. m - 1) = m - lo
    <3>1. lo \in Int /\ m - 1 \in Int
      OBVIOUS
    <3>2. /\ IsFiniteSet(lo .. m - 1)
          /\ Cardinality(lo .. m - 1) = IF lo > m - 1 THEN 0 ELSE (m - 1) - lo + 1
      BY <3>1, FS_Interval
    <3>. QED
      BY <3>2
  <2>. QED
    BY <2>1, <2>2, <2>3, FS_Injection
<1>6. N = hi - lo + 1
  <2>1. PICK m : m = hi + 1
    OBVIOUS
  <2>2. S = {s \in S : s.seq < m} /\ m \in lo .. hi + 1 /\ m - lo = hi - lo + 1
    BY <1>4, <2>1
  <2>. QED
    BY <1>1, <1>5, <2>2
<1>7. ASSUME NEW i \in 1 .. N
      PROVE  rows[i].seq = lo + i - 1
  <2>1. PICK r \in S : r = rows[i] /\ Rank(r, S, oldFirst) = i - 1
    BY <1>3
  <2>2. {s \in S : ComesBefore(s, r, oldFirst)} = {s \in S : s.seq < r.seq}
    BY <1>0, <1>4 DEF ComesBefore, TableInv, TableTypes, IsRow
  <2>3. r.seq \in lo .. hi + 1
    BY <1>4
  <2>4. Rank(r, S, oldFirst) = r.seq - lo
    BY <1>5, <2>2, <2>3 DEF Rank
  <2>. QED
    BY <1>4, <2>1, <2>4
<1>. QED
  BY <1>2, <1>6, <1>7 DEF IsRun

-----------------------------------------------------------------------------
(* What a step of the store does to a reader                               *)

\* A running server keeps a head, and positions stay within the bound.
LEMMA StoreGrows ==
  ASSUME StoreInv, HeadInv, BoundInv, Next
  PROVE  /\ StoreInv' /\ HeadInv' /\ BoundInv'
         /\ AllEntries \subseteq AllEntries'
         /\ SeqUnique' => SeqUnique
<1>1. StoreInv' /\ AllEntries \subseteq AllEntries'
  BY NextInv, RowsStay
<1>2. SeqUnique' => SeqUnique
  BY <1>1 DEF SeqUnique
<1>3. HeadInv'
  <2>1. CASE Start
    BY <2>1 DEF Start, HeadInv
  <2>2. CASE up
    <3>1. AllEntries' # {}
      BY <1>1, <2>2 DEF HeadInv, AllEntries
    <3>2. TableInv'
      BY <1>1 DEF StoreInv
    <3>. QED
      BY <3>1, <3>2 DEF HeadInv, TableInv, ActiveInv, AllEntries, ArchivedRows
  <2>3. Start \/ up
    BY DEF Next, Client, Archiver, Crash, BuildEntry, AppendCommit, AppendFail,
           Reply, LoseReply, ArchiveSelect, ArchiveCommit, ArchiveAbort
  <2>. QED
    BY <2>1, <2>2, <2>3
<1>4. BoundInv'
  <2>1. CASE Start
    <3>1. GenesisRow.seq = 1 /\ 1 =< MaxSeq
      BY MaxSeqAssumption DEF GenesisRow, NewEntry
    <3>2. \A e \in AllEntries' : e \in AllEntries \/ e = GenesisRow
      BY <2>1 DEF Start, AllEntries, ArchivedRows
    <3>. QED
      BY <2>1, <3>1, <3>2 DEF Start, BoundInv
  <2>2. ASSUME NEW c \in Clients, NEW b \in Bodies, BuildEntry(c, b)
        PROVE  BoundInv'
    <3>1. PICK h \in auditEntries :
            /\ h.seq < MaxSeq
            /\ pending' = [pending EXCEPT ![c] = NewEntry(h.seq + 1, h.hash, b)]
      BY <2>2 DEF BuildEntry
    <3>2. DOMAIN pending = Clients /\ h.seq \in Nat
      BY DEF StoreInv, TypeOK, TableTypes, IsRow, AllEntries
    <3>3. pending'[c].seq =< MaxSeq /\ \A d \in Clients \ {c} : pending'[d] = pending[d]
      BY <3>1, <3>2, MaxSeqAssumption DEF NewEntry
    <3>4. \A d \in Clients \ {c} : pc'[d] = pc[d]
      BY <2>2 DEF BuildEntry, StoreInv, TypeOK
    <3>5. AllEntries' = AllEntries
      BY <2>2 DEF BuildEntry, tables, AllEntries, ArchivedRows
    <3>. QED
      BY <3>3, <3>4, <3>5 DEF BoundInv
  <2>3. ASSUME NEW c \in Clients, AppendCommit(c)
        PROVE  BoundInv'
    <3>1. PICK p \in AllEntries, b \in Bodies :
            pending[c] = NewEntry(p.seq + 1, p.hash, b)
      BY <2>3 DEF StoreInv, ClientInv, AppendCommit
    <3>2. PICK row : row = [pending[c] EXCEPT !.id = lastId + 1]
      OBVIOUS
    <3>3. row.seq = pending[c].seq /\ pending[c].seq =< MaxSeq
      BY <2>3, <3>1, <3>2 DEF NewEntry, AppendCommit, BoundInv
    <3>4. AllEntries' = AllEntries \cup {row}
      BY <2>3, <3>2 DEF AppendCommit, AllEntries, ArchivedRows
    <3>5. /\ pc'[c] = "stored"
          /\ \A d \in Clients \ {c} : pc'[d] = pc[d] /\ pending'[d] = pending[d]
      BY <2>3 DEF AppendCommit, StoreInv, TypeOK
    <3>. QED
      BY <3>3, <3>4, <3>5 DEF BoundInv
  <2>4. ASSUME NEW c \in Clients, AppendFail(c) \/ Reply(c) \/ LoseReply(c)
        PROVE  BoundInv'
    <3>1. /\ pc'[c] = "idle"
          /\ \A d \in Clients \ {c} : pc'[d] = pc[d] /\ pending'[d] = pending[d]
      BY <2>4 DEF AppendFail, Reply, LoseReply, StoreInv, TypeOK
    <3>2. AllEntries' = AllEntries
      BY <2>4 DEF AppendFail, Reply, LoseReply, tables, AllEntries, ArchivedRows
    <3>. QED
      BY <3>1, <3>2 DEF BoundInv
  <2>5. CASE Crash
    BY <2>5 DEF Crash, tables, AllEntries, ArchivedRows, BoundInv
  <2>6. CASE ArchiveCommit
    BY <2>6, CommittedBatch DEF ArchiveCommit, BoundInv
  <2>7. ASSUME (\E n \in 0 .. Surplus : ArchiveSelect(n)) \/ ArchiveAbort
        PROVE  BoundInv'
    BY <2>7 DEF ArchiveSelect, ArchiveAbort, tables, AllEntries, ArchivedRows,
                BoundInv
  <2>. QED
    BY <2>1, <2>2, <2>3, <2>4, <2>5, <2>6, <2>7 DEF Next, Client, Archiver
<1>. QED
  BY <1>1, <1>2, <1>3, <1>4

\* As long as the log has not forked, new rows have the highest positions.
LEMMA NewOnTop ==
  ASSUME StoreInv, StoreInv', AllEntries \subseteq AllEntries', SeqUnique',
         NEW e \in AllEntries', e \notin AllEntries, NEW x \in AllEntries
  PROVE  x.seq < e.seq
<1>1. x.seq \in Nat \ {0} /\ e.seq \in Nat \ {0}
  <2>1. TableTypes /\ TableTypes'
    BY DEF StoreInv, TypeOK
  <2>. QED
    BY <2>1 DEF TableTypes, IsRow
<1>2. ASSUME e.seq =< x.seq
      PROVE  FALSE
  <2>1. NoGap
    BY NoHole DEF StoreInv
  <2>2. PICK r \in AllEntries : r.seq = e.seq
    BY <1>1, <1>2, <2>1 DEF NoGap
  <2>. QED
    BY <2>2 DEF SeqUnique
<1>. QED
  BY <1>1, <1>2

\* A row that is in the active table was there, or is new.
LEMMA ActiveStays ==
  ASSUME StoreInv, StoreInv', Next, NEW e \in auditEntries', e \in AllEntries
  PROVE  e \in auditEntries
<1>1. auditEntries' \cap ArchivedRows' = {}
  BY DEF StoreInv, TableInv, LogInv, IdUnique
<1>2. ArchivedRows \subseteq ArchivedRows'
  <2>1. CASE ArchiveCommit
    BY <2>1, CommittedBatch
  <2>2. CASE UNCHANGED archiveEntries
    BY <2>2 DEF ArchivedRows
  <2>3. ArchiveCommit \/ UNCHANGED archiveEntries
    BY DEF Next, Client, Archiver, Start, Crash, BuildEntry, AppendCommit,
           AppendFail, Reply, LoseReply, ArchiveSelect, ArchiveAbort, tables
  <2>. QED
    BY <2>1, <2>2, <2>3
<1>. QED
  BY <1>1, <1>2 DEF AllEntries

-----------------------------------------------------------------------------
(* No list is too long to be paged                                         *)

\* A set of archived or of active rows has at most one row per position.
LEMMA OnePerPosition ==
  ASSUME BoundInv, TableInv, NEW S \in SUBSET AllEntries,
         \A r, s \in S : r.seq = s.seq => r = s
  PROVE  IsFiniteSet(S) /\ Cardinality(S) \in Nat /\ Cardinality(S) =< MaxSeq
<1>. DEFINE f == [r \in S |-> r.seq]
<1>1. f \in [S -> 1 .. MaxSeq]
  BY MaxSeqAssumption DEF BoundInv, TableInv, TableTypes, IsRow
<1>2. f \in Injection(S, 1 .. MaxSeq)
  BY <1>1, Fun_IsInj
<1>3. IsFiniteSet(1 .. MaxSeq) /\ Cardinality(1 .. MaxSeq) = MaxSeq
  BY MaxSeqAssumption, FS_Interval
<1>. QED
  BY <1>2, <1>3, FS_Injection, FS_CardinalityType

\* No list of entries is so long that the offset of a page overflows.
LEMMA ListLength ==
  ASSUME BoundInv, TableInv, NEW S \in SUBSET AllEntries
  PROVE  Cardinality(S) \in 0 .. IntMax - SizeCap
<1>1. /\ IsFiniteSet(auditEntries) /\ IsFiniteSet(ArchivedRows)
      /\ Cardinality(auditEntries) \in Nat /\ Cardinality(ArchivedRows) \in Nat
      /\ Cardinality(auditEntries) =< MaxSeq /\ Cardinality(ArchivedRows) =< MaxSeq
  BY OnePerPosition DEF TableInv, ActiveInv, ArchiveInv, AllEntries
<1>2. /\ IsFiniteSet(AllEntries)
      /\ Cardinality(AllEntries) =
           Cardinality(auditEntries) + Cardinality(ArchivedRows)
             - Cardinality(auditEntries \cap ArchivedRows)
  BY <1>1, FS_Union DEF AllEntries
<1>3. Cardinality(auditEntries \cap ArchivedRows) = 0
  BY FS_EmptySet DEF TableInv, LogInv, IdUnique
<1>4. IsFiniteSet(S) /\ Cardinality(S) =< Cardinality(AllEntries)
  BY <1>2, FS_Subset
<1>5. Cardinality(S) \in Nat
  BY <1>4, FS_CardinalityType
<1>. QED
  BY <1>1, <1>2, <1>3, <1>4, <1>5, LengthAssumption, MaxSeqAssumption,
     PagingAssumption

\* Every batch holds a row that is in no other batch.
LEMMA BatchCount ==
  ASSUME BoundInv, TableInv
  PROVE  Len(archiveBatches) \in 0 .. IntMax - SizeCap
<1>1. PICK n \in Nat : n = Len(archiveBatches) /\ DOMAIN archiveBatches = 1 .. n
  BY LenProperties DEF TableInv, TableTypes
<1>2. \A k \in 1 .. n : \E r \in ArchivedRows : r \in BatchRows(k)
  <2>. SUFFICES ASSUME NEW k \in 1 .. n
                PROVE  \E r \in ArchivedRows : r \in BatchRows(k)
    OBVIOUS
  <2>1. PICK b : b = archiveBatches[k]
    OBVIOUS
  <2>2. /\ b.start_seq \in Nat \ {0} /\ b.end_seq \in Nat \ {0}
        /\ b.item_count \in Nat \ {0}
    BY <1>1, <2>1 DEF TableInv, TableTypes, Manifests, IsManifest
  <2>3. /\ b.item_count = b.end_seq - b.start_seq + 1
        /\ {r.seq : r \in BatchRows(k)} = b.start_seq .. b.end_seq
    BY <1>1, <2>1 DEF TableInv, BatchInv, BatchesLinked
  <2>4. b.start_seq \in b.start_seq .. b.end_seq
    BY <2>2, <2>3
  <2>5. PICK r \in BatchRows(k) : r.seq = b.start_seq
    BY <2>3, <2>4
  <2>. QED
    BY <2>5 DEF BatchRows, ArchivedRows
<1>. DEFINE f == [k \in 1 .. n |-> CHOOSE r \in ArchivedRows : r \in BatchRows(k)]
<1>3. \A k \in 1 .. n : f[k] \in ArchivedRows /\ f[k] \in BatchRows(k)
  BY <1>2
<1>4. f \in Injection(1 .. n, ArchivedRows)
  <2>1. f \in [1 .. n -> ArchivedRows]
    BY <1>3
  <2>2. ASSUME NEW j \in 1 .. n, NEW k \in 1 .. n, f[j] = f[k]
        PROVE  j = k
    <3>1. PICK a \in archiveEntries : a.batch_no = j /\ a.row = f[j]
      BY <1>3 DEF BatchRows
    <3>2. PICK b \in archiveEntries : b.batch_no = k /\ b.row = f[j]
      BY <1>3, <2>2 DEF BatchRows
    <3>3. a = b
      BY <3>1, <3>2 DEF TableInv, ArchiveInv
    <3>. QED
      BY <3>1, <3>2, <3>3
  <2>. QED
    BY <2>1, <2>2, Fun_IsInj
<1>5. /\ IsFiniteSet(ArchivedRows) /\ Cardinality(ArchivedRows) \in Nat
      /\ Cardinality(ArchivedRows) =< MaxSeq
  BY OnePerPosition DEF TableInv, ArchiveInv, AllEntries
<1>6. Cardinality(1 .. n) = n
  <2>1. /\ 1 \in Int /\ n \in Int
        /\ n = IF 1 > n THEN 0 ELSE n - 1 + 1
    BY <1>1
  <2>. QED
    BY <2>1, FS_Interval
<1>7. n =< Cardinality(ArchivedRows)
  BY <1>4, <1>5, <1>6, FS_Injection
<1>. QED
  BY <1>1, <1>5, <1>7, LengthAssumption, MaxSeqAssumption, PagingAssumption

-----------------------------------------------------------------------------
(* One page of a walk through entries                                      *)

\* The walk goes on behind everything it has delivered.
LEMMA PageFollows ==
  ASSUME TableInv, SeqUnique, NEW S \in SUBSET AllEntries,
         NEW oldFirst \in BOOLEAN, NEW served, served = BySeq(S, oldFirst),
         NEW items \in Seq(AllEntries),
         Cardinality(Passed(items, S)) =< Len(items),
         NEW i \in DOMAIN served, i > Len(items), NEW j \in DOMAIN items
  PROVE  items[j].seq < served[i].seq
<1>1. PICK n \in Nat : DOMAIN served = 1 .. n /\ IsListing(served, n, S)
  BY ListingExact
<1>2. PICK m \in Nat : m = Len(items) /\ DOMAIN items = 1 .. m
  BY LenProperties
<1>3. /\ \A k \in 1 .. n : served[k] \in S
      /\ \A k, l \in 1 .. n : k < l => /\ served[k] # served[l]
                                       /\ served[k].seq =< served[l].seq
  BY <1>1 DEF IsListing
<1>4. /\ \A r \in AllEntries : r.seq \in Nat
      /\ items[j] \in AllEntries
  BY <1>2, ElementOfSeq DEF TableInv, TableTypes, IsRow
<1>5. ASSUME served[i].seq =< items[j].seq
      PROVE  FALSE
  <2>1. \A k \in 1 .. i : k \in 1 .. n /\ served[k] \in Passed(items, S)
    <3>. SUFFICES ASSUME NEW k \in 1 .. i
                  PROVE  k \in 1 .. n /\ served[k] \in Passed(items, S)
      OBVIOUS
    <3>1. k \in 1 .. n /\ i \in 1 .. n /\ (k = i \/ k < i)
      BY <1>1
    <3>2. served[k].seq =< served[i].seq
      BY <1>3, <1>4, <3>1
    <3>3. served[k].seq =< items[j].seq
      BY <1>3, <1>4, <1>5, <3>1, <3>2
    <3>. QED
      BY <1>2, <1>3, <3>1, <3>3 DEF Passed
  <2>. DEFINE f == [k \in 1 .. i |-> served[k]]
  <2>2. f \in Injection(1 .. i, Passed(items, S))
    <3>1. f \in [1 .. i -> Passed(items, S)]
      BY <2>1
    <3>2. \A k, l \in 1 .. i : f[k] = f[l] => k = l
      BY <1>1, <1>3, <2>1
    <3>. QED
      BY <3>1, <3>2, Fun_IsInj
  <2>3. IsFiniteSet(Passed(items, S)) /\ Cardinality(Passed(items, S)) \in Nat
    BY LogFinite, FS_Subset, FS_CardinalityType DEF Passed
  <2>4. Cardinality(1 .. i) = i
    BY <1>1, FS_Interval
  <2>5. i =< Cardinality(Passed(items, S))
    BY <2>2, <2>3, <2>4, FS_Injection
  <2>. QED
    BY <1>1, <1>2, <2>3, <2>5
<1>. QED
  BY <1>1, <1>3, <1>4, <1>5

\* The positions of the rows increase: no row twice, none out of order.
Increasing(items) ==
  \A i, j \in DOMAIN items : i < j => items[i].seq < items[j].seq

\* page holds the k rows of served behind the first m.
IsPage(page, served, m, k) ==
  /\ Len(page) = k /\ DOMAIN page = 1 .. k
  /\ \A i \in 1 .. k : m + i \in DOMAIN served /\ page[i] = served[m + i]

\* After one more page the walk is still in order, and what it has passed is
\* no more than what it has delivered.
LEMMA PageAdded ==
  ASSUME TableInv, SeqUnique, NEW S \in SUBSET AllEntries,
         NEW oldFirst \in BOOLEAN, NEW served, served = BySeq(S, oldFirst),
         NEW items \in Seq(AllEntries), Increasing(items),
         Cardinality(Passed(items, S)) =< Len(items),
         NEW page \in Seq(AllEntries), NEW k \in Nat,
         IsPage(page, served, Len(items), k),
         NEW all, all = items \o page
  PROVE  /\ all \in Seq(AllEntries) /\ Len(all) = Len(items) + k
         /\ Increasing(all)
         /\ Cardinality(Passed(all, S)) =< Len(all)
<1>1. PICK n \in Nat : DOMAIN served = 1 .. n /\ IsListing(served, n, S)
  BY ListingExact
<1>2. PICK m \in Nat : m = Len(items) /\ DOMAIN items = 1 .. m
  BY LenProperties
<1>3. /\ all \in Seq(AllEntries) /\ Len(all) = m + k
      /\ DOMAIN all = 1 .. m + k
      /\ \A i \in 1 .. m : all[i] = items[i]
      /\ \A i \in m + 1 .. m + k : all[i] = served[i] /\ i \in 1 .. n
  <2>1. /\ all \in Seq(AllEntries) /\ Len(all) = m + k
        /\ \A i \in 1 .. m + k : all[i] = IF i =< m THEN items[i] ELSE page[i - m]
    BY <1>2, ConcatProperties DEF IsPage
  <2>2. DOMAIN all = 1 .. m + k
    <3>1. all \in Seq(AllEntries) /\ Len(all) = m + k
      BY <2>1
    <3>2. DOMAIN all = 1 .. Len(all)
      BY <3>1, LenProperties
    <3>. QED
      BY <3>1, <3>2
  <2>3. ASSUME NEW i \in m + 1 .. m + k
        PROVE  all[i] = served[i] /\ i \in 1 .. n
    <3>1. i - m \in 1 .. k /\ m + (i - m) = i
      OBVIOUS
    <3>2. i \in DOMAIN served /\ page[i - m] = served[i]
      BY <1>2, <3>1 DEF IsPage
    <3>3. i \in 1 .. m + k /\ ~(i =< m)
      BY <1>2
    <3>4. all[i] = page[i - m]
      BY <2>1, <3>3
    <3>. QED
      BY <1>1, <3>1, <3>2, <3>4
  <2>4. \A i \in 1 .. m : i \in 1 .. m + k /\ i =< m
    BY <1>2
  <2>. QED
    BY <2>1, <2>2, <2>3, <2>4
<1>4. \A r \in AllEntries : r.seq \in Nat
  BY DEF TableInv, TableTypes, IsRow
<1>5. \A i \in 1 .. n : served[i] \in S /\ served[i] \in AllEntries
  BY <1>1 DEF IsListing
<1>6. \A i, j \in 1 .. n : i < j => served[i].seq < served[j].seq
  <2>. SUFFICES ASSUME NEW i \in 1 .. n, NEW j \in 1 .. n, i < j
                PROVE  served[i].seq < served[j].seq
    OBVIOUS
  <2>1. served[i] # served[j] /\ served[i].seq =< served[j].seq
    BY <1>1 DEF IsListing
  <2>2. served[i].seq # served[j].seq
    BY <1>5, <2>1 DEF SeqUnique
  <2>3. served[i].seq \in Nat /\ served[j].seq \in Nat
    BY <1>4, <1>5
  <2>. QED
    BY <2>1, <2>2, <2>3
<1>7. \A i \in 1 .. m, j \in m + 1 .. m + k : items[i].seq < served[j].seq
  <2>. SUFFICES ASSUME NEW i \in 1 .. m, NEW j \in m + 1 .. m + k
                PROVE  items[i].seq < served[j].seq
    OBVIOUS
  <2>1. j \in DOMAIN served /\ j > Len(items) /\ i \in DOMAIN items
    BY <1>1, <1>2, <1>3
  <2>. QED
    BY <2>1, PageFollows
<1>8. Increasing(all)
  <2>. SUFFICES ASSUME NEW i \in 1 .. m + k, NEW j \in 1 .. m + k, i < j
                PROVE  all[i].seq < all[j].seq
    BY <1>3 DEF Increasing
  <2>1. CASE j =< m
    <3>1. i \in 1 .. m /\ j \in 1 .. m
      BY <2>1
    <3>. QED
      BY <1>2, <1>3, <3>1 DEF Increasing
  <2>2. CASE i =< m /\ j > m
    <3>1. i \in 1 .. m /\ j \in m + 1 .. m + k
      BY <2>2
    <3>. QED
      BY <1>3, <1>7, <3>1
  <2>3. CASE i > m
    <3>1. i \in m + 1 .. m + k /\ j \in m + 1 .. m + k
      BY <2>3
    <3>2. i \in 1 .. n /\ j \in 1 .. n /\ all[i] = served[i] /\ all[j] = served[j]
      BY <1>3, <3>1
    <3>. QED
      BY <1>6, <3>2
  <2>4. j =< m \/ (i =< m /\ j > m) \/ i > m
    OBVIOUS
  <2>. QED
    BY <2>1, <2>2, <2>3, <2>4
<1>9. Cardinality(Passed(all, S)) =< m + k
  <2>1. CASE k = 0
    <3>1. Passed(all, S) \subseteq Passed(items, S)
      BY <1>2, <1>3, <2>1 DEF Passed
    <3>2. IsFiniteSet(Passed(items, S))
      BY LogFinite, FS_Subset DEF Passed
    <3>3. Cardinality(Passed(all, S)) =< Cardinality(Passed(items, S))
      BY <3>1, <3>2, FS_Subset
    <3>4. /\ Cardinality(Passed(items, S)) \in Nat
          /\ Cardinality(Passed(all, S)) \in Nat
      BY <3>1, <3>2, FS_Subset, FS_CardinalityType
    <3>5. Cardinality(Passed(items, S)) =< m + k
      BY <1>2, <2>1
    <3>. QED
      BY <3>3, <3>4, <3>5
  <2>2. CASE k # 0
    <3>1. m + k \in m + 1 .. m + k /\ m + k \in 1 .. n
      BY <1>3, <2>2
    <3>2. ASSUME NEW e \in Passed(all, S)
          PROVE  \E l \in 1 .. m + k : served[l] = e
      <4>1. PICK j \in 1 .. m + k : e.seq =< all[j].seq
        BY <1>3 DEF Passed
      <4>2. PICK l \in 1 .. n : served[l] = e
        BY <1>1 DEF Passed, IsListing
      <4>3. all[j].seq =< served[m + k].seq /\ all[j] \in AllEntries
        <5>1. CASE j =< m
          <6>1. j \in 1 .. m /\ items[j] \in AllEntries
            BY <1>2, <5>1, ElementOfSeq
          <6>2. items[j].seq < served[m + k].seq /\ all[j] = items[j]
            BY <1>3, <1>7, <3>1, <6>1
          <6>3. items[j].seq \in Nat /\ served[m + k].seq \in Nat
            BY <1>4, <1>5, <3>1, <6>1
          <6>. QED
            BY <6>1, <6>2, <6>3
        <5>2. CASE j > m
          <6>1. j \in m + 1 .. m + k /\ (j = m + k \/ j < m + k)
            BY <5>2
          <6>2. j \in 1 .. n /\ all[j] = served[j]
            BY <1>3, <6>1
          <6>3. served[j].seq \in Nat /\ served[m + k].seq \in Nat
            BY <1>4, <1>5, <3>1, <6>2
          <6>4. j < m + k => served[j].seq < served[m + k].seq
            BY <1>6, <3>1, <6>2
          <6>5. served[j].seq =< served[m + k].seq
            BY <6>1, <6>3, <6>4
          <6>. QED
            BY <1>5, <6>2, <6>5
        <5>3. j =< m \/ j > m
          OBVIOUS
        <5>. QED
          BY <5>1, <5>2, <5>3
      <4>4. ~(l > m + k)
        <5>1. l > m + k => served[m + k].seq < served[l].seq
          BY <1>6, <3>1
        <5>2. /\ served[m + k].seq \in Nat /\ served[l].seq \in Nat
              /\ all[j].seq \in Nat
          BY <1>4, <1>5, <3>1, <4>3
        <5>3. e.seq =< all[j].seq /\ e.seq = served[l].seq
          BY <4>1, <4>2
        <5>4. all[j].seq =< served[m + k].seq
          BY <4>3
        <5>5. PICK x \in Nat, y \in Nat, z \in Nat :
                /\ x = served[m + k].seq /\ y = served[l].seq
                /\ z = all[j].seq
          BY <5>2
        <5>6. y =< z /\ z =< x
          BY <5>3, <5>4, <5>5
        <5>7. ~(x < y)
          BY <5>6
        <5>. QED
          BY <5>1, <5>5, <5>7
      <4>5. l \in 1 .. m + k
        BY <1>2, <4>4
      <4>. QED
        BY <4>2, <4>5
    <3>. DEFINE f == [l \in 1 .. m + k |-> served[l]]
                T == {served[l] : l \in 1 .. m + k}
    <3>3. f \in Surjection(1 .. m + k, T)
      BY Fun_IsSurj
    <3>4. IsFiniteSet(1 .. m + k) /\ Cardinality(1 .. m + k) = m + k
      <4>1. 1 \in Int /\ m + k \in Int /\ ~(1 > m + k) /\ (m + k) - 1 + 1 = m + k
        BY <1>2, <2>2
      <4>. QED
        BY <4>1, FS_Interval
    <3>5. IsFiniteSet(T) /\ Cardinality(T) =< m + k
      BY <3>3, <3>4, FS_Surjection
    <3>6. Passed(all, S) \subseteq T
      BY <3>2
    <3>7. /\ Cardinality(Passed(all, S)) =< Cardinality(T)
          /\ IsFiniteSet(Passed(all, S))
      BY <3>5, <3>6, FS_Subset
    <3>8. Cardinality(Passed(all, S)) \in Nat /\ Cardinality(T) \in Nat
      BY <3>5, <3>7, FS_CardinalityType
    <3>. QED
      BY <3>5, <3>7, <3>8
  <2>. QED
    BY <2>1, <2>2
<1>. QED
  BY <1>2, <1>3, <1>8, <1>9

\* The elements of two sequences in a row.
LEMMA ToSetOfBoth ==
  ASSUME NEW T, NEW items \in Seq(T), NEW page \in Seq(T),
         NEW all, all = items \o page
  PROVE  ToSet(all) = ToSet(items) \cup ToSet(page)
<1>1. PICK m \in Nat, k \in Nat :
        /\ m = Len(items) /\ DOMAIN items = 1 .. m
        /\ k = Len(page) /\ DOMAIN page = 1 .. k
  BY LenProperties
<1>2. /\ all \in Seq(T) /\ Len(all) = m + k
      /\ \A i \in 1 .. m + k : all[i] = IF i =< m THEN items[i] ELSE page[i - m]
  BY <1>1, ConcatProperties
<1>3. DOMAIN all = 1 .. m + k
  <2>1. DOMAIN all = 1 .. Len(all)
    BY <1>2, LenProperties
  <2>. QED
    BY <1>2, <2>1
<1>4. \A i \in 1 .. m : i \in 1 .. m + k /\ all[i] = items[i]
  BY <1>2
<1>5. \A i \in 1 .. k : m + i \in 1 .. m + k /\ all[m + i] = page[i]
  <2>. SUFFICES ASSUME NEW i \in 1 .. k
                PROVE  m + i \in 1 .. m + k /\ all[m + i] = page[i]
    OBVIOUS
  <2>1. m + i \in 1 .. m + k /\ ~(m + i =< m) /\ (m + i) - m = i
    OBVIOUS
  <2>. QED
    BY <1>2, <2>1
<1>6. \A i \in 1 .. m + k : i \in 1 .. m \/ \E j \in 1 .. k : i = m + j
  <2>. SUFFICES ASSUME NEW i \in 1 .. m + k, i \notin 1 .. m
                PROVE  \E j \in 1 .. k : i = m + j
    OBVIOUS
  <2>1. i - m \in 1 .. k /\ i = m + (i - m)
    OBVIOUS
  <2>. QED
    BY <2>1
<1>7. /\ ToSet(items) = {items[i] : i \in 1 .. m}
      /\ ToSet(page) = {page[i] : i \in 1 .. k}
      /\ ToSet(all) = {all[i] : i \in 1 .. m + k}
  BY <1>1, <1>3 DEF ToSet
<1>8. ToSet(all) \subseteq ToSet(items) \cup ToSet(page)
  <2>. SUFFICES ASSUME NEW i \in 1 .. m + k
                PROVE  all[i] \in ToSet(items) \cup ToSet(page)
    BY <1>7
  <2>1. CASE i \in 1 .. m
    BY <1>4, <1>7, <2>1
  <2>2. CASE \E j \in 1 .. k : i = m + j
    BY <1>5, <1>7, <2>2
  <2>. QED
    BY <1>6, <2>1, <2>2
<1>9. ToSet(items) \subseteq ToSet(all)
  BY <1>4, <1>7
<1>10. ToSet(page) \subseteq ToSet(all)
  BY <1>5, <1>7
<1>. QED
  BY <1>8, <1>9, <1>10

\* A slice of a list.
LEMMA CutExact ==
  ASSUME NEW T, NEW served \in Seq(T), NEW m \in Nat, NEW k \in Nat,
         m + k =< Len(served),
         NEW page, page = SubSeq(served, m + 1, m + k)
  PROVE  page \in Seq(T) /\ IsPage(page, served, m, k)
<1>1. PICK n \in Nat : n = Len(served) /\ DOMAIN served = 1 .. n /\ m + k =< n
  BY LenProperties
<1>2. PICK a \in Nat, b \in Nat : a = m + 1 /\ b = m + k
  OBVIOUS
<1>3. /\ page \in Seq(T)
      /\ Len(page) = IF a =< b THEN b - a + 1 ELSE 0
      /\ \A i \in 1 .. b - a + 1 : page[i] = served[a + i - 1]
  <2>1. \A i \in a .. b : served[i] \in T
    <3>1. \A i \in a .. b : i \in 1 .. n
      BY <1>1, <1>2
    <3>. QED
      BY <1>1, <3>1, ElementOfSeq
  <2>2. page = SubSeq(served, a, b)
    BY <1>2
  <2>. QED
    BY <2>1, <2>2, SubSeqProperties
<1>4. Len(page) = k /\ b - a + 1 = k
  BY <1>2, <1>3
<1>5. DOMAIN page = 1 .. k
  <2>1. DOMAIN page = 1 .. Len(page)
    BY <1>3, LenProperties
  <2>. QED
    BY <1>4, <2>1
<1>6. \A i \in 1 .. k : m + i \in 1 .. n /\ page[i] = served[m + i]
  <2>. SUFFICES ASSUME NEW i \in 1 .. k
                PROVE  m + i \in 1 .. n /\ page[i] = served[m + i]
    OBVIOUS
  <2>1. m + i \in 1 .. n
    BY <1>1
  <2>2. a + i - 1 = m + i /\ i \in 1 .. b - a + 1
    BY <1>2, <1>4
  <2>. QED
    BY <1>3, <2>1, <2>2
<1>. QED
  BY <1>1, <1>3, <1>4, <1>5, <1>6 DEF IsPage

\* A page ends at its size or at the end of the list.
LEMMA RestOfList ==
  \A n, m, d, e \in Nat :
    m =< n /\ e = (IF m + d > n THEN n - m ELSE d) =>
      e =< d /\ (e # d => n =< m + e) /\ m + e =< n
OBVIOUS

\* The k rows that are cut out of a list as one page of a walk: they are the
\* ones behind the pages before it, and a page that is not full is the last.
LEMMA PageCut ==
  ASSUME NEW T, NEW served \in Seq(T), NEW n, n = Len(served),
         n \in 0 .. IntMax - SizeCap,
         NEW p \in Nat \ {0}, NEW s \in Ints,
         NEW m, m = (p - 1) * PageSize(s),
         NEW w, w = Window(n, p, s),
         NEW k \in 0 .. (w[2] - w[1]),
         NEW page, page = SubSeq(served, w[1] + 1, w[1] + k)
  PROVE  /\ m \in Nat /\ w[2] - w[1] \in Nat
         /\ w[2] - w[1] =< PageSize(s)
         /\ PageSize(s) \in Nat \ {0}
         /\ page \in Seq(T)
         /\ IsPage(page, served, m, k)
         /\ w[2] - w[1] # PageSize(s) => n =< m + (w[2] - w[1])
<1>1. PICK d \in Nat \ {0} : d = PageSize(s)
  BY WindowExact
<1>2. /\ m \in Nat /\ n \in Nat
      /\ w = IF m > n THEN << 0, 0 >>
             ELSE << m, IF m + d > n THEN n ELSE m + d >>
  <2>1. /\ m \in Nat
        /\ w = IF m > n THEN << 0, 0 >>
               ELSE << m, IF m + PageSize(s) > n THEN n ELSE m + PageSize(s) >>
    BY WindowExact
  <2>2. n \in Nat
    BY PagingAssumption
  <2>. QED
    BY <1>1, <2>1, <2>2
<1>3. DOMAIN served = 1 .. n
  BY LenProperties
<1>4. CASE m > n
  <2>1. w[1] = 0 /\ w[2] = 0 /\ k = 0
    BY <1>2, <1>4
  <2>2. page = << >>
    BY <2>1, SubSeqEmpty
  <2>3. page \in Seq(T) /\ Len(page) = 0 /\ DOMAIN page = 1 .. 0
    <3>1. page \in Seq(T) /\ Len(page) = 0
      BY <2>2, EmptySeq
    <3>2. DOMAIN page = 1 .. Len(page)
      BY <3>1, LenProperties
    <3>. QED
      BY <3>1, <3>2
  <2>4. IsPage(page, served, m, k)
    BY <2>1, <2>3 DEF IsPage
  <2>. QED
    BY <1>1, <1>2, <1>4, <2>1, <2>3, <2>4
<1>5. CASE m =< n
  <2>1. w[1] = m /\ w[2] = IF m + d > n THEN n ELSE m + d
    BY <1>2, <1>5
  <2>2. PICK e \in Nat : e = w[2] - w[1] /\ e = IF m + d > n THEN n - m ELSE d
    BY <1>2, <1>5, <2>1
  <2>0. n \in Nat /\ m \in Nat /\ d \in Nat /\ e \in Nat
    BY <1>2
  <2>3. /\ e =< d /\ (e # d => n =< m + e)
        /\ k \in Nat /\ k =< e /\ m + k =< n
    <3>1. k \in 0 .. e
      BY <2>2
    <3>2. e =< d /\ (e # d => n =< m + e) /\ m + e =< n
      <4>1. PICK first, rest \in Nat : first = m /\ rest = e
        BY <2>0
      <4>2. first =< n /\ rest = IF first + d > n THEN n - first ELSE d
        BY <1>5, <2>2, <4>1, Zenon
      <4>3. rest =< d /\ (rest # d => n =< first + rest) /\ first + rest =< n
        BY <2>0, <4>1, <4>2, RestOfList
      <4>. QED
        BY <4>1, <4>3, Zenon
    <3>. QED
      BY <1>2, <3>1, <3>2
  <2>4. page = SubSeq(served, m + 1, m + k)
    BY <2>1
  <2>5. page \in Seq(T) /\ IsPage(page, served, m, k)
    BY <1>2, <2>3, <2>4, CutExact
  <2>. QED
    BY <1>1, <1>2, <2>2, <2>3, <2>5
<1>. QED
  BY <1>2, <1>4, <1>5

\* A walk that has delivered, of what comes before its last row, everything
\* has delivered all the rows in front of the list, as many as it has.
LEMMA Delivered ==
  ASSUME TableInv, SeqUnique, NEW S \in SUBSET AllEntries,
         NEW oldFirst \in BOOLEAN, NEW served, served = BySeq(S, oldFirst),
         NEW items \in Seq(S), Increasing(items),
         Passed(items, S) \subseteq ToSet(items),
         NEW i \in DOMAIN served, i =< Len(items)
  PROVE  served[i] \in ToSet(items)
<1>1. PICK n \in Nat : DOMAIN served = 1 .. n /\ IsListing(served, n, S)
  BY ListingExact
<1>2. PICK m \in Nat : m = Len(items) /\ DOMAIN items = 1 .. m
  BY LenProperties
<1>3. \A r \in AllEntries : r.seq \in Nat
  BY DEF TableInv, TableTypes, IsRow
<1>4. i \in 1 .. n /\ i =< m /\ served[i] \in S
  BY <1>1, <1>2 DEF IsListing
<1>5. ASSUME served[i] \notin ToSet(items)
      PROVE  FALSE
  <2>1. \A j \in 1 .. m : items[j] \in S /\ ~(served[i].seq =< items[j].seq)
    BY <1>2, <1>4, <1>5, ElementOfSeq DEF Passed
  <2>2. \A j \in 1 .. m : \E l \in 1 .. i - 1 : served[l] = items[j]
    <3>. SUFFICES ASSUME NEW j \in 1 .. m
                  PROVE  \E l \in 1 .. i - 1 : served[l] = items[j]
      OBVIOUS
    <3>1. PICK l \in 1 .. n : served[l] = items[j]
      BY <1>1, <2>1 DEF IsListing
    <3>2. i =< l => served[i].seq =< served[l].seq
      <4>1. i < l => served[i].seq =< served[l].seq
        BY <1>1, <1>4 DEF IsListing
      <4>2. i = l => served[i].seq =< served[l].seq
        BY <1>3, <1>4
      <4>. QED
        BY <1>4, <4>1, <4>2
    <3>3. l \in 1 .. i - 1
      BY <1>4, <2>1, <3>1, <3>2
    <3>. QED
      BY <3>1, <3>3
  <2>. DEFINE f == [j \in 1 .. m |-> CHOOSE l \in 1 .. i - 1 : served[l] = items[j]]
  <2>3. \A j \in 1 .. m : f[j] \in 1 .. i - 1 /\ served[f[j]] = items[j]
    BY <2>2
  <2>4. f \in Injection(1 .. m, 1 .. i - 1)
    <3>1. f \in [1 .. m -> 1 .. i - 1]
      BY <2>3
    <3>2. \A j, l \in 1 .. m : f[j] = f[l] => j = l
      <4>. SUFFICES ASSUME NEW j \in 1 .. m, NEW l \in 1 .. m, f[j] = f[l]
                    PROVE  j = l
        OBVIOUS
      <4>1. items[j] = items[l]
        BY <2>3
      <4>2. ~(items[j].seq < items[l].seq) /\ ~(items[l].seq < items[j].seq)
        BY <1>3, <2>1, <4>1
      <4>3. ~(j < l) /\ ~(l < j)
        BY <1>2, <4>2 DEF Increasing
      <4>. QED
        BY <4>3
    <3>. QED
      BY <3>1, <3>2, Fun_IsInj
  <2>5. /\ IsFiniteSet(1 .. i - 1) /\ Cardinality(1 .. i - 1) = i - 1
        /\ Cardinality(1 .. m) = m
    <3>1. /\ 1 \in Int /\ i - 1 \in Int /\ m \in Int
          /\ i - 1 = IF 1 > i - 1 THEN 0 ELSE (i - 1) - 1 + 1
          /\ m = IF 1 > m THEN 0 ELSE m - 1 + 1
      BY <1>4
    <3>. QED
      BY <3>1, FS_Interval
  <2>6. m =< i - 1
    BY <2>4, <2>5, FS_Injection
  <2>. QED
    BY <1>4, <2>6
<1>. QED
  BY <1>5

\* So does the walk after one more page; and once a page reaches the end of
\* the list, the walk has delivered all of it.
LEMMA PageDelivers ==
  ASSUME TableInv, SeqUnique, NEW S \in SUBSET AllEntries,
         NEW oldFirst \in BOOLEAN, NEW served, served = BySeq(S, oldFirst),
         NEW items \in Seq(S), Increasing(items),
         Passed(items, S) \subseteq ToSet(items),
         NEW page \in Seq(S), NEW k \in Nat,
         IsPage(page, served, Len(items), k),
         NEW all, all = items \o page
  PROVE  /\ Passed(all, S) \subseteq ToSet(all)
         /\ Len(served) =< Len(items) + k => S \subseteq ToSet(all)
<1>1. PICK n \in Nat : /\ n = Len(served) /\ DOMAIN served = 1 .. n
                       /\ IsListing(served, n, S)
  BY ListingExact
<1>2. PICK m \in Nat : m = Len(items) /\ DOMAIN items = 1 .. m
  BY LenProperties
<1>3. \A r \in AllEntries : r.seq \in Nat
  BY DEF TableInv, TableTypes, IsRow
<1>4. ToSet(all) = ToSet(items) \cup ToSet(page)
  BY ToSetOfBoth
<1>5. \A i \in 1 .. k : /\ m + i \in 1 .. n /\ page[i] = served[m + i]
                        /\ i \in DOMAIN page
  BY <1>1, <1>2 DEF IsPage
<1>6. ASSUME NEW l \in 1 .. n, l =< m + k
      PROVE  served[l] \in ToSet(all)
  <2>1. CASE l =< m
    BY <1>1, <1>2, <1>4, <2>1, Delivered
  <2>2. CASE l > m
    <3>1. l - m \in 1 .. k /\ m + (l - m) = l
      BY <1>6, <2>2
    <3>2. served[l] = page[l - m] /\ l - m \in DOMAIN page
      BY <1>5, <3>1
    <3>. QED
      BY <1>4, <3>2 DEF ToSet
  <2>3. l =< m \/ l > m
    OBVIOUS
  <2>. QED
    BY <2>1, <2>2, <2>3
<1>7. ASSUME NEW e \in Passed(all, S)
      PROVE  e \in ToSet(all)
  <2>1. e \in S /\ \E i \in DOMAIN all : e.seq =< all[i].seq
    BY DEF Passed
  <2>2. PICK x \in ToSet(all) : e.seq =< x.seq
    BY <2>1 DEF ToSet
  <2>3. CASE x \in ToSet(items)
    <3>1. e \in Passed(items, S)
      BY <2>1, <2>2, <2>3 DEF Passed, ToSet
    <3>. QED
      BY <1>4, <3>1
  <2>4. CASE x \in ToSet(page)
    <3>1. PICK i \in 1 .. k : x = page[i]
      BY <2>4 DEF ToSet, IsPage
    <3>2. PICK j \in 1 .. n : j = m + i /\ x = served[j]
      BY <1>5, <3>1
    <3>3. PICK l \in 1 .. n : served[l] = e
      BY <1>1, <2>1 DEF IsListing
    <3>4. served[j] \in AllEntries /\ served[l] \in AllEntries
      BY <1>1 DEF IsListing
    <3>5. j < l => /\ served[j].seq =< served[l].seq
                   /\ served[j].seq # served[l].seq
      BY <1>1, <3>4 DEF IsListing, SeqUnique
    <3>6. served[l].seq =< served[j].seq
      BY <2>2, <3>2, <3>3
    <3>7. served[l].seq \in Nat /\ served[j].seq \in Nat
      BY <1>3, <3>4
    <3>8. ~(j < l)
      BY <3>5, <3>6, <3>7
    <3>9. l =< m + k
      BY <3>2, <3>8
    <3>. QED
      BY <1>6, <3>3, <3>9
  <2>. QED
    BY <1>4, <2>2, <2>3, <2>4
<1>8. ASSUME n =< m + k, NEW e \in S
      PROVE  e \in ToSet(all)
  <2>1. PICK l \in 1 .. n : served[l] = e
    BY <1>1 DEF IsListing
  <2>2. l =< m + k
    BY <1>8
  <2>. QED
    BY <1>6, <2>1, <2>2
<1>. QED
  BY <1>1, <1>2, <1>7, <1>8

-----------------------------------------------------------------------------
(* A step of the store between two reads                                   *)

\* A response that is on its way stays correct.
LEMMA AnswerStays ==
  ASSUME StoreInv, StoreInv', AllEntries \subseteq AllEntries',
         SeqUnique' => SeqUnique, answer' = answer, AnswerInv
  PROVE  AnswerInv'
<1>1. AnswerTyped'
  BY DEF AnswerInv, AnswerTyped
<1>2. StatsConsistent'
  BY DEF AnswerInv, StatsConsistent
<1>3. ContextFound'
  BY DEF AnswerInv, ContextFound
<1>4. ExportExact'
  BY DEF AnswerInv, ExportExact
<1>5. /\ BatchWalkComplete'
      /\ ActiveWalkOrdered'
      /\ PageExact'
  BY DEF AnswerInv, BatchWalkComplete, ActiveWalkOrdered, PageExact, PageSize,
         PageNo, ValidSlice
<1>6. answer.kind = "walk" /\ answer.list = "all" =>
        \E h \in AllEntries : answer.target \in 1 .. h.seq
  BY DEF AnswerInv
<1>7. answer'.kind = "walk" /\ answer'.list = "all" =>
        \E h \in AllEntries' : answer'.target \in 1 .. h.seq
  BY <1>6
<1>8. WalkComplete'
  <2>. SUFFICES ASSUME answer.kind = "walk", answer.list = "all", SeqUnique'
                PROVE  WalkComplete'
    BY DEF WalkComplete
  <2>1. PICK h \in AllEntries : answer.target \in 1 .. h.seq
    BY <1>6
  <2>2. /\ \A e \in AllEntries : e.seq =< answer.target /\ Wanted(e, answer.filter)
                                 => e \in ToSet(answer.items)
        /\ \A i \in DOMAIN answer.items :
             /\ Wanted(answer.items[i], answer.filter)
             /\ i > 1 => answer.items[i - 1].seq < answer.items[i].seq
    BY DEF AnswerInv, WalkComplete
  <2>3. \A e \in AllEntries' : e.seq =< answer.target => e \in AllEntries
    <3>. SUFFICES ASSUME NEW e \in AllEntries', e.seq =< answer.target,
                         e \notin AllEntries
                  PROVE  FALSE
      OBVIOUS
    <3>1. h.seq < e.seq
      BY NewOnTop
    <3>2. h.seq \in Nat /\ e.seq \in Nat
      BY DEF StoreInv, TypeOK, TableTypes, IsRow
    <3>. QED
      BY <2>1, <3>1, <3>2
  <2>. QED
    BY <2>2, <2>3 DEF WalkComplete
<1>. QED
  BY <1>1, <1>2, <1>3, <1>4, <1>5, <1>7, <1>8 DEF AnswerInv

\* Nothing new comes before what a walk has delivered.
LEMMA PassedStays ==
  ASSUME StoreInv, StoreInv', Next, AllEntries \subseteq AllEntries',
         SeqUnique', NEW items \in Seq(AllEntries), NEW list, NEW q,
         NEW S, S = Listed(list, q), NEW T, T = Listed(list, q)'
  PROVE  Passed(items, T) \subseteq Passed(items, S)
<1>. SUFFICES ASSUME NEW e \in T, NEW i \in DOMAIN items, e.seq =< items[i].seq
              PROVE  e \in S
  BY DEF Passed
<1>1. /\ e \in IF list = "active" THEN auditEntries' ELSE AllEntries'
      /\ Wanted(e, q)
  BY DEF Listed, Wanted
<1>2. e \in AllEntries' /\ items[i] \in AllEntries
  BY <1>1, ElementOfSeq, LenProperties DEF AllEntries
<1>3. items[i].seq \in Nat /\ e.seq \in Nat
  BY <1>2 DEF StoreInv, TypeOK, TableTypes, IsRow
<1>4. e \in AllEntries
  BY <1>2, <1>3, NewOnTop
<1>5. e \in IF list = "active" THEN auditEntries ELSE AllEntries
  BY <1>1, <1>4, ActiveStays
<1>. QED
  BY <1>1, <1>5 DEF Listed

\* What a request in progress has read stays good.
LEMMA ReaderStays ==
  ASSUME StoreInv, StoreInv', BoundInv', Next, AllEntries \subseteq AllEntries',
         SeqUnique' => SeqUnique, reader' = reader, ReaderInv
  PROVE  ReaderInv'
<1>1. reader.kind = "stats" =>
        /\ reader.archived \in Nat /\ reader.active \in Nat
        /\ SeqUnique' =>
             \E h \in AllEntries' : reader.archived + reader.active =< h.seq
  BY DEF ReaderInv
<1>2. reader.kind = "context" => reader.center \in AllEntries'
  BY DEF ReaderInv
<1>3. reader.kind = "export" =>
        /\ reader.no \in DOMAIN archiveBatches'
        /\ reader.manifest = archiveBatches'[reader.no]
  BY BatchesStay DEF ReaderInv
<1>4. ASSUME reader.kind = "walk", reader.list = "batches"
      PROVE  IsWalk' /\ BatchWalkInv'
  <2>1. IsWalk /\ BatchWalkInv
    BY <1>4 DEF ReaderInv
  <2>2. IsWalk'
    BY <2>1 DEF IsWalk
  <2>3. PICK n \in Nat, m \in Nat :
          /\ n = Len(archiveBatches) /\ m = Len(archiveBatches')
          /\ DOMAIN archiveBatches = 1 .. n /\ DOMAIN archiveBatches' = 1 .. m
    BY LenProperties DEF StoreInv, TypeOK, TableTypes
  <2>4. n =< m
    <3>1. n \in 1 .. n => n \in 1 .. m
      BY <2>3, BatchesStay
    <3>. QED
      BY <3>1
  <2>5. PICK l \in Nat, t \in Nat : l = Len(reader.items) /\ t = reader.target
    BY <2>1, LenProperties DEF BatchWalkInv, IsWalk
  <2>6. /\ reader.items \in Seq(Nat)
        /\ t =< n /\ l =< n
        /\ \A b \in 1 .. t : b > n - l => b \in ToSet(reader.items)
    BY <2>1, <2>3, <2>5 DEF BatchWalkInv
  <2>7. t =< m /\ l =< m /\ \A b \in 1 .. t : b > m - l => b > n - l
    BY <2>4, <2>6
  <2>8. /\ reader'.items \in Seq(Nat)
        /\ reader'.target =< m /\ Len(reader'.items) =< m
        /\ \A b \in 1 .. reader'.target :
             b > m - Len(reader'.items) => b \in ToSet(reader'.items)
    BY <2>5, <2>6, <2>7
  <2>. QED
    BY <2>2, <2>3, <2>8 DEF BatchWalkInv
<1>5. ASSUME reader.kind = "walk", reader.list # "batches"
      PROVE  IsWalk' /\ EntryWalkInv'
  <2>1. IsWalk /\ EntryWalkInv
    BY <1>5 DEF ReaderInv
  <2>2. IsWalk'
    BY <2>1 DEF IsWalk
  <2>3. PICK items, list, q : /\ items = reader.items /\ list = reader.list
                              /\ q = reader.filter
    OBVIOUS
  <2>4. PICK S, T : S = Listed(list, q) /\ T = Listed(list, q)'
    OBVIOUS
  <2>5. /\ list \in {"all", "active"} /\ items \in Seq(AllEntries)
        /\ \A i \in DOMAIN items : Wanted(items[i], q)
        /\ \E h \in AllEntries : reader.target \in 1 .. h.seq
        /\ SeqUnique =>
             /\ \A i, j \in DOMAIN items : i < j => items[i].seq < items[j].seq
             /\ Cardinality(Passed(items, S)) =< Len(items)
             /\ list = "all" => Passed(items, S) \subseteq ToSet(items)
    BY <2>1, <2>3, <2>4 DEF EntryWalkInv
  <2>6. items \in Seq(AllEntries')
    BY <2>5, SeqMonotonic
  <2>7. ASSUME SeqUnique'
        PROVE  /\ Cardinality(Passed(items, T)) =< Len(items)
               /\ Passed(items, T) \subseteq Passed(items, S)
    <3>1. Passed(items, T) \subseteq Passed(items, S)
      BY <2>4, <2>5, <2>7, PassedStays
    <3>2. TableInv
      BY DEF StoreInv
    <3>3. Passed(items, S) \subseteq AllEntries
      BY <2>4 DEF Passed, Listed, AllEntries
    <3>4. IsFiniteSet(Passed(items, S))
      BY <3>2, <3>3, LogFinite, FS_Subset
    <3>5. /\ Cardinality(Passed(items, T)) =< Cardinality(Passed(items, S))
          /\ IsFiniteSet(Passed(items, T))
      BY <3>1, <3>4, FS_Subset
    <3>6. /\ Cardinality(Passed(items, T)) \in Nat
          /\ Cardinality(Passed(items, S)) \in Nat
          /\ Len(items) \in Nat
      BY <2>5, <3>4, <3>5, FS_CardinalityType, LenProperties
    <3>7. Cardinality(Passed(items, S)) =< Len(items)
      BY <2>5, <2>7
    <3>. QED
      BY <3>1, <3>5, <3>6, <3>7
  <2>8. /\ list \in {"all", "active"} /\ items \in Seq(AllEntries')
        /\ \A i \in DOMAIN items : Wanted(items[i], q)
        /\ \E h \in AllEntries' : reader'.target \in 1 .. h.seq
        /\ SeqUnique' =>
             /\ \A i, j \in DOMAIN items : i < j => items[i].seq < items[j].seq
             /\ Cardinality(Passed(items, T)) =< Len(items)
             /\ list = "all" => Passed(items, T) \subseteq ToSet(items)
    <3>1. /\ list \in {"all", "active"} /\ items \in Seq(AllEntries')
          /\ \A i \in DOMAIN items : Wanted(items[i], q)
      BY <2>5, <2>6
    <3>2. \E h \in AllEntries' : reader'.target \in 1 .. h.seq
      BY <2>5
    <3>3. SeqUnique' =>
            /\ \A i, j \in DOMAIN items : i < j => items[i].seq < items[j].seq
            /\ Cardinality(Passed(items, T)) =< Len(items)
            /\ list = "all" => Passed(items, T) \subseteq ToSet(items)
      BY <2>5, <2>7
    <3>. QED
      BY <3>1, <3>2, <3>3
  <2>9. /\ items = reader'.items /\ list = reader'.list /\ q = reader'.filter
        /\ Passed(items, T) = Passed(reader.items, Listed(reader.list, reader.filter))'
    BY <2>3, <2>4 DEF Passed, Listed, Wanted
  <2>. QED
    BY <2>2, <2>8, <2>9 DEF EntryWalkInv, Wanted
<1>6. /\ reader'.kind \in {"idle", "stats", "statsHead", "context", "export",
                           "walk"}
  BY DEF ReaderInv
<1>7. reader.kind = "statsHead" =>
        /\ reader.stats.kind = "stats"
        /\ ~reader.stats.failed =>
             /\ reader.stats.head_seq > 0
             /\ SeqUnique' => reader.stats.head_seq >= reader.stats.total
  BY DEF ReaderInv
<1>. QED
  BY <1>1, <1>2, <1>3, <1>4, <1>5, <1>6, <1>7 DEF ReaderInv

\* No request at all: nothing to keep.
LEMMA IdleReader ==
  ASSUME reader' = Idle
  PROVE  ReaderInv'
BY DEF Idle, ReaderInv

\* A step of a writer keeps the invariant: what has been read and answered
\* stays true while the log grows and is archived.
LEMMA StoreStepInv ==
  ASSUME RInv, StoreStep
  PROVE  RInv'
<1>1. StoreInv /\ HeadInv /\ BoundInv /\ ReaderInv /\ AnswerInv
  BY DEF RInv
<1>2. Next /\ answer' = answer /\ (reader' = reader \/ reader' = Idle)
  BY DEF StoreStep, Next, rvars
<1>3. /\ StoreInv' /\ HeadInv' /\ BoundInv'
      /\ AllEntries \subseteq AllEntries'
      /\ SeqUnique' => SeqUnique
  BY <1>1, <1>2, StoreGrows
<1>4. AnswerInv'
  BY <1>1, <1>2, <1>3, AnswerStays
<1>5. ReaderInv'
  BY <1>1, <1>2, <1>3, ReaderStays, IdleReader
<1>. QED
  BY <1>3, <1>4, <1>5 DEF RInv

-----------------------------------------------------------------------------
(* The reading steps: they leave the store as it is                        *)

\* What a reading step has to show: that its own reader and answer are fine.
LEMMA ReadOnly ==
  ASSUME RInv, UNCHANGED vars
  PROVE  /\ StoreInv' /\ HeadInv' /\ BoundInv'
         /\ AllEntries' = AllEntries /\ archiveBatches' = archiveBatches
         /\ SeqUnique' <=> SeqUnique
         /\ answer' = answer => AnswerInv'
<1>1. StoreInv /\ HeadInv /\ BoundInv /\ AnswerInv
  BY DEF RInv
<1>2. AllEntries' = AllEntries /\ (SeqUnique' <=> SeqUnique)
  BY DEF vars, AllEntries, ArchivedRows, SeqUnique
<1>3. StoreInv'
  BY <1>1, NextInv
<1>4. HeadInv' /\ BoundInv' /\ archiveBatches' = archiveBatches
  BY <1>1, <1>2 DEF HeadInv, BoundInv, vars
<1>5. answer' = answer => AnswerInv'
  BY <1>1, <1>2, <1>3, AnswerStays
<1>. QED
  BY <1>2, <1>3, <1>4, <1>5

\* A request that has not answered has promised nothing.
LEMMA NoAnswerFine ==
  ASSUME answer' = NoAnswer
  PROVE  AnswerInv'
BY DEF NoAnswer, AnswerInv, AnswerTyped, StatsConsistent, ContextFound,
       ExportExact, PageExact, WalkComplete, BatchWalkComplete,
       ActiveWalkOrdered

\* The head of a running server is the highest position of the whole log.
LEMMA HeadIsTop ==
  ASSUME StoreInv, HeadInv, up
  PROVE  \E h \in AllEntries : /\ HeadSeq = h.seq /\ h.seq \in Nat \ {0}
                               /\ \A e \in AllEntries : e.seq =< h.seq
<1>1. auditEntries # {} /\ TableInv
  BY DEF StoreInv, HeadInv
<1>2. PICK h \in auditEntries : IsHead(h) /\ h.seq > ArchivedUpTo
  BY <1>1 DEF TableInv, ActiveInv
<1>3. /\ h \in AllEntries /\ \A r \in auditEntries : r.seq =< h.seq
      /\ \A r \in AllEntries : r.seq \in Nat \ {0}
  BY <1>1, <1>2 DEF AllEntries, IsHead, TableInv, TableTypes, IsRow
<1>4. HeadSeq = h.seq
  <2>1. /\ h.seq \in {r.seq : r \in auditEntries}
        /\ \A n \in {r.seq : r \in auditEntries} :
             (\A r \in auditEntries : r.seq =< n) => n = h.seq
    <3>. SUFFICES ASSUME NEW s \in auditEntries,
                         \A r \in auditEntries : r.seq =< s.seq
                  PROVE  s.seq = h.seq
      BY <1>2
    <3>1. s.seq \in Nat /\ h.seq \in Nat
      BY <1>3 DEF AllEntries
    <3>2. h.seq =< s.seq /\ s.seq =< h.seq
      BY <1>3
    <3>. QED
      BY <3>1, <3>2
  <2>. QED
    BY <1>1, <1>3, <2>1 DEF HeadSeq
<1>5. \A e \in AllEntries : e.seq =< h.seq
  <2>1. ArchivedUpTo \in Nat /\ \A e \in ArchivedRows : e.seq =< ArchivedUpTo
    BY <1>1, ArchivedUpToType DEF TableInv, ArchiveInv
  <2>2. ASSUME NEW e \in ArchivedRows
        PROVE  e.seq =< h.seq
    <3>1. e.seq \in Nat /\ h.seq \in Nat
      BY <1>3 DEF AllEntries
    <3>. QED
      BY <1>2, <2>1, <3>1
  <2>. QED
    BY <1>3, <2>2 DEF AllEntries
<1>. QED
  BY <1>3, <1>4, <1>5

-----------------------------------------------------------------------------
(* Stats                                                                   *)

\* In a log that has not forked, the head is no smaller than the number of
\* rows of the two tables.
LEMMA CountsFit ==
  ASSUME StoreInv, HeadInv, up
  PROVE  /\ Cardinality(archiveEntries) \in Nat
         /\ Cardinality(auditEntries) \in Nat
         /\ SeqUnique => \E h \in AllEntries :
              Cardinality(archiveEntries) + Cardinality(auditEntries) =< h.seq
<1>0. TableInv
  BY DEF StoreInv
<1>1. /\ IsFiniteSet(AllEntries) /\ IsFiniteSet(ArchivedRows)
      /\ IsFiniteSet(auditEntries)
      /\ Cardinality(AllEntries) \in Nat /\ Cardinality(ArchivedRows) \in Nat
      /\ Cardinality(auditEntries) \in Nat
  BY <1>0, LogFinite, FS_Subset, FS_CardinalityType DEF AllEntries
<1>2. /\ Cardinality(archiveEntries) \in Nat
      /\ Cardinality(archiveEntries) =< Cardinality(ArchivedRows)
  <2>. DEFINE f == [a \in archiveEntries |-> a.row]
  <2>1. f \in [archiveEntries -> ArchivedRows]
    BY DEF ArchivedRows
  <2>2. \A a, b \in archiveEntries : f[a] = f[b] => a = b
    BY <1>0 DEF TableInv, ArchiveInv
  <2>3. f \in Injection(archiveEntries, ArchivedRows)
    BY <2>1, <2>2, Fun_IsInj
  <2>4. /\ IsFiniteSet(archiveEntries)
        /\ Cardinality(archiveEntries) =< Cardinality(ArchivedRows)
    BY <1>1, <2>3, FS_Injection
  <2>. QED
    BY <2>4, FS_CardinalityType
<1>3. Cardinality(AllEntries) =
        Cardinality(auditEntries) + Cardinality(ArchivedRows)
  <2>1. Cardinality(AllEntries) =
          Cardinality(auditEntries) + Cardinality(ArchivedRows)
            - Cardinality(auditEntries \cap ArchivedRows)
    BY <1>1, FS_Union DEF AllEntries
  <2>2. Cardinality(auditEntries \cap ArchivedRows) = 0
    BY <1>0, FS_EmptySet DEF TableInv, LogInv, IdUnique
  <2>. QED
    BY <1>1, <2>1, <2>2
<1>4. ASSUME SeqUnique
      PROVE  \E h \in AllEntries : h.seq \in Nat /\ Cardinality(AllEntries) =< h.seq
  <2>1. PICK h \in AllEntries : /\ h.seq \in Nat \ {0}
                                /\ \A e \in AllEntries : e.seq =< h.seq
    BY HeadIsTop
  <2>. DEFINE f == [e \in AllEntries |-> e.seq]
  <2>2. \A e \in AllEntries : e.seq \in Nat \ {0}
    BY <1>0 DEF TableInv, TableTypes, IsRow
  <2>3. f \in [AllEntries -> 1 .. h.seq]
    BY <2>1, <2>2
  <2>4. \A r, s \in AllEntries : f[r] = f[s] => r = s
    BY <1>4 DEF SeqUnique
  <2>5. f \in Injection(AllEntries, 1 .. h.seq)
    BY <2>3, <2>4, Fun_IsInj
  <2>6. IsFiniteSet(1 .. h.seq) /\ Cardinality(1 .. h.seq) = h.seq
    <3>1. /\ 1 \in Int /\ h.seq \in Int
          /\ h.seq = IF 1 > h.seq THEN 0 ELSE h.seq - 1 + 1
      BY <2>1
    <3>. QED
      BY <3>1, FS_Interval
  <2>7. Cardinality(AllEntries) =< h.seq
    BY <2>5, <2>6, FS_Injection
  <2>. QED
    BY <2>1, <2>7
<1>5. ASSUME SeqUnique
      PROVE  \E h \in AllEntries :
               Cardinality(archiveEntries) + Cardinality(auditEntries) =< h.seq
  <2>1. PICK h \in AllEntries : /\ h.seq \in Nat
                                /\ Cardinality(AllEntries) =< h.seq
    BY <1>4, <1>5
  <2>. QED
    BY <1>1, <1>2, <1>3, <2>1
<1>. QED
  BY <1>1, <1>2, <1>5

\* Stats counts the rows of both tables.
LEMMA StatsCountsStep ==
  ASSUME RInv, StatsCounts
  PROVE  RInv'
<1>1. /\ StoreInv' /\ HeadInv' /\ BoundInv' /\ AllEntries' = AllEntries
      /\ (SeqUnique' <=> SeqUnique)
  BY ReadOnly DEF StatsCounts
<1>2. AnswerInv'
  BY NoAnswerFine DEF StatsCounts
<1>3. /\ Cardinality(archiveEntries) \in Nat /\ Cardinality(auditEntries) \in Nat
      /\ SeqUnique => \E h \in AllEntries :
           Cardinality(archiveEntries) + Cardinality(auditEntries) =< h.seq
  BY CountsFit DEF RInv, StatsCounts, Reading
<1>4. /\ reader'.kind = "stats"
      /\ reader'.archived = Cardinality(archiveEntries)
      /\ reader'.active = Cardinality(auditEntries)
  BY DEF StatsCounts
<1>5. ReaderInv'
  BY <1>1, <1>3, <1>4 DEF ReaderInv
<1>. QED
  BY <1>1, <1>2, <1>5 DEF RInv

\* Stats reads the head after it has counted.
LEMMA StatsHeadStep ==
  ASSUME RInv, StatsHead
  PROVE  RInv'
<1>1. /\ StoreInv' /\ HeadInv' /\ BoundInv' /\ AnswerInv'
      /\ (SeqUnique' <=> SeqUnique)
  BY ReadOnly DEF StatsHead
<1>2. PICK failed \in BOOLEAN :
        reader' = [kind  |-> "statsHead",
                   stats |-> [kind     |-> "stats",
                              total    |-> reader.archived + reader.active,
                              archived |-> reader.archived,
                              active   |-> reader.active,
                              batches  |-> reader.batches,
                              head_seq |-> IF failed THEN 0 ELSE HeadSeq,
                              failed   |-> failed]]
  BY DEF StatsHead
<1>3. PICK n \in Nat : n = reader.archived + reader.active
  BY DEF RInv, ReaderInv, StatsHead, Reading
<1>4. HeadSeq > 0 /\ (SeqUnique => HeadSeq >= n)
  <2>1. PICK h \in AllEntries : /\ HeadSeq = h.seq /\ h.seq \in Nat \ {0}
                                /\ \A e \in AllEntries : e.seq =< h.seq
    BY HeadIsTop DEF RInv, StatsHead, Reading
  <2>2. ASSUME SeqUnique
        PROVE  HeadSeq >= n
    <3>1. PICK e \in AllEntries : n =< e.seq
      BY <1>3, <2>2 DEF RInv, ReaderInv, StatsHead, Reading
    <3>2. e.seq \in Nat /\ e.seq =< h.seq
      BY <2>1 DEF RInv, StoreInv, TypeOK, TableTypes, IsRow
    <3>. QED
      BY <2>1, <3>1, <3>2
  <2>. QED
    BY <2>1, <2>2
<1>5. /\ reader'.kind = "statsHead" /\ reader'.stats.kind = "stats"
      /\ reader'.stats.total = n /\ reader'.stats.failed = failed
      /\ ~failed => reader'.stats.head_seq = HeadSeq
  BY <1>2, <1>3
<1>6. ReaderInv'
  BY <1>1, <1>4, <1>5 DEF ReaderInv
<1>. QED
  BY <1>1, <1>6 DEF RInv

\* Stats answers when it has asked for the last verification.
LEMMA StatsLastVerifyStep ==
  ASSUME RInv, StatsLastVerify
  PROVE  RInv'
<1>1. /\ StoreInv' /\ HeadInv' /\ BoundInv'
      /\ (SeqUnique' <=> SeqUnique)
  BY ReadOnly DEF StatsLastVerify
<1>2. ReaderInv'
  BY IdleReader DEF StatsLastVerify
<1>3. /\ answer'.kind = "stats"
      /\ ~answer'.failed => /\ answer'.head_seq > 0
                            /\ SeqUnique => answer'.head_seq >= answer'.total
  BY DEF RInv, ReaderInv, StatsLastVerify, Reading
<1>4. StatsConsistent'
  BY <1>1, <1>3 DEF StatsConsistent
<1>5. AnswerInv'
  BY <1>3, <1>4 DEF AnswerInv, AnswerTyped, ContextFound, ExportExact, PageExact,
                    WalkComplete, BatchWalkComplete, ActiveWalkOrdered
<1>. QED
  BY <1>1, <1>2, <1>5 DEF RInv

\* A request that fails answers nothing.
LEMMA ReadFailStep ==
  ASSUME RInv, ReadFail
  PROVE  RInv'
BY ReadOnly, IdleReader DEF ReadFail, RInv

\* Context reads the entry it is asked for.
LEMMA ContextCenterStep ==
  ASSUME RInv, ContextCenter
  PROVE  RInv'
<1>1. /\ StoreInv' /\ HeadInv' /\ BoundInv' /\ AllEntries' = AllEntries
  BY ReadOnly DEF ContextCenter
<1>2. AnswerInv'
  BY NoAnswerFine DEF ContextCenter
<1>3. ReaderInv'
  BY <1>1 DEF ContextCenter, ReaderInv
<1>. QED
  BY <1>1, <1>2, <1>3 DEF RInv

\* The export reads the manifest of a batch.
LEMMA ExportManifestStep ==
  ASSUME RInv, ExportManifest
  PROVE  RInv'
<1>1. /\ StoreInv' /\ HeadInv' /\ BoundInv' /\ archiveBatches' = archiveBatches
  BY ReadOnly DEF ExportManifest
<1>2. AnswerInv'
  BY NoAnswerFine DEF ExportManifest
<1>3. ReaderInv'
  BY <1>1 DEF ExportManifest, ReaderInv
<1>. QED
  BY <1>1, <1>2, <1>3 DEF RInv

-----------------------------------------------------------------------------
(* The context of an entry                                                 *)

\* The rows before and after a position, as far as there are any.
LEMMA AroundExact ==
  ASSUME NEW T, NEW all \in Seq(T), NEW idx \in 1 .. Len(all)
  PROVE  /\ \E k \in Nat :
              /\ k = IF idx > Radius THEN Radius ELSE idx - 1
              /\ Around(all, idx - Radius, idx - 1) \in Seq(T)
              /\ IsPage(Around(all, idx - Radius, idx - 1), all, idx - 1 - k, k)
         /\ \E k \in Nat :
              /\ Around(all, idx + 1, idx + Radius) \in Seq(T)
              /\ IsPage(Around(all, idx + 1, idx + Radius), all, idx, k)
<1>1. PICK n \in Nat : n = Len(all)
  BY LenProperties
<1>2. Radius \in Nat /\ idx \in Nat /\ 1 =< idx /\ idx =< n
  BY <1>1, ReadAssumption
<1>3. PICK k \in Nat : k = IF idx > Radius THEN Radius ELSE idx - 1
  BY <1>2
<1>4. PICK m \in Nat : m = idx - 1 - k
  <2>1. k =< idx - 1
    BY <1>2, <1>3
  <2>2. idx - 1 - k \in Nat
    BY <1>2, <2>1
  <2>. QED
    BY <2>2
<1>5. /\ m + 1 = IF idx - Radius < 1 THEN 1 ELSE idx - Radius
      /\ m + k = IF idx - 1 > n THEN n ELSE idx - 1
      /\ m + k =< n
  BY <1>2, <1>3, <1>4
<1>6. Around(all, idx - Radius, idx - 1) = SubSeq(all, m + 1, m + k)
  BY <1>1, <1>5 DEF Around
<1>7. /\ Around(all, idx - Radius, idx - 1) \in Seq(T)
      /\ IsPage(Around(all, idx - Radius, idx - 1), all, m, k)
  BY <1>1, <1>5, <1>6, CutExact
<1>8. PICK l \in Nat : l = IF idx + Radius > n THEN n - idx ELSE Radius
  BY <1>2
<1>9. /\ idx + 1 = IF idx + 1 < 1 THEN 1 ELSE idx + 1
      /\ idx + l = IF idx + Radius > n THEN n ELSE idx + Radius
      /\ idx + l =< n
  BY <1>2, <1>8
<1>10. Around(all, idx + 1, idx + Radius) = SubSeq(all, idx + 1, idx + l)
  BY <1>1, <1>9 DEF Around
<1>11. /\ Around(all, idx + 1, idx + Radius) \in Seq(T)
       /\ IsPage(Around(all, idx + 1, idx + Radius), all, idx, l)
  BY <1>1, <1>2, <1>9, <1>10, CutExact
<1>. QED
  BY <1>3, <1>4, <1>7, <1>11

\* A log that has not forked is listed position by position.
LEMMA WholeLog ==
  ASSUME StoreInv, HeadInv, up, SeqUnique, NEW oldFirst \in BOOLEAN,
         NEW all, all = BySeq(AllEntries, oldFirst)
  PROVE  \A i \in DOMAIN all : all[i].seq = i
<1>1. PICK h \in AllEntries : /\ h.seq \in Nat \ {0}
                              /\ \A e \in AllEntries : e.seq =< h.seq
  BY HeadIsTop
<1>2. TableInv /\ NoGap
  BY NoHole DEF StoreInv
<1>3. \A e \in AllEntries : e.seq \in Nat \ {0}
  BY <1>2 DEF TableInv, TableTypes, IsRow
<1>4. PICK hi \in Nat \ {0} : hi = h.seq
  BY <1>1
<1>5. OneEach(AllEntries, 1, hi)
  <2>1. \A r \in AllEntries : r.seq \in 1 .. hi
    BY <1>1, <1>3, <1>4
  <2>2. \A k \in 1 .. hi : \E r \in AllEntries : r.seq = k
    BY <1>2, <1>4 DEF NoGap
  <2>. QED
    BY <2>1, <2>2 DEF OneEach, SeqUnique
<1>6. \A i \in DOMAIN all : all[i].seq = 1 + i - 1
  <2>1. 1 \in Nat \ {0} /\ hi \in Nat /\ 1 =< hi
    OBVIOUS
  <2>2. IsRun(all, 1, hi)
    BY <1>2, <1>5, <2>1, Consecutive
  <2>. QED
    BY <2>2 DEF IsRun
<1>7. \A i \in DOMAIN all : i \in Nat
  BY <1>2, ListingExact
<1>. QED
  BY <1>6, <1>7

\* The answer around the row that was found at position idx of the list.
ContextAt(all, center, idx) ==
  [kind    |-> "context",
   center  |-> center,
   before  |-> Around(all, idx - Radius, idx - 1),
   after   |-> Around(all, idx + 1, idx + Radius),
   link_ok |-> idx = 1 \/ center.prev_hash = all[idx - 1].hash]

\* The answer to a context request finds the entry, wherever it is now.
LEMMA ContextIsFound ==
  ASSUME StoreInv, HeadInv, up, NEW center \in AllEntries,
         NEW oldFirst \in BOOLEAN, NEW all, all = BySeq(AllEntries, oldFirst)
  PROVE  \E idx \in 1 .. Len(all) :
           /\ all \in Seq(AllEntries)
           /\ all[idx] = center
           /\ ContextAnswer(all, center) = ContextAt(all, center, idx)
<1>1. TableInv /\ \A r, s \in AllEntries : r.id = s.id => r = s
  BY DEF StoreInv, TableInv, LogInv, IdUnique
<1>2. PICK n \in Nat : /\ n = Len(all) /\ DOMAIN all = 1 .. n
                       /\ IsListing(all, n, AllEntries)
  BY <1>1, ListingExact
<1>3. PICK idx \in 1 .. n : all[idx] = center
  BY <1>2 DEF IsListing
<1>4. PICK here : here = {i \in DOMAIN all : all[i].id = center.id}
  OBVIOUS
<1>5. here = {idx}
  <2>1. ASSUME NEW i \in here
        PROVE  i = idx
    <3>1. i \in 1 .. n /\ all[i] \in AllEntries /\ all[i].id = center.id
      BY <1>2, <1>4 DEF IsListing
    <3>2. all[i] = all[idx]
      BY <1>1, <1>3, <3>1
    <3>3. ~(i < idx) /\ ~(idx < i)
      BY <1>2, <1>3, <3>1, <3>2 DEF IsListing
    <3>. QED
      BY <3>1, <3>3
  <2>2. idx \in here
    BY <1>2, <1>3, <1>4
  <2>. QED
    BY <2>1, <2>2
<1>6. here # {} /\ (CHOOSE i \in here : \A j \in here : i =< j) = idx
  BY <1>5
<1>7. all \in Seq(AllEntries)
  BY <1>1, ListingExact
<1>. QED
  BY <1>2, <1>3, <1>4, <1>6, <1>7 DEF ContextAnswer, ContextAt

\* In a log that has not forked, a row hangs on the one at the position
\* before it.
LEMMA LinkIntact ==
  ASSUME StoreInv, SeqUnique, NEW r \in AllEntries, NEW p \in AllEntries,
         r.seq = p.seq + 1
  PROVE  r.prev_hash = p.hash
<1>1. IsGenesis(r) \/ \E q \in AllEntries : Follows(r, q)
  BY DEF StoreInv, TableInv, LogInv
<1>2. \A e \in AllEntries : e.seq \in Nat \ {0}
  BY DEF StoreInv, TypeOK, TableTypes, IsRow
<1>3. ~IsGenesis(r)
  BY <1>2 DEF IsGenesis
<1>4. PICK q \in AllEntries : r.seq = q.seq + 1 /\ r.prev_hash = q.hash
  BY <1>1, <1>3 DEF Follows
<1>5. q.seq = p.seq
  BY <1>2, <1>4
<1>. QED
  BY <1>4, <1>5 DEF SeqUnique

\* Context reads the log again and cuts the neighbourhood out of it.
LEMMA ContextWindowStep ==
  ASSUME RInv, ContextWindow
  PROVE  RInv'
<1>1. /\ StoreInv' /\ HeadInv' /\ BoundInv'
      /\ (SeqUnique' <=> SeqUnique)
  BY ReadOnly DEF ContextWindow
<1>2. ReaderInv'
  BY IdleReader DEF ContextWindow
<1>3. StoreInv /\ HeadInv /\ up /\ reader.center \in AllEntries
  BY DEF RInv, ReaderInv, ContextWindow, Reading
<1>4. PICK oldFirst \in BOOLEAN :
        answer' = ContextAnswer(BySeq(AllEntries, oldFirst), reader.center)
  BY DEF ContextWindow
<1>5. PICK all : all = BySeq(AllEntries, oldFirst)
  OBVIOUS
<1>6. PICK center \in AllEntries : center = reader.center
  BY <1>3
<1>7. PICK idx \in 1 .. Len(all) :
        /\ all \in Seq(AllEntries)
        /\ all[idx] = center
        /\ ContextAnswer(all, center) = ContextAt(all, center, idx)
  BY <1>3, <1>5, ContextIsFound
<1>8. PICK before, after, ok :
        /\ before = Around(all, idx - Radius, idx - 1)
        /\ after = Around(all, idx + 1, idx + Radius)
        /\ ok = (idx = 1 \/ center.prev_hash = all[idx - 1].hash)
  OBVIOUS
<1>9. PICK k \in Nat : /\ k = IF idx > Radius THEN Radius ELSE idx - 1
                       /\ before \in Seq(AllEntries)
                       /\ IsPage(before, all, idx - 1 - k, k)
  BY <1>7, <1>8, AroundExact
<1>10. PICK l \in Nat : after \in Seq(AllEntries) /\ IsPage(after, all, idx, l)
  BY <1>7, <1>8, AroundExact
<1>11. answer' = [kind |-> "context", center |-> center, before |-> before,
                  after |-> after, link_ok |-> ok]
  BY <1>4, <1>5, <1>6, <1>7, <1>8 DEF ContextAt
<1>12. \A e \in {center} \cup ToSet(before) \cup ToSet(after) : IsRow(e)
  <2>1. \A e \in AllEntries : IsRow(e)
    BY <1>3 DEF StoreInv, TypeOK, TableTypes
  <2>2. ToSet(before) \subseteq AllEntries /\ ToSet(after) \subseteq AllEntries
    BY <1>9, <1>10, ElementOfSeq, LenProperties DEF ToSet
  <2>. QED
    BY <2>1, <2>2
<1>13. ASSUME SeqUnique
       PROVE  /\ ok
              /\ \A i \in DOMAIN before :
                   before[i].seq = center.seq - Len(before) - 1 + i
              /\ Len(before) = IF center.seq > Radius THEN Radius ELSE center.seq - 1
              /\ \A i \in DOMAIN after : after[i].seq = center.seq + i
  <2>1. PICK n \in Nat : n = Len(all) /\ DOMAIN all = 1 .. n
    BY <1>7, LenProperties
  <2>2. \A i \in 1 .. n : all[i].seq = i /\ all[i] \in AllEntries
    BY <1>3, <1>5, <1>7, <1>13, <2>1, WholeLog, ElementOfSeq
  <2>3. center.seq = idx /\ idx \in 1 .. n
    BY <1>7, <2>1, <2>2
  <2>4. ok
    <3>. SUFFICES ASSUME idx # 1
                  PROVE  center.prev_hash = all[idx - 1].hash
      BY <1>8
    <3>1. idx - 1 \in 1 .. n /\ idx = (idx - 1) + 1
      BY <2>3
    <3>2. all[idx - 1] \in AllEntries /\ center.seq = all[idx - 1].seq + 1
      BY <2>2, <2>3, <3>1
    <3>. QED
      BY <1>3, <1>13, <3>2, LinkIntact
  <2>5. Len(before) = k /\ DOMAIN before = 1 .. k
    BY <1>9 DEF IsPage
  <2>6. PICK m \in Int : m = idx - 1 - k
    BY <2>3
  <2>7. \A i \in 1 .. k : m + i \in 1 .. n /\ before[i] = all[m + i]
    BY <1>9, <2>1, <2>6 DEF IsPage
  <2>8. \A i \in 1 .. k : before[i].seq = idx - k - 1 + i
    <3>. SUFFICES ASSUME NEW i \in 1 .. k
                  PROVE  before[i].seq = idx - k - 1 + i
      OBVIOUS
    <3>1. before[i].seq = m + i
      BY <2>2, <2>7
    <3>2. m + i = idx - k - 1 + i
      BY <2>3, <2>6
    <3>. QED
      BY <3>1, <3>2
  <2>9. \A i \in DOMAIN after : after[i].seq = idx + i
    <3>1. \A i \in 1 .. l : idx + i \in 1 .. n /\ after[i] = all[idx + i]
      BY <1>10, <2>1 DEF IsPage
    <3>2. DOMAIN after = 1 .. l
      BY <1>10 DEF IsPage
    <3>. QED
      BY <2>2, <3>1, <3>2
  <2>. QED
    BY <1>9, <2>3, <2>4, <2>5, <2>8, <2>9
<1>14. /\ answer'.kind = "context" /\ answer'.center = center
       /\ answer'.before = before /\ answer'.after = after /\ answer'.link_ok = ok
  BY <1>11
<1>15. ContextFound'
  BY <1>1, <1>13, <1>14 DEF ContextFound
<1>16. AnswerTyped'
  BY <1>12, <1>14 DEF AnswerTyped
<1>17. AnswerInv'
  BY <1>14, <1>15, <1>16 DEF AnswerInv, StatsConsistent, ExportExact,
                             PageExact, WalkComplete, BatchWalkComplete, ActiveWalkOrdered
<1>. QED
  BY <1>1, <1>2, <1>17 DEF RInv

-----------------------------------------------------------------------------
(* The export of a batch                                                   *)

\* The rows are the segment b describes, in order.
IsSegment(rows, b) ==
  \A i \in DOMAIN rows :
    /\ rows[i].seq = b.start_seq + i - 1
    /\ i = b.item_count => rows[i].hash = b.head_hash
    /\ i = 1 => rows[i].prev_hash = b.prev_hash
    /\ i # 1 => rows[i].prev_hash = rows[i - 1].hash

\* The rows of a batch are listed position by position, each linked to the
\* one before it and the first one to the batch before.
LEMMA BatchListed ==
  ASSUME TableInv, NEW n \in DOMAIN archiveBatches,
         NEW b, b = archiveBatches[n],
         NEW oldFirst \in BOOLEAN,
         NEW rows, rows = BySeq(BatchRows(n), oldFirst)
  PROVE  /\ rows \in Seq(ArchivedRows) /\ ToSet(rows) = b.payload
         /\ Len(rows) = b.item_count
         /\ b.start_seq \in Nat \ {0} /\ b.item_count \in Nat \ {0}
         /\ IsSegment(rows, b)
<1>1. /\ BatchRows(n) \subseteq ArchivedRows
      /\ BatchRows(n) \in SUBSET AllEntries
  BY DEF BatchRows, ArchivedRows, AllEntries
<1>2. /\ \A r \in ArchivedRows : r.seq \in Nat \ {0}
      /\ \A r, s \in ArchivedRows : r.seq = s.seq => r = s
      /\ \A r \in ArchivedRows :
           IsGenesis(r) \/ \E p \in ArchivedRows : Follows(r, p)
  BY DEF TableInv, TableTypes, IsRow, ArchiveInv, AllEntries
<1>3. PICK lo \in Nat \ {0}, hi \in Nat \ {0}, count \in Nat \ {0} :
        lo = b.start_seq /\ hi = b.end_seq /\ count = b.item_count
  BY DEF TableInv, TableTypes, Manifests, IsManifest
<1>4. /\ b.payload = BatchRows(n)
      /\ count = hi - lo + 1
      /\ {r.seq : r \in BatchRows(n)} = lo .. hi
      /\ n = 1 => lo = 1 /\ b.prev_hash = ZeroHash
      /\ n # 1 => /\ lo = archiveBatches[n - 1].end_seq + 1
                  /\ b.prev_hash = archiveBatches[n - 1].head_hash
  BY <1>3 DEF TableInv, BatchInv, BatchesLinked
<1>5. lo =< hi
  BY <1>4
<1>6. OneEach(BatchRows(n), lo, hi)
  <2>1. \A r \in BatchRows(n) : r.seq \in lo .. hi
    BY <1>4
  <2>2. \A k \in lo .. hi : \E r \in BatchRows(n) : r.seq = k
    BY <1>4
  <2>. QED
    BY <1>1, <1>2, <2>1, <2>2 DEF OneEach
<1>7. Len(rows) = hi - lo + 1 /\ \A i \in DOMAIN rows : rows[i].seq = lo + i - 1
  <2>1. lo \in Nat \ {0} /\ hi \in Nat /\ lo =< hi
    BY <1>5
  <2>2. PICK S \in SUBSET AllEntries : S = BatchRows(n)
    BY <1>1
  <2>3. rows = BySeq(S, oldFirst) /\ OneEach(S, lo, hi)
    BY <1>6, <2>2
  <2>4. IsRun(rows, lo, hi)
    BY <2>1, <2>3, Consecutive
  <2>. QED
    BY <2>4 DEF IsRun
<1>8. PICK m \in Nat : /\ m = Len(rows) /\ DOMAIN rows = 1 .. m
                       /\ IsListing(rows, m, BatchRows(n))
  BY <1>1, ListingExact
<1>9. /\ m = count /\ m = hi - lo + 1
      /\ \A i \in 1 .. m : rows[i].seq = lo + i - 1
  BY <1>4, <1>7, <1>8
<1>10. \A i \in 1 .. m : rows[i] \in BatchRows(n) /\ rows[i] \in ArchivedRows
  BY <1>1, <1>8 DEF IsListing
<1>11. rows \in Seq(ArchivedRows)
  <2>1. rows \in Seq(BatchRows(n))
    BY <1>1, ListingExact
  <2>. QED
    BY <1>1, <2>1, SeqMonotonic
<1>12. ToSet(rows) = b.payload
  <2>1. ToSet(rows) = {rows[i] : i \in 1 .. m}
    BY <1>8 DEF ToSet
  <2>2. {rows[i] : i \in 1 .. m} = BatchRows(n)
    BY <1>8 DEF IsListing
  <2>. QED
    BY <1>4, <2>1, <2>2
<1>13. ASSUME NEW i \in 1 .. m, i = count
       PROVE  rows[i].hash = b.head_hash
  <2>1. rows[i].seq = hi
    <3>1. rows[i].seq = lo + i - 1
      BY <1>9
    <3>2. i = hi - lo + 1
      BY <1>9, <1>13
    <3>3. lo + i - 1 = hi
      BY <3>2
    <3>. QED
      BY <3>1, <3>3
  <2>. QED
    BY <1>3, <1>10, <2>1 DEF TableInv, BatchInv
<1>14. ASSUME NEW i \in 1 .. m, i # 1
       PROVE  rows[i].prev_hash = rows[i - 1].hash
  <2>1. i - 1 \in 1 .. m
    BY <1>14
  <2>2. rows[i].seq = lo + i - 1 /\ rows[i - 1].seq = lo + (i - 1) - 1
    BY <1>9, <2>1
  <2>3. ~IsGenesis(rows[i])
    <3>1. lo + i - 1 # 1
      BY <1>14
    <3>. QED
      BY <2>2, <3>1 DEF IsGenesis
  <2>4. PICK p \in ArchivedRows : Follows(rows[i], p)
    BY <1>2, <1>10, <2>3
  <2>5. p.seq \in Nat /\ rows[i].seq = p.seq + 1 /\ rows[i].prev_hash = p.hash
    BY <1>2, <2>4 DEF Follows
  <2>6. p.seq = rows[i - 1].seq
    <3>1. lo + i - 1 = (lo + (i - 1) - 1) + 1 /\ lo + (i - 1) - 1 \in Int
      OBVIOUS
    <3>. QED
      BY <2>2, <2>5, <3>1
  <2>7. p = rows[i - 1]
    BY <1>2, <1>10, <2>1, <2>6
  <2>. QED
    BY <2>5, <2>7
<1>15. ASSUME 1 \in 1 .. m
       PROVE  rows[1].prev_hash = b.prev_hash
  <2>1. PICK r : r = rows[1]
    OBVIOUS
  <2>2. r \in BatchRows(n) /\ r \in ArchivedRows /\ r.seq = lo
    <3>1. lo + 1 - 1 = lo
      OBVIOUS
    <3>. QED
      BY <1>9, <1>10, <1>15, <2>1, <3>1
  <2>3. PICK L \in Nat : L = Len(archiveBatches) /\ DOMAIN archiveBatches = 1 .. L
    BY LenProperties DEF TableInv, TableTypes
  <2>4. CASE r.seq = 1
    <3>1. n = 1
      <4>. SUFFICES ASSUME n # 1
                    PROVE  FALSE
        OBVIOUS
      <4>1. n - 1 \in DOMAIN archiveBatches
        BY <2>3
      <4>2. archiveBatches[n - 1].end_seq \in Nat \ {0}
        BY <4>1 DEF TableInv, TableTypes, Manifests, IsManifest
      <4>. QED
        BY <1>4, <2>2, <2>4, <4>2
    <3>2. \A p \in ArchivedRows : ~Follows(r, p)
      BY <1>2, <2>4 DEF Follows
    <3>3. IsGenesis(r)
      BY <1>2, <2>2, <3>2
    <3>. QED
      BY <1>4, <2>1, <3>1, <3>3 DEF IsGenesis
  <2>5. CASE r.seq # 1
    <3>1. PICK p \in BatchRows(n) \cup BatchRows(n - 1) : Follows(r, p)
      BY <2>2, <2>5, SegmentLinked
    <3>2. r.seq = p.seq + 1 /\ r.prev_hash = p.hash /\ p.seq \in Nat
      BY <1>2, <3>1 DEF Follows, BatchRows, ArchivedRows
    <3>3. p \notin BatchRows(n)
      <4>1. p \in BatchRows(n) => p.seq \in lo .. hi
        BY <1>4
      <4>. QED
        BY <2>2, <3>2, <4>1
    <3>4. p \in BatchRows(n - 1)
      BY <3>1, <3>3
    <3>5. n - 1 \in DOMAIN archiveBatches
      BY <2>3, <3>4 DEF BatchRows, TableInv, TableTypes
    <3>6. n # 1 /\ archiveBatches[n - 1].end_seq \in Nat
      BY <2>3, <3>5 DEF TableInv, TableTypes, Manifests, IsManifest
    <3>7. p.seq = archiveBatches[n - 1].end_seq
      BY <1>4, <2>2, <3>2, <3>6
    <3>8. p.hash = archiveBatches[n - 1].head_hash
      BY <3>4, <3>5, <3>7 DEF TableInv, BatchInv
    <3>. QED
      BY <1>4, <2>1, <3>2, <3>6, <3>8
  <2>. QED
    BY <2>4, <2>5
<1>16. IsSegment(rows, b)
  BY <1>3, <1>8, <1>9, <1>13, <1>14, <1>15 DEF IsSegment
<1>. QED
  BY <1>3, <1>8, <1>9, <1>11, <1>12, <1>16

\* The export reads the rows of the batch whose manifest it has read.
LEMMA ExportRowsStep ==
  ASSUME RInv, ExportRows
  PROVE  RInv'
<1>1. StoreInv' /\ HeadInv' /\ BoundInv'
  BY ReadOnly DEF ExportRows
<1>2. ReaderInv'
  BY IdleReader DEF ExportRows
<1>3. TableInv
  BY DEF RInv, StoreInv
<1>4. PICK n, b :
        /\ n \in DOMAIN archiveBatches
        /\ n = reader.no /\ b = reader.manifest /\ b = archiveBatches[n]
  BY DEF RInv, ReaderInv, ExportRows, Reading
<1>5. PICK oldFirst, rows :
        oldFirst \in BOOLEAN /\ oldFirst = TRUE /\ rows = BySeq(BatchRows(n), oldFirst)
  OBVIOUS
<1>6. PICK k \in 0 .. Len(rows) :
        answer' = [kind     |-> "export",
                   manifest |-> b,
                   rows     |-> SubSeq(rows, 1, k),
                   cut      |-> k < Len(rows)]
  BY <1>4, <1>5 DEF ExportRows, BatchRows
<1>7. /\ rows \in Seq(ArchivedRows) /\ ToSet(rows) = b.payload
      /\ Len(rows) = b.item_count
      /\ b.start_seq \in Nat \ {0} /\ b.item_count \in Nat \ {0}
      /\ IsSegment(rows, b)
  BY <1>3, <1>4, <1>5, BatchListed
<1>8. PICK m \in Nat : m = Len(rows) /\ DOMAIN rows = 1 .. m /\ m = b.item_count
  BY <1>7
<1>9. PICK sent : sent = SubSeq(rows, 1, k)
  OBVIOUS
<1>10. /\ sent \in Seq(ArchivedRows) /\ Len(sent) = k /\ DOMAIN sent = 1 .. k
       /\ \A i \in 1 .. k : i \in 1 .. m /\ sent[i] = rows[i]
  <2>1. k \in Nat /\ 0 \in Nat /\ 0 + k =< Len(rows)
    BY <1>8
  <2>2. sent = SubSeq(rows, 0 + 1, 0 + k)
    BY <1>9, <2>1
  <2>3. sent \in Seq(ArchivedRows) /\ IsPage(sent, rows, 0, k)
    BY <1>7, <2>1, <2>2, CutExact
  <2>4. \A i \in 1 .. k : 0 + i = i
    OBVIOUS
  <2>. QED
    BY <1>8, <2>3, <2>4 DEF IsPage
<1>11. \A i \in 1 .. k :
         /\ sent[i].seq = b.start_seq + i - 1
         /\ sent[i].prev_hash = IF i = 1 THEN b.prev_hash ELSE sent[i - 1].hash
  <2>. SUFFICES ASSUME NEW i \in 1 .. k
                PROVE  /\ sent[i].seq = b.start_seq + i - 1
                       /\ sent[i].prev_hash =
                            IF i = 1 THEN b.prev_hash ELSE sent[i - 1].hash
    OBVIOUS
  <2>1. i # 1 => i - 1 \in 1 .. k
    BY <1>8
  <2>. QED
    BY <1>7, <1>8, <1>10, <2>1 DEF IsSegment
<1>12. ASSUME ~(k < m)
       PROVE  /\ ToSet(sent) = b.payload
              /\ Len(sent) = b.item_count
              /\ Last(sent).hash = b.head_hash
  <2>1. k = m
    BY <1>8, <1>12
  <2>2. ToSet(sent) = ToSet(rows)
    BY <1>8, <1>10, <2>1 DEF ToSet
  <2>3. Last(sent) = rows[m] /\ m \in 1 .. m
    BY <1>7, <1>8, <1>10, <2>1 DEF Last
  <2>. QED
    BY <1>7, <1>8, <1>10, <2>1, <2>2, <2>3 DEF IsSegment
<1>13. PICK cut : cut = (k < m)
  OBVIOUS
<1>14. /\ answer'.kind = "export" /\ answer'.manifest = b
       /\ answer'.rows = sent /\ answer'.cut = cut
  BY <1>6, <1>8, <1>9, <1>13
<1>15. ExportExact'
  BY <1>10, <1>11, <1>12, <1>13, <1>14 DEF ExportExact
<1>16. AnswerTyped'
  <2>1. \A e \in ArchivedRows : IsRow(e)
    BY <1>3 DEF TableInv, TableTypes, AllEntries
  <2>2. ToSet(sent) \subseteq ArchivedRows
    BY <1>10, ElementOfSeq DEF ToSet
  <2>. QED
    BY <1>14, <2>1, <2>2 DEF AnswerTyped
<1>17. AnswerInv'
  BY <1>14, <1>15, <1>16 DEF AnswerInv, StatsConsistent, ContextFound,
                             PageExact, WalkComplete, BatchWalkComplete, ActiveWalkOrdered
<1>. QED
  BY <1>1, <1>2, <1>17 DEF RInv

-----------------------------------------------------------------------------
(* A walk through the pages of a list                                      *)

\* A page holds at least one row.
LEMMA PageSizePositive ==
  ASSUME NEW s \in Ints
  PROVE  PageSize(s) \in Nat \ {0}
BY PagingAssumption DEF PageSize, Ints

\* The step of a walk from one page to the next.
NextPage(from, to, all) == to = [from EXCEPT !.next = @ + 1, !.items = all]

\* The next page of a walk starts where the pages so far end.
LEMMA WalkGoesOn ==
  ASSUME IsWalk, NEW all,
         NextPage(reader, reader', all),
         Len(all) = Len(reader.items) + PageSize(reader.size)
  PROVE  /\ IsWalk' /\ reader'.kind = "walk" /\ reader'.items = all
         /\ reader'.list = reader.list /\ reader'.filter = reader.filter
         /\ reader'.target = reader.target
<1>1. PICK list, q, size, next, items, target :
        /\ list = reader.list /\ q = reader.filter /\ size = reader.size
        /\ next = reader.next /\ items = reader.items /\ target = reader.target
  OBVIOUS
<1>2. /\ reader = [kind |-> "walk", list |-> list, filter |-> q,
                   size |-> size, next |-> next, items |-> items,
                   target |-> target]
      /\ size \in Ints /\ next \in Nat \ {0} /\ target \in Nat
      /\ Len(items) = (next - 1) * PageSize(size)
  BY <1>1 DEF IsWalk
<1>3. PICK new \in Nat \ {0} : new = next + 1
  BY <1>2
<1>4. reader' = [kind |-> "walk", list |-> list, filter |-> q,
                 size |-> size, next |-> new, items |-> all,
                 target |-> target]
  BY <1>2, <1>3 DEF NextPage
<1>5. Len(all) = (new - 1) * PageSize(size)
  <2>1. PICK d \in Nat \ {0} : d = PageSize(size)
    BY <1>2, PageSizePositive
  <2>2. PICK j \in Nat : j = next - 1 /\ j + 1 = new - 1
    BY <1>2, <1>3
  <2>3. j * d + d = (j + 1) * d
    BY SMTT(30)
  <2>4. Len(all) = j * d + d
    BY <1>1, <1>2, <2>1, <2>2
  <2>5. Len(all) = (j + 1) * d
    BY <2>3, <2>4
  <2>. QED
    BY <2>1, <2>2, <2>5
<1>6. /\ reader'.kind = "walk" /\ reader'.list = list /\ reader'.filter = q
      /\ reader'.size = size /\ reader'.next = new /\ reader'.items = all
      /\ reader'.target = target
  BY <1>4
<1>7. IsWalk'
  <2>1. PageSize(reader.size)' = PageSize(size)
    BY <1>6 DEF PageSize
  <2>. QED
    BY <1>2, <1>3, <1>4, <1>5, <1>6, <2>1 DEF IsWalk
<1>. QED
  BY <1>1, <1>6, <1>7

\* A walk starts with nothing delivered and the head of now as its target.
LEMMA WalkStartStep ==
  ASSUME RInv, NEW list \in {"all", "active", "batches"}, WalkStart(list)
  PROVE  RInv'
<1>1. /\ StoreInv' /\ HeadInv' /\ BoundInv'
      /\ AllEntries' = AllEntries /\ archiveBatches' = archiveBatches
  BY ReadOnly DEF WalkStart
<1>2. AnswerInv'
  BY NoAnswerFine DEF WalkStart
<1>3. PICK size, q :
        /\ size \in Sizes
        /\ reader' = [kind   |-> "walk", list |-> list, filter |-> q,
                      size   |-> size, next |-> 1, items |-> << >>,
                      target |-> IF list = "batches" THEN Len(archiveBatches)
                                 ELSE HeadSeq]
  BY DEF WalkStart
<1>4. PICK n \in Nat : n = Len(archiveBatches)
  BY LenProperties DEF RInv, StoreInv, TypeOK, TableTypes
<1>5. PICK h \in AllEntries : HeadSeq = h.seq /\ h.seq \in Nat \ {0}
  BY HeadIsTop DEF RInv, WalkStart, Reading
<1>6. PICK target \in Nat :
        /\ target = IF list = "batches" THEN Len(archiveBatches) ELSE HeadSeq
        /\ list = "batches" => target = n
        /\ list # "batches" => target \in 1 .. h.seq
  BY <1>4, <1>5
<1>7. size \in Ints /\ PageSize(size) \in Nat
  BY <1>3, PageSizePositive, ReadAssumption
<1>8. Len(<< >>) = (1 - 1) * PageSize(size)
  <2>1. \A d \in Nat : (1 - 1) * d = 0
    BY SMTT(30)
  <2>. QED
    BY <1>7, <2>1
<1>9. /\ reader' = [kind   |-> "walk", list |-> list, filter |-> q,
                    size   |-> size, next |-> 1, items |-> << >>,
                    target |-> target]
      /\ reader'.kind = "walk" /\ reader'.list = list /\ reader'.filter = q
      /\ reader'.size = size /\ reader'.next = 1 /\ reader'.items = << >>
      /\ reader'.target = target
  BY <1>3, <1>6
<1>10. IsWalk'
  BY <1>7, <1>8, <1>9 DEF IsWalk, PageSize
<1>11. CASE list = "batches"
  <2>1. BatchWalkInv'
    BY <1>1, <1>4, <1>6, <1>9, <1>11 DEF BatchWalkInv
  <2>. QED
    BY <1>1, <1>2, <1>9, <1>10, <1>11, <2>1 DEF RInv, ReaderInv
<1>12. CASE list # "batches"
  <2>1. reader'.items = << >>
    BY <1>9
  <2>2. Passed(reader.items, Listed(reader.list, reader.filter))' = {}
    BY <2>1 DEF Passed
  <2>3. Cardinality({}) =< Len(<< >>)
    BY FS_EmptySet
  <2>4. EntryWalkInv'
    BY <1>1, <1>6, <1>9, <1>12, <2>1, <2>2, <2>3 DEF EntryWalkInv
  <2>. QED
    BY <1>1, <1>2, <1>9, <1>10, <1>12, <2>4 DEF RInv, ReaderInv
<1>. QED
  BY <1>11, <1>12

\* The batch numbers, newest first, as GetArchiveBatches lists them.
BatchList(n) == [i \in 1 .. n |-> n + 1 - i]

\* Of the batches up to target, the items are those with the highest numbers.
BatchesSeen(items, target, n) ==
  \A b \in 1 .. target : b > n - Len(items) => b \in ToSet(items)

\* What a walk through the batches has after k more rows.
BatchesWalked(all, items, k, target, n) ==
  /\ all \in Seq(Nat) /\ Len(all) = Len(items) + k
  /\ k # 0 => Len(all) =< n
  /\ BatchesSeen(all, target, n)

\* The list holds n numbers.
LEMMA BatchListLength ==
  ASSUME NEW n \in Nat
  PROVE  BatchList(n) \in Seq(Nat) /\ Len(BatchList(n)) = n
<1>1. \A i \in 1 .. n : n + 1 - i \in Nat
  OBVIOUS
<1>2. BatchList(n) \in [1 .. n -> Nat]
  BY <1>1 DEF BatchList
<1>3. BatchList(n) \in Seq(Nat)
  BY <1>2, SeqDef
<1>4. PICK l \in Nat : l = Len(BatchList(n)) /\ DOMAIN BatchList(n) = 1 .. l
  BY <1>3, LenProperties
<1>5. DOMAIN BatchList(n) = 1 .. n
  BY DEF BatchList
<1>6. \A x, y \in Nat : 1 .. x = 1 .. y => x = y
  <2>. SUFFICES ASSUME NEW x \in Nat, NEW y \in Nat, 1 .. x = 1 .. y
                PROVE  x = y
    OBVIOUS
  <2>1. /\ x >= 1 => x \in 1 .. x /\ x \in 1 .. y
        /\ y >= 1 => y \in 1 .. y /\ y \in 1 .. x
    OBVIOUS
  <2>. QED
    BY <2>1
<1>7. l = n
  BY <1>4, <1>5, <1>6
<1>. QED
  BY <1>3, <1>4, <1>7

\* One more page of the batch list.
LEMMA BatchPage ==
  ASSUME NEW n \in Nat, NEW served, served = BatchList(n),
         NEW target \in Nat, target =< n,
         NEW items \in Seq(Nat), BatchesSeen(items, target, n),
         NEW page \in Seq(Nat), NEW k \in Nat,
         IsPage(page, served, Len(items), k),
         NEW all, all = items \o page
  PROVE  BatchesWalked(all, items, k, target, n)
<1>1. PICK m \in Nat : m = Len(items)
  BY LenProperties
<1>2. /\ Len(page) = k /\ DOMAIN page = 1 .. k
      /\ \A i \in 1 .. k : m + i \in 1 .. n /\ page[i] = served[m + i]
  BY <1>1 DEF IsPage, BatchList
<1>3. all \in Seq(Nat) /\ Len(all) = m + k
  BY <1>1, <1>2, ConcatProperties
<1>4. ToSet(all) = ToSet(items) \cup ToSet(page)
  BY ToSetOfBoth
<1>5. k # 0 => m + k =< n
  <2>1. k # 0 => k \in 1 .. k
    OBVIOUS
  <2>2. k # 0 => m + k \in 1 .. n
    BY <1>2, <2>1
  <2>. QED
    BY <2>2
<1>6. ASSUME NEW b \in 1 .. target, b > n - (m + k)
      PROVE  b \in ToSet(all)
  <2>1. CASE b > n - m
    BY <1>1, <1>4, <2>1 DEF BatchesSeen
  <2>2. CASE ~(b > n - m)
    <3>1. PICK i \in 1 .. k : m + i = n + 1 - b
      <4>1. n + 1 - b - m \in 1 .. k /\ m + (n + 1 - b - m) = n + 1 - b
        BY <1>6, <2>2
      <4>. QED
        BY <4>1
    <3>2. m + i \in 1 .. n /\ page[i] = served[m + i] /\ i \in DOMAIN page
      BY <1>2
    <3>3. served[m + i] = n + 1 - (m + i)
      BY <3>2 DEF BatchList
    <3>4. n + 1 - (m + i) = b
      BY <3>1
    <3>5. page[i] = b
      BY <3>2, <3>3, <3>4
    <3>. QED
      BY <1>4, <3>2, <3>5 DEF ToSet
  <2>. QED
    BY <2>1, <2>2
<1>7. BatchesSeen(all, target, n)
  BY <1>3, <1>6 DEF BatchesSeen
<1>. QED
  BY <1>1, <1>3, <1>5, <1>7 DEF BatchesWalked

\* What a walk through entries has after k more rows: rows of the list in
\* order, all that it passed if it goes through the whole log, and then, once
\* it has as many as the list, the whole list.
WalkedOn(all, k, served, S) ==
  /\ all \in Seq(AllEntries) /\ Len(all) = Len(reader.items) + k
  /\ \A i \in DOMAIN all : Wanted(all[i], reader.filter)
  /\ SeqUnique =>
       /\ Increasing(all)
       /\ Cardinality(Passed(all, S)) =< Len(all)
       /\ reader.list = "all" =>
            /\ Passed(all, S) \subseteq ToSet(all)
            /\ Len(served) =< Len(reader.items) + k => S \subseteq ToSet(all)

\* One more page of a list of entries.
LEMMA EntryPage ==
  ASSUME StoreInv, EntryWalkInv,
         NEW S \in SUBSET AllEntries, S = Listed(reader.list, reader.filter),
         NEW oldFirst \in BOOLEAN, NEW served, served = BySeq(S, oldFirst),
         NEW page \in Seq(S), NEW k \in Nat,
         IsPage(page, served, Len(reader.items), k),
         NEW all, all = reader.items \o page
  PROVE  WalkedOn(all, k, served, S)
<1>1. PICK items, list, q : /\ items = reader.items /\ list = reader.list
                            /\ q = reader.filter
  OBVIOUS
<1>2. /\ list \in {"all", "active"} /\ items \in Seq(AllEntries)
      /\ \A i \in DOMAIN items : Wanted(items[i], q)
      /\ SeqUnique =>
           /\ \A i, j \in DOMAIN items : i < j => items[i].seq < items[j].seq
           /\ Cardinality(Passed(items, S)) =< Len(items)
           /\ list = "all" => Passed(items, S) \subseteq ToSet(items)
  BY <1>1 DEF EntryWalkInv
<1>3. page \in Seq(AllEntries) /\ TableInv
  BY SeqMonotonic DEF StoreInv
<1>4. /\ all \in Seq(AllEntries) /\ Len(all) = Len(items) + k
  BY <1>1, <1>2, <1>3, ConcatProperties DEF IsPage
<1>5. \A e \in ToSet(all) : Wanted(e, q)
  <2>1. \A e \in S : Wanted(e, q)
    BY <1>1 DEF Listed
  <2>2. ToSet(page) \subseteq S
    BY ElementOfSeq, LenProperties DEF ToSet
  <2>3. \A e \in ToSet(items) : Wanted(e, q)
    BY <1>2 DEF ToSet
  <2>4. ToSet(all) = ToSet(items) \cup ToSet(page)
    <3>1. all = items \o page /\ items \in Seq(AllEntries) /\ page \in Seq(AllEntries)
      BY <1>1, <1>2, <1>3
    <3>2. \A x, y \in Seq(AllEntries) : ToSet(x \o y) = ToSet(x) \cup ToSet(y)
      BY ToSetOfBoth
    <3>. QED
      BY <3>1, <3>2
  <2>. QED
    BY <2>1, <2>2, <2>3, <2>4
<1>6. \A i \in DOMAIN all : Wanted(all[i], q)
  BY <1>5 DEF ToSet
<1>7. ASSUME SeqUnique
      PROVE  /\ Increasing(items)
             /\ Increasing(all)
             /\ Cardinality(Passed(all, S)) =< Len(all)
  <2>1. Increasing(items) /\ Cardinality(Passed(items, S)) =< Len(items)
    BY <1>2, <1>7 DEF Increasing
  <2>. QED
    BY <1>1, <1>2, <1>3, <1>7, <2>1, PageAdded
<1>8. ASSUME SeqUnique, list = "all"
      PROVE  /\ Passed(all, S) \subseteq ToSet(all)
             /\ Len(served) =< Len(items) + k => S \subseteq ToSet(all)
  <2>1. items \in Seq(S)
    <3>1. /\ Len(items) \in Nat /\ DOMAIN items = 1 .. Len(items)
          /\ items \in [1 .. Len(items) -> AllEntries]
      BY <1>2, LenProperties
    <3>2. S = {e \in AllEntries : Wanted(e, q)}
      BY <1>1, <1>8 DEF Listed
    <3>3. \A i \in 1 .. Len(items) : items[i] \in S
      BY <1>2, <3>1, <3>2
    <3>4. items \in [1 .. Len(items) -> S]
      BY <3>1, <3>3
    <3>. QED
      BY <3>1, <3>4, SeqDef
  <2>2. Increasing(items) /\ Passed(items, S) \subseteq ToSet(items)
    BY <1>2, <1>7, <1>8
  <2>. QED
    BY <1>1, <1>3, <1>8, <2>1, <2>2, PageDelivers
<1>. QED
  BY <1>1, <1>4, <1>6, <1>7, <1>8 DEF WalkedOn

\* The answer of a walk that is over.
WalkAnswer(all, cut) ==
  [kind   |-> "walk", list |-> reader.list, filter |-> reader.filter,
   items |-> all, target |-> reader.target, cut |-> cut]

\* The fields of that answer.
LEMMA WalkAnswerFields ==
  ASSUME NEW all, NEW cut, NEW a, a = WalkAnswer(all, cut)
  PROVE  /\ a.kind = "walk" /\ a.list = reader.list /\ a.filter = reader.filter
         /\ a.items = all /\ a.target = reader.target /\ a.cut = cut
BY DEF WalkAnswer

\* k rows are taken from the list as the next page; after a page that is not
\* full the walk answers.
PageTaken(served, w, k, all) ==
  /\ w = Window(Len(served), reader.next, reader.size)
  /\ all = reader.items \o SubSeq(served, w[1] + 1, w[1] + k)
  /\ IF k = PageSize(reader.size)
     THEN NextPage(reader, reader', all) /\ answer' = answer
     ELSE reader' = Idle /\ answer' = WalkAnswer(all, k < w[2] - w[1])

\* A step of a walk takes a page of the list it walks through.
LEMMA TakesPage ==
  ASSUME WalkPage
  PROVE  \E oldFirst \in BOOLEAN : \E served, w, k, all :
           /\ served = Served(reader.list, reader.filter, oldFirst)
           /\ k \in IF reader.list = "batches" THEN 0 .. w[2] - w[1]
                    ELSE {w[2] - w[1]}
           /\ PageTaken(served, w, k, all)
<1>1. PICK oldFirst \in BOOLEAN :
        LET served == Served(reader.list, reader.filter, oldFirst)
            w      == Window(Len(served), reader.next, reader.size)
            n      == w[2] - w[1] IN
        \E k \in IF reader.list = "batches" THEN 0 .. n ELSE {n} :
          LET items == reader.items \o SubSeq(served, w[1] + 1, w[1] + k)
              cut   == k < n IN
          IF k = PageSize(reader.size)
          THEN /\ reader' = [reader EXCEPT !.next = @ + 1, !.items = items]
               /\ UNCHANGED answer
          ELSE /\ reader' = Idle
               /\ answer' = [kind   |-> "walk", list |-> reader.list,
                             filter |-> reader.filter, items |-> items,
                             target |-> reader.target, cut |-> cut]
  BY DEF WalkPage
<1>2. PICK served : served = Served(reader.list, reader.filter, oldFirst)
  OBVIOUS
<1>3. PICK w : w = Window(Len(served), reader.next, reader.size)
  OBVIOUS
<1>4. PICK k \in IF reader.list = "batches" THEN 0 .. w[2] - w[1]
                 ELSE {w[2] - w[1]} :
        PageTaken(served, w, k,
                  reader.items \o SubSeq(served, w[1] + 1, w[1] + k))
  BY <1>1, <1>2, <1>3 DEF PageTaken, NextPage, WalkAnswer
<1>. QED
  BY <1>2, <1>4

\* The rows that are taken are a page of the list, behind the pages before.
LEMMA PageFits ==
  ASSUME IsWalk, NEW T, NEW served \in Seq(T),
         Len(served) \in 0 .. IntMax - SizeCap,
         NEW w, NEW all,
         NEW k, k \in 0 .. w[2] - w[1] \/ k = w[2] - w[1],
         PageTaken(served, w, k, all)
  PROVE  /\ k \in Nat
         /\ \E page \in Seq(T) : /\ all = reader.items \o page
                                 /\ IsPage(page, served, Len(reader.items), k)
         /\ k = w[2] - w[1] /\ k # PageSize(reader.size)
              => Len(served) =< Len(reader.items) + k
         /\ k < w[2] - w[1] \/ k = w[2] - w[1]
<1>1. PICK n, m, p, s : /\ n = Len(served) /\ m = Len(reader.items)
                        /\ p = reader.next /\ s = reader.size
  OBVIOUS
<1>2. /\ p \in Nat \ {0} /\ s \in Ints /\ m = (p - 1) * PageSize(s)
      /\ n \in 0 .. IntMax - SizeCap /\ w = Window(n, p, s)
  BY <1>1 DEF IsWalk, PageTaken
<1>3. PICK e : e = w[2] - w[1]
  OBVIOUS
<1>4. e \in Nat
  <2>1. /\ m \in Nat /\ PageSize(s) \in 1 .. SizeCap
        /\ w = IF m > n THEN << 0, 0 >>
               ELSE << m, IF m + PageSize(s) > n THEN n ELSE m + PageSize(s) >>
    BY <1>2, WindowExact
  <2>2. n \in Nat /\ PageSize(s) \in Nat
    BY <1>2, <2>1, PagingAssumption
  <2>. QED
    BY <1>3, <2>1, <2>2
<1>5. k \in 0 .. w[2] - w[1] /\ k \in 0 .. e
  BY <1>3, <1>4
<1>6. PICK page : page = SubSeq(served, w[1] + 1, w[1] + k)
  OBVIOUS
<1>7. /\ page \in Seq(T) /\ IsPage(page, served, m, k)
      /\ w[2] - w[1] # PageSize(s) => n =< m + (w[2] - w[1])
  BY <1>1, <1>2, <1>5, <1>6, PageCut
<1>8. all = reader.items \o page
  BY <1>6 DEF PageTaken
<1>9. k \in Nat /\ (k < e \/ k = e)
  BY <1>4, <1>5
<1>10. \E pg \in Seq(T) : /\ all = reader.items \o pg
                           /\ IsPage(pg, served, Len(reader.items), k)
  BY <1>1, <1>7, <1>8
<1>11. k = e /\ k # PageSize(reader.size) => Len(served) =< Len(reader.items) + k
  BY <1>1, <1>3, <1>7
<1>. QED
  BY <1>3, <1>9, <1>10, <1>11

\* A page of a walk through entries keeps the invariant.
LEMMA EntryWalkStep ==
  ASSUME RInv, WalkPage, reader.list # "batches"
  PROVE  RInv'
<1>1. /\ StoreInv' /\ HeadInv' /\ BoundInv' /\ AllEntries' = AllEntries
      /\ SeqUnique' <=> SeqUnique
      /\ answer' = answer => AnswerInv'
  BY ReadOnly DEF WalkPage
<1>2. /\ StoreInv /\ BoundInv /\ TableInv /\ IsWalk /\ EntryWalkInv
  BY DEF RInv, StoreInv, ReaderInv, WalkPage, Reading
<1>3. PICK S \in SUBSET AllEntries : S = Listed(reader.list, reader.filter)
  BY DEF Listed, AllEntries
<1>4. PICK oldFirst, served, w, k, all :
        /\ oldFirst \in BOOLEAN
        /\ served = BySeq(S, oldFirst)
        /\ k = w[2] - w[1]
        /\ PageTaken(served, w, k, all)
  <2>1. PICK oldFirst \in BOOLEAN : \E served, w, k, all :
          /\ served = Served(reader.list, reader.filter, oldFirst)
          /\ k \in IF reader.list = "batches" THEN 0 .. w[2] - w[1]
                   ELSE {w[2] - w[1]}
          /\ PageTaken(served, w, k, all)
    BY TakesPage
  <2>2. Served(reader.list, reader.filter, oldFirst) = BySeq(S, oldFirst)
    BY <1>3 DEF Served
  <2>. QED
    BY <2>1, <2>2
<1>5. /\ served \in Seq(S) /\ Len(served) \in 0 .. IntMax - SizeCap
  BY <1>2, <1>4, ListingExact, ListLength
<1>6. k \in Nat /\ (k # PageSize(reader.size) => Len(served) =< Len(reader.items) + k)
  BY <1>2, <1>4, <1>5, PageFits
<1>7. PICK page \in Seq(S) : /\ all = reader.items \o page
                             /\ IsPage(page, served, Len(reader.items), k)
  BY <1>2, <1>4, <1>5, PageFits
<1>8. /\ all \in Seq(AllEntries) /\ Len(all) = Len(reader.items) + k
      /\ \A i \in DOMAIN all : Wanted(all[i], reader.filter)
      /\ SeqUnique =>
           /\ Increasing(all)
           /\ Cardinality(Passed(all, S)) =< Len(all)
           /\ reader.list = "all" =>
                /\ Passed(all, S) \subseteq ToSet(all)
                /\ Len(served) =< Len(reader.items) + k =>
                     S \subseteq ToSet(all)
  <2>1. WalkedOn(all, k, served, S)
    BY <1>2, <1>3, <1>4, <1>6, <1>7, EntryPage
  <2>. QED
    BY <2>1 DEF WalkedOn
<1>9. CASE k = PageSize(reader.size)
  <2>1. NextPage(reader, reader', all) /\ AnswerInv'
    BY <1>1, <1>4, <1>9 DEF PageTaken
  <2>2. /\ IsWalk' /\ reader'.kind = "walk" /\ reader'.items = all
        /\ reader'.list = reader.list /\ reader'.filter = reader.filter
        /\ reader'.target = reader.target
    BY <1>2, <1>8, <1>9, <2>1, WalkGoesOn
  <2>3. Passed(reader.items, Listed(reader.list, reader.filter))' = Passed(all, S)
    BY <1>1, <1>3, <2>2 DEF Passed, Listed, Wanted, WalkPage, vars
  <2>4. /\ reader.list \in {"all", "active"}
        /\ \E h \in AllEntries : reader.target \in 1 .. h.seq
    BY <1>2 DEF EntryWalkInv
  <2>5. EntryWalkInv'
    BY <1>1, <1>8, <2>2, <2>3, <2>4 DEF EntryWalkInv, Increasing, Wanted
  <2>6. ReaderInv'
    BY <2>2, <2>4, <2>5 DEF ReaderInv
  <2>. QED
    BY <1>1, <2>1, <2>6 DEF RInv
<1>10. CASE k # PageSize(reader.size)
  <2>1. /\ reader' = Idle
        /\ answer'.kind = "walk" /\ answer'.list = reader.list
        /\ answer'.filter = reader.filter /\ answer'.items = all
        /\ answer'.target = reader.target
    <3>1. PICK cut : reader' = Idle /\ answer' = WalkAnswer(all, cut)
      BY <1>4, <1>10 DEF PageTaken
    <3>. QED
      BY <3>1, WalkAnswerFields
  <2>2. ReaderInv'
    BY <2>1, IdleReader
  <2>3. WalkComplete'
    <3>. SUFFICES ASSUME reader.list = "all", SeqUnique
                  PROVE  WalkComplete'
      BY <1>1, <2>1 DEF WalkComplete
    <3>1. S \subseteq ToSet(all) /\ Increasing(all)
      BY <1>6, <1>8, <1>10
    <3>2. \A e \in AllEntries : Wanted(e, reader.filter) => e \in ToSet(all)
      BY <1>3, <3>1 DEF Listed
    <3>3. \A i \in DOMAIN all : i > 1 => all[i - 1].seq < all[i].seq
      <4>. SUFFICES ASSUME NEW i \in DOMAIN all, i > 1
                    PROVE  all[i - 1].seq < all[i].seq
        OBVIOUS
      <4>1. PICK l \in Nat : DOMAIN all = 1 .. l
        BY <1>8, LenProperties
      <4>2. i - 1 \in DOMAIN all /\ i - 1 < i
        BY <4>1
      <4>. QED
        BY <3>1, <4>2 DEF Increasing
    <3>. QED
      BY <1>1, <1>8, <2>1, <3>2, <3>3 DEF WalkComplete, Wanted
  <2>4. ActiveWalkOrdered'
    BY <1>1, <1>8, <2>1 DEF ActiveWalkOrdered, Increasing
  <2>5. \E h \in AllEntries' : answer'.target \in 1 .. h.seq
    BY <1>1, <1>2, <2>1 DEF EntryWalkInv
  <2>6. AnswerTyped' /\ StatsConsistent' /\ ContextFound' /\ ExportExact' /\ PageExact'
    BY <2>1 DEF AnswerTyped, StatsConsistent, ContextFound, ExportExact, PageExact
  <2>7. BatchWalkComplete'
    BY <1>2, <2>1 DEF BatchWalkComplete, EntryWalkInv
  <2>8. AnswerInv'
    BY <2>3, <2>4, <2>5, <2>6, <2>7 DEF AnswerInv
  <2>. QED
    BY <1>1, <2>2, <2>8 DEF RInv
<1>. QED
  BY <1>9, <1>10

\* A page of a walk through batches keeps the invariant.
LEMMA BatchWalkStep ==
  ASSUME RInv, WalkPage, reader.list = "batches"
  PROVE  RInv'
<1>1. /\ StoreInv' /\ HeadInv' /\ BoundInv' /\ archiveBatches' = archiveBatches
      /\ answer' = answer => AnswerInv'
  BY ReadOnly DEF WalkPage
<1>2. BoundInv /\ TableInv /\ IsWalk /\ BatchWalkInv
  BY DEF RInv, StoreInv, ReaderInv, WalkPage, Reading
<1>3. PICK n \in Nat : n = Len(archiveBatches) /\ n \in 0 .. IntMax - SizeCap
  BY <1>2, BatchCount
<1>4. PICK served, w, k, all :
        /\ served = BatchList(n)
        /\ k \in 0 .. w[2] - w[1]
        /\ PageTaken(served, w, k, all)
  <2>1. PICK oldFirst \in BOOLEAN : \E served, w, k, all :
          /\ served = Served(reader.list, reader.filter, oldFirst)
          /\ k \in IF reader.list = "batches" THEN 0 .. w[2] - w[1]
                   ELSE {w[2] - w[1]}
          /\ PageTaken(served, w, k, all)
    BY TakesPage
  <2>2. Served(reader.list, reader.filter, oldFirst) = BatchList(n)
    BY <1>3 DEF Served, BatchList
  <2>. QED
    BY <2>1, <2>2
<1>5. PICK T : T = Nat
  OBVIOUS
<1>6. served \in Seq(T) /\ Len(served) = n /\ Len(served) \in 0 .. IntMax - SizeCap
  BY <1>3, <1>4, <1>5, BatchListLength
<1>7. /\ k \in Nat
      /\ k = w[2] - w[1] /\ k # PageSize(reader.size)
           => Len(served) =< Len(reader.items) + k
      /\ k < w[2] - w[1] \/ k = w[2] - w[1]
      /\ \E page \in Seq(T) : /\ all = reader.items \o page
                              /\ IsPage(page, served, Len(reader.items), k)
  BY <1>2, <1>4, <1>6, PageFits
<1>8. PICK target \in Nat : target = reader.target /\ target =< n
  BY <1>2, <1>3 DEF BatchWalkInv, IsWalk
<1>9. /\ all \in Seq(Nat) /\ Len(all) = Len(reader.items) + k
      /\ k # 0 => Len(all) =< n
      /\ BatchesSeen(all, target, n)
  <2>1. PICK items \in Seq(Nat) :
          /\ items = reader.items
          /\ BatchesSeen(items, target, n)
    BY <1>2, <1>3, <1>8 DEF BatchWalkInv, BatchesSeen
  <2>2. PICK page \in Seq(Nat) : /\ all = items \o page
                                 /\ IsPage(page, served, Len(items), k)
    BY <1>5, <1>7, <2>1
  <2>3. served = BatchList(n) /\ k \in Nat
    BY <1>4, <1>7
  <2>4. BatchesWalked(all, items, k, target, n)
    BY <1>8, <2>1, <2>2, <2>3, BatchPage
  <2>. QED
    BY <2>1, <2>4 DEF BatchesWalked
<1>10. Len(all) \in Nat /\ Len(reader.items) \in Nat
  BY <1>2, <1>9, LenProperties DEF BatchWalkInv
<1>11. CASE k = PageSize(reader.size)
  <2>1. NextPage(reader, reader', all) /\ AnswerInv'
    BY <1>1, <1>4, <1>11 DEF PageTaken
  <2>2. /\ IsWalk' /\ reader'.kind = "walk" /\ reader'.items = all
        /\ reader'.list = reader.list /\ reader'.target = reader.target
    BY <1>2, <1>9, <1>11, <2>1, WalkGoesOn
  <2>3. k # 0
    BY <1>2, <1>11, PageSizePositive DEF IsWalk
  <2>4. BatchWalkInv'
    BY <1>1, <1>3, <1>8, <1>9, <2>2, <2>3 DEF BatchWalkInv, BatchesSeen
  <2>5. ReaderInv'
    BY <2>2, <2>4 DEF ReaderInv
  <2>. QED
    BY <1>1, <2>1, <2>5 DEF RInv
<1>12. CASE k # PageSize(reader.size)
  <2>1. PICK cut : cut = (k < w[2] - w[1])
    OBVIOUS
  <2>2. /\ reader' = Idle
        /\ answer'.kind = "walk" /\ answer'.list = "batches"
        /\ answer'.items = all /\ answer'.target = target /\ answer'.cut = cut
    <3>1. reader' = Idle /\ answer' = WalkAnswer(all, cut)
      BY <1>4, <1>12, <2>1 DEF PageTaken
    <3>. QED
      BY <1>8, <3>1, WalkAnswerFields
  <2>3. ReaderInv'
    BY <2>2, IdleReader
  <2>4. ASSUME ~cut
        PROVE  1 .. target \subseteq ToSet(all)
    <3>1. n =< Len(all)
      BY <1>6, <1>7, <1>9, <1>12, <2>1, <2>4
    <3>2. \A b \in 1 .. target : b > n - Len(all)
      BY <1>10, <3>1
    <3>. QED
      BY <1>9, <3>2 DEF BatchesSeen
  <2>5. BatchWalkComplete'
    BY <2>2, <2>4 DEF BatchWalkComplete
  <2>6. AnswerTyped' /\ StatsConsistent' /\ ContextFound' /\ ExportExact' /\ PageExact'
    BY <2>2 DEF AnswerTyped, StatsConsistent, ContextFound, ExportExact, PageExact
  <2>7. WalkComplete' /\ ActiveWalkOrdered'
    BY <2>2 DEF WalkComplete, ActiveWalkOrdered
  <2>8. AnswerInv'
    BY <2>2, <2>5, <2>6, <2>7 DEF AnswerInv
  <2>. QED
    BY <1>1, <2>3, <2>8 DEF RInv
<1>. QED
  BY <1>11, <1>12

-----------------------------------------------------------------------------
(* One page of a list                                                      *)

\* No list that is paged is longer than the arithmetic can bear.
LEMMA ServedLength ==
  ASSUME RInv, NEW list \in {"all", "active", "batches"}, NEW q
  PROVE  Len(Served(list, q, TRUE)) \in 0 .. IntMax - SizeCap
<1>1. BoundInv /\ TableInv
  BY DEF RInv, StoreInv
<1>2. CASE list = "batches"
  <2>1. PICK n \in Nat : n = Len(archiveBatches) /\ n \in 0 .. IntMax - SizeCap
    BY <1>1, BatchCount
  <2>2. Served(list, q, TRUE) = BatchList(n)
    BY <1>2, <2>1 DEF Served, BatchList
  <2>. QED
    BY <2>1, <2>2, BatchListLength
<1>3. CASE list # "batches"
  <2>1. PICK S \in SUBSET AllEntries : S = Listed(list, q)
    BY DEF Listed, AllEntries
  <2>2. Served(list, q, TRUE) = BySeq(S, TRUE)
    BY <1>3, <2>1 DEF Served
  <2>. QED
    BY <1>1, <2>2, ListingExact, ListLength
<1>. QED
  BY <1>2, <1>3

\* A page is answered at once: only its arithmetic has to be right.
LEMMA PageRequestStep ==
  ASSUME RInv, NEW list \in {"all", "active", "batches"}, PageRequest(list)
  PROVE  RInv'
<1>1. StoreInv' /\ HeadInv' /\ BoundInv'
  BY ReadOnly DEF PageRequest
<1>2. ReaderInv'
  BY IdleReader DEF PageRequest
<1>3. PICK p, s, q, n :
        /\ p \in Pages /\ s \in Sizes
        /\ n = Len(Served(list, q, TRUE))
        /\ answer' = [kind |-> "page", page |-> p, page_size |-> s, total |-> n,
                      slice |-> Window(n, p, s)]
  BY DEF PageRequest
<1>4. n \in 0 .. IntMax - SizeCap /\ p \in Ints /\ s \in Ints
  BY <1>3, ServedLength, ReadAssumption
<1>5. PICK w : w = Window(n, p, s)
  OBVIOUS
<1>6. /\ ValidSlice(n, w)
      /\ \A i \in 1 .. n : w[1] < i /\ i =< w[2]
                             <=> (i - 1) \div PageSize(s) = PageNo(p) - 1
  BY <1>4, <1>5, WindowIsPage
<1>7. /\ answer'.kind = "page" /\ answer'.page = p /\ answer'.page_size = s
      /\ answer'.total = n /\ answer'.slice = w
  BY <1>3, <1>5
<1>8. PageExact'
  BY <1>6, <1>7 DEF PageExact, PageSize, PageNo, ValidSlice
<1>9. AnswerInv'
  BY <1>7, <1>8 DEF AnswerInv, AnswerTyped, StatsConsistent, ContextFound,
                    ExportExact, WalkComplete, BatchWalkComplete,
                    ActiveWalkOrdered
<1>. QED
  BY <1>1, <1>2, <1>9 DEF RInv

-----------------------------------------------------------------------------
(* The theorems                                                            *)

\* The invariant holds at the start.
LEMMA RInitInv == RInit => RInv
<1>. SUFFICES ASSUME RInit
              PROVE  RInv
  OBVIOUS
<1>1. StoreInv
  BY InitInv DEF RInit
<1>2. HeadInv /\ BoundInv
  BY DEF RInit, Init, HeadInv, BoundInv, AllEntries, ArchivedRows
<1>3. ReaderInv
  BY DEF RInit, Idle, ReaderInv
<1>4. AnswerInv
  BY DEF RInit, NoAnswer, AnswerInv, AnswerTyped, StatsConsistent, ContextFound,
         ExportExact, PageExact, WalkComplete, BatchWalkComplete, ActiveWalkOrdered
<1>. QED
  BY <1>1, <1>2, <1>3, <1>4 DEF RInv

\* Every step keeps it.
LEMMA RNextInv == RInv /\ [RNext]_allVars => RInv'
<1>. SUFFICES ASSUME RInv, [RNext]_allVars
              PROVE  RInv'
  OBVIOUS
<1>1. CASE StoreStep
  BY <1>1, StoreStepInv
<1>2. CASE StatsCounts
  BY <1>2, StatsCountsStep
<1>3. CASE StatsHead
  BY <1>3, StatsHeadStep
<1>4. CASE ContextCenter
  BY <1>4, ContextCenterStep
<1>5. CASE ContextWindow
  BY <1>5, ContextWindowStep
<1>6. CASE ExportManifest
  BY <1>6, ExportManifestStep
<1>7. CASE ExportRows
  BY <1>7, ExportRowsStep
<1>8. ASSUME NEW list \in {"all", "active", "batches"}, WalkStart(list)
      PROVE  RInv'
  BY <1>8, WalkStartStep
<1>9. CASE WalkPage
  BY <1>9, EntryWalkStep, BatchWalkStep
<1>10. CASE ReadFail
  BY <1>10, ReadFailStep
<1>11. CASE StatsLastVerify
  BY <1>11, StatsLastVerifyStep
<1>12. ASSUME NEW list \in {"all", "active", "batches"}, PageRequest(list)
       PROVE  RInv'
  BY <1>12, PageRequestStep
<1>13. CASE UNCHANGED allVars
  <2>1. UNCHANGED vars /\ answer' = answer /\ reader' = reader
    BY <1>13 DEF allVars, rvars
  <2>2. StoreInv' /\ HeadInv' /\ BoundInv' /\ AnswerInv'
    BY <2>1, ReadOnly
  <2>3. ReaderInv'
    BY <2>1 DEF RInv, ReaderInv, IsWalk, BatchWalkInv, EntryWalkInv, Passed,
                Listed, Wanted, SeqUnique, AllEntries, ArchivedRows, vars,
                PageSize
  <2>. QED
    BY <2>2, <2>3 DEF RInv
<1>. QED
  BY <1>1, <1>2, <1>3, <1>4, <1>5, <1>6, <1>7, <1>8, <1>9, <1>10, <1>11,
     <1>12, <1>13 DEF RNext, ReadStep

\* The inductive invariant: what a request may rely on between two of its
\* queries, and that no answer becomes wrong while it travels.
THEOREM RInvariance == RSpec => []RInv
<1>1. RInit => RInv
  BY RInitInv
<1>2. RInv /\ [RNext]_allVars => RInv'
  BY RNextInv
<1>. QED
  BY <1>1, <1>2, PTL DEF RSpec

\* The counts and the head of one Stats response fit together, although they
\* come from two queries with appends and batches between them.
THEOREM StatsCorrect == RSpec => []StatsConsistent
<1>1. RInv => StatsConsistent
  BY DEF RInv, AnswerInv
<1>. QED
  BY <1>1, RInvariance, PTL

\* TraceService.Context finds the entry again wherever the archiver has moved
\* it, with its neighbours and an intact link.
THEOREM ContextCorrect == RSpec => []ContextFound
<1>1. RInv => ContextFound
  BY DEF RInv, AnswerInv
<1>. QED
  BY <1>1, RInvariance, PTL

\* An exported batch is the segment its manifest describes, even in a log
\* that has forked.
THEOREM ExportCorrect == RSpec => []ExportExact
<1>1. RInv => ExportExact
  BY DEF RInv, AnswerInv
<1>. QED
  BY <1>1, RInvariance, PTL

\* Whatever page a request asks for, it gets the rows of that page.
THEOREM PageCorrect == RSpec => []PageExact
<1>1. RInv => PageExact
  BY DEF RInv, AnswerInv
<1>. QED
  BY <1>1, RInvariance, PTL

\* A client that pages through the filtered entries of a growing log gets
\* every one up to the head it started with, once and in order.
THEOREM WalkCorrect == RSpec => []WalkComplete
<1>1. RInv => WalkComplete
  BY DEF RInv, AnswerInv
<1>. QED
  BY <1>1, RInvariance, PTL

\* A client that pages through the batches misses none that existed when it
\* started, although new ones shift the pages.
THEOREM BatchWalkCorrect == RSpec => []BatchWalkComplete
<1>1. RInv => BatchWalkComplete
  BY DEF RInv, AnswerInv
<1>. QED
  BY <1>1, RInvariance, PTL

\* A client that pages through the active entries gets none twice and none
\* out of order, although the archiver takes rows away from under it.
THEOREM ActiveWalkCorrect == RSpec => []ActiveWalkOrdered
<1>1. RInv => ActiveWalkOrdered
  BY DEF RInv, AnswerInv
<1>. QED
  BY <1>1, RInvariance, PTL

=============================================================================
