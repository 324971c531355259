------------------------------- MODULE ReadApi -------------------------------
(***************************************************************************)
(* The read endpoints on the running store: Stats, Trace.Context, the      *)
(* export of a batch, any one page of a list, and a client that walks      *)
(* through the pages of the entry list or of the batch list.  All but the  *)
(* single page are several queries, with appends and batches committing    *)
(* between any two of them.                                                *)
(***************************************************************************)
EXTENDS AuditStore, Paging, SequencesExt

CONSTANTS Radius,    \* bound: radius of a context request
          Sizes,     \* bound: page sizes a client asks for
          Pages,     \* bound: page numbers a client asks for out of turn
          Filters    \* bound: filters a client walks with

\* A filter names the bodies that match its actor, action and target (all of
\* them if none is given); a bound of 0 on the position is none.
ASSUME ReadAssumption ==
  /\ Radius \in Nat
  /\ Sizes \subseteq Ints /\ Pages \subseteq Ints
  /\ \A q \in Filters : q = [bodies |-> q.bodies, seq_from |-> q.seq_from,
                             seq_to |-> q.seq_to]
  /\ \A q \in Filters : q.seq_from \in Nat /\ q.seq_to \in Nat

\* No list is so long that paging through it overflows: an int counts more
\* rows than a database can hold.
ASSUME LengthAssumption == 2 * MaxSeq + SizeCap =< IntMax

VARIABLES
  reader,   \* what the request (or walk) in progress has read so far
  answer    \* the last response (or the list a walk has collected), until
            \* the next request

rvars == << reader, answer >>
allVars == << vars, rvars >>

Idle == [kind |-> "idle"]
NoAnswer == [kind |-> "none"]

RInit == Init /\ reader = Idle /\ answer = NoAnswer

Reading(kind) == up /\ reader.kind = kind

\* Mutant of HeadSeq: ORDER BY seq without DESC.
FirstSeq == CHOOSE n \in {r.seq : r \in auditEntries} :
              \A r \in auditEntries : r.seq >= n

HeadSeq ==
  IF auditEntries = {} THEN 0
  ELSE CHOOSE n \in {r.seq : r \in auditEntries} :
         \A r \in auditEntries : r.seq =< n

-----------------------------------------------------------------------------
(* GET /api/v1/stats: the counts in one statement, then the head, then the *)
(* last verification.                                                      *)

StatsCounts ==
  /\ Reading("idle")
  /\ reader' = [kind     |-> "stats",
                archived |-> Cardinality(archiveEntries),
                active   |-> Cardinality(auditEntries),
                batches  |-> Len(archiveBatches)]
  /\ answer' = NoAnswer
  /\ UNCHANGED vars

\* An error of Head is dropped: the response, with status 200, then has
\* head_seq 0, and nothing in it says so.
StatsHead ==
  /\ Reading("stats")
  /\ \E failed \in BOOLEAN :
       reader' = [kind  |-> "statsHead",
                  stats |-> [kind     |-> "stats",
                             total    |-> reader.archived + reader.active,
                             archived |-> reader.archived,
                             active   |-> reader.active,
                             batches  |-> reader.batches,
                             head_seq |-> IF failed THEN 0 ELSE HeadSeq,
                             failed   |-> failed]]
  /\ UNCHANGED << vars, answer >>

\* LastVerify; its errors are dropped too.  What it reads is left out: no
\* verification runs here.
StatsLastVerify ==
  /\ Reading("statsHead")
  /\ answer' = reader.stats
  /\ reader' = Idle
  /\ UNCHANGED vars

-----------------------------------------------------------------------------
(* GET /api/v1/entries/:id/context: EntryByID, then AllEntries.            *)

ContextCenter ==
  /\ Reading("idle")
  /\ \E e \in AllEntries : reader' = [kind |-> "context", center |-> e]
  /\ answer' = NoAnswer
  /\ UNCHANGED vars

\* entries[a..b], cut off at the ends.
Around(all, a, b) == SubSeq(all, IF a < 1 THEN 1 ELSE a,
                                 IF b > Len(all) THEN Len(all) ELSE b)

\* TraceService.Context after the second read; "missing" is a 404.
ContextAnswer(all, center) ==
  LET here == {i \in DOMAIN all : all[i].id = center.id}
      idx  == CHOOSE i \in here : \A j \in here : i =< j IN
  IF here = {} THEN [kind |-> "missing"]
  ELSE [kind    |-> "context",
        center  |-> center,
        before  |-> Around(all, idx - Radius, idx - 1),
        after   |-> Around(all, idx + 1, idx + Radius),
        link_ok |-> idx = 1 \/ center.prev_hash = all[idx - 1].hash]

\* Mutant of ContextWindow: the second read looks at the active rows only.
ContextActive ==
  /\ Reading("context")
  /\ \E oldFirst \in BOOLEAN :
       answer' = ContextAnswer(BySeq(auditEntries, oldFirst), reader.center)
  /\ reader' = Idle
  /\ UNCHANGED vars

ContextWindow ==
  /\ Reading("context")
  /\ \E oldFirst \in BOOLEAN :
       answer' = ContextAnswer(BySeq(AllEntries, oldFirst), reader.center)
  /\ reader' = Idle
  /\ UNCHANGED vars

-----------------------------------------------------------------------------
(* GET /api/v1/archive/batches/:no: the manifest, then its rows.           *)

ExportManifest ==
  /\ Reading("idle")
  /\ \E n \in DOMAIN archiveBatches :
       reader' = [kind |-> "export", no |-> n, manifest |-> archiveBatches[n]]
  /\ answer' = NoAnswer
  /\ UNCHANGED vars

\* Mutant of ExportRows: rows are found by position, in both tables.
ExportPositions ==
  /\ Reading("export")
  /\ LET m == reader.manifest
         rows == BySeq({r \in AllEntries : r.seq \in m.start_seq .. m.end_seq},
                       TRUE) IN
     answer' = [kind |-> "export", manifest |-> m, rows |-> rows, cut |-> FALSE]
  /\ reader' = Idle
  /\ UNCHANGED vars

\* A read error ends the loop over the rows as if there were no more
\* (rows.Err is never looked at): the first k are sent, with status 200.
ExportRows ==
  /\ Reading("export")
  /\ LET rows == BySeq({a.row : a \in {x \in archiveEntries :
                           x.batch_no = reader.no}}, TRUE) IN
     \E k \in 0 .. Len(rows) :
       answer' = [kind     |-> "export",
                  manifest |-> reader.manifest,
                  rows     |-> SubSeq(rows, 1, k),
                  cut      |-> k < Len(rows)]
  /\ reader' = Idle
  /\ UNCHANGED vars

-----------------------------------------------------------------------------
(* Pages, and a client that asks for page 1, 2, 3, ... until one is not    *)
(* full.                                                                   *)

\* The batch list has none.
NoFilter == [bodies |-> {}, seq_from |-> 0, seq_to |-> 0]

\* Mutant of Wanted: seq_to is exclusive.
WantedBelow(e, q) == /\ e.body \in q.bodies
                     /\ q.seq_from > 0 => e.seq >= q.seq_from
                     /\ q.seq_to > 0 => e.seq < q.seq_to

\* The condition of filter; no handler sets the bounds on the event time.
Wanted(e, q) == /\ e.body \in q.bodies
                /\ q.seq_from > 0 => e.seq >= q.seq_from
                /\ q.seq_to > 0 => e.seq =< q.seq_to

Listed(list, q) ==
  {e \in IF list = "active" THEN auditEntries ELSE AllEntries : Wanted(e, q)}

\* Mutant of Served: active entries newest first.
ServedNewestFirst(list, q, oldFirst) ==
  CASE list = "all"     -> BySeq(Listed(list, q), oldFirst)
    [] list = "active"  -> Reverse(BySeq(Listed(list, q), oldFirst))
    [] list = "batches" -> [i \in 1 .. Len(archiveBatches) |->
                              Len(archiveBatches) + 1 - i]

\* Mutant of Served: both tables are read without ORDER BY.
ServedUnsorted(list, q, oldFirst) ==
  IF list = "batches"
  THEN [i \in 1 .. Len(archiveBatches) |-> Len(archiveBatches) + 1 - i]
  ELSE BySeq(Listed(list, q) \cap auditEntries, oldFirst)
         \o BySeq(Listed(list, q) \ auditEntries, oldFirst)

\* The lists a client can walk through, in the order the store serves them:
\* all entries, the active ones only (include_archived=false), each filtered
\* before it is cut into pages (filter keeps the order), or the batch
\* numbers, newest first.
Served(list, q, oldFirst) ==
  IF list = "batches"
  THEN [i \in 1 .. Len(archiveBatches) |-> Len(archiveBatches) + 1 - i]
  ELSE BySeq(Listed(list, q), oldFirst)

\* One page, of any number: GET /api/v1/entries or /api/v1/archive/batches.
\* Of the response the slice is kept, and the length of what it is cut from.
PageRequest(list) ==
  /\ Reading("idle")
  /\ \E p \in Pages, s \in Sizes,
        q \in IF list = "batches" THEN {NoFilter} ELSE Filters :
       LET n == Len(Served(list, q, TRUE)) IN
       answer' = [kind |-> "page", page |-> p, page_size |-> s, total |-> n,
                  slice |-> Window(n, p, s)]
  /\ reader' = Idle
  /\ UNCHANGED vars

\* What the walk has to deliver, noted when it starts.
WalkStart(list) ==
  /\ Reading("idle")
  /\ \E size \in Sizes, q \in IF list = "batches" THEN {NoFilter} ELSE Filters :
       reader' = [kind   |-> "walk", list |-> list, filter |-> q,
                  size   |-> size, next |-> 1, items |-> << >>,
                  target |-> IF list = "batches" THEN Len(archiveBatches)
                             ELSE HeadSeq]
  /\ answer' = NoAnswer
  /\ UNCHANGED vars

\* Batches, too, takes a read error for the end of its rows: the page is cut
\* after k items.  (Its count and its rows are two queries; a batch that
\* commits between them does not change which page is beyond the last.)
WalkPage ==
  /\ Reading("walk")
  /\ \E oldFirst \in BOOLEAN :
       LET served == Served(reader.list, reader.filter, oldFirst)
           w      == Window(Len(served), reader.next, reader.size)
           n      == w[2] - w[1] IN
       \E k \in IF reader.list = "batches" THEN 0 .. n ELSE {n} :
         LET items == reader.items \o SubSeq(served, w[1] + 1, w[1] + k)
             cut   == k < n IN
         IF k = PageSize(reader.size)
         THEN /\ reader' = [reader EXCEPT !.next = @ + 1, !.items = items]
              /\ UNCHANGED answer
         ELSE /\ reader' = Idle
              /\ answer' = [kind   |-> "walk", list |-> reader.list,
                            filter |-> reader.filter, items |-> items,
                            target |-> reader.target, cut |-> cut]
  /\ UNCHANGED vars

-----------------------------------------------------------------------------

\* A query fails, or the client gives up.
ReadFail == /\ up
            /\ reader # Idle
            /\ reader' = Idle
            /\ UNCHANGED << vars, answer >>

ReadStep == \/ StatsCounts \/ StatsHead \/ StatsLastVerify
            \/ ContextCenter \/ ContextWindow
            \/ ExportManifest \/ ExportRows
            \/ \E list \in {"all", "active", "batches"} : PageRequest(list)
            \/ \E list \in {"all", "active", "batches"} : WalkStart(list)
            \/ WalkPage
            \/ ReadFail

StoreStep == \/ Start /\ UNCHANGED rvars
             \/ Crash /\ reader' = Idle /\ UNCHANGED answer
             \/ (\E c \in Clients : Client(c)) /\ UNCHANGED rvars
             \/ Archiver /\ UNCHANGED rvars

RNext == StoreStep \/ ReadStep

RSpec == RInit /\ [][RNext]_allVars

-----------------------------------------------------------------------------
(* Properties.  Rows are never removed, so SeqUnique now means that no     *)
(* earlier read has seen a fork either.                                    *)

\* The rows of an answer are rows as they were stored.
AnswerTyped ==
  /\ answer.kind \in {"none", "stats", "context", "missing", "export", "page",
                      "walk"}
  /\ answer.kind = "context" =>
       \A e \in {answer.center} \cup ToSet(answer.before) \cup ToSet(answer.after) :
         IsRow(e)
  /\ answer.kind = "export" => \A e \in ToSet(answer.rows) : IsRow(e)

RTypeOK ==
  /\ reader.kind \in {"idle", "stats", "statsHead", "context", "export", "walk"}
  /\ reader.kind = "walk" => reader.list = "batches"
                               \/ \A e \in ToSet(reader.items) : IsRow(e)
  /\ AnswerTyped

\* The numbers of one response fit together although they come from two
\* reads: unless the query of the head fails there is a head, and it is never
\* behind the number of entries.
StatsConsistent ==
  answer.kind = "stats" /\ ~answer.failed =>
    /\ answer.head_seq > 0
    /\ SeqUnique => answer.head_seq >= answer.total

\* A row that was found by its id is found again in the list, although the
\* archiver may have moved it in between; in an unforked log its link is
\* reported intact and its neighbours are the adjacent positions.
ContextFound ==
  /\ answer.kind # "missing"
  /\ answer.kind = "context" /\ SeqUnique =>
       LET s == answer.center.seq IN
       /\ answer.link_ok
       /\ \A i \in DOMAIN answer.before :
            answer.before[i].seq = s - Len(answer.before) - 1 + i
       /\ Len(answer.before) = IF s > Radius THEN Radius ELSE s - 1
       /\ \A i \in DOMAIN answer.after : answer.after[i].seq = s + i

\* An exported batch is the segment its manifest describes, even if the log
\* has forked: its rows, in order, linked to each other and to the first
\* hash of the manifest, and, unless they are cut short, to the last.
ExportExact ==
  answer.kind = "export" =>
    LET m == answer.manifest IN
    /\ \A i \in DOMAIN answer.rows :
         /\ answer.rows[i].seq = m.start_seq + i - 1
         /\ answer.rows[i].prev_hash =
              IF i = 1 THEN m.prev_hash ELSE answer.rows[i - 1].hash
    /\ ~answer.cut => /\ ToSet(answer.rows) = m.payload
                      /\ Len(answer.rows) = m.item_count
                      /\ Last(answer.rows).hash = m.head_hash

\* Whatever page number and size a request carries, the slice is within the
\* list and holds just the rows whose number, cut into pages by division,
\* falls on that page: no multiplication on the way overflows.
PageExact ==
  answer.kind = "page" =>
    LET d == PageSize(answer.page_size)
        w == answer.slice IN
    /\ ValidSlice(answer.total, w)
    /\ \A i \in 1 .. answer.total :
         w[1] < i /\ i =< w[2] <=> (i - 1) \div d = PageNo(answer.page) - 1

\* Paging by offset over a growing log is stable: a walk through the entries
\* that pass a filter delivers each of them up to the head it started with,
\* once, in order, and no other.
WalkComplete ==
  answer.kind = "walk" /\ answer.list = "all" /\ SeqUnique =>
    /\ \A e \in AllEntries : e.seq =< answer.target /\ Wanted(e, answer.filter)
                             => e \in ToSet(answer.items)
    /\ \A i \in DOMAIN answer.items :
         /\ Wanted(answer.items[i], answer.filter)
         /\ i > 1 => answer.items[i - 1].seq < answer.items[i].seq

\* Batches are served newest first: new ones shift a walk so that it sees
\* some twice, but it misses none that existed when it started (no page
\* being cut short).
BatchWalkComplete ==
  answer.kind = "walk" /\ answer.list = "batches" /\ ~answer.cut =>
    1 .. answer.target \subseteq ToSet(answer.items)

\* A walk through the active entries loses rows to the archiver, but never
\* delivers one twice or out of order.
ActiveWalkOrdered ==
  answer.kind = "walk" /\ answer.list = "active" /\ SeqUnique =>
    \A i, j \in DOMAIN answer.items :
      i < j => answer.items[i].seq < answer.items[j].seq

-----------------------------------------------------------------------------
(* The inductive invariant: what a request in progress may rely on between *)
(* two of its queries.                                                     *)

\* A running server has a head; positions stay within the bound.
HeadInv == up => auditEntries # {}

BoundInv == /\ \A e \in AllEntries : e.seq =< MaxSeq
            /\ \A c \in Clients : pc[c] = "built" => pending[c].seq =< MaxSeq

\* The rows of a list that come no later than something delivered.
Passed(items, rows) ==
  {e \in rows : \E i \in DOMAIN items : e.seq =< items[i].seq}

IsWalk == /\ reader = [kind   |-> "walk",
                       list   |-> reader.list,
                       filter |-> reader.filter,
                       size   |-> reader.size,
                       next   |-> reader.next,
                       items  |-> reader.items,
                       target |-> reader.target]
          /\ reader.size \in Ints
          /\ reader.next \in Nat \ {0}
          /\ reader.target \in Nat
          /\ Len(reader.items) = (reader.next - 1) * PageSize(reader.size)

\* New batches are put in front: what was delivered are at least the ones
\* that came first when the walk started.
BatchWalkInv ==
  LET n == Len(archiveBatches) IN
  /\ reader.items \in Seq(Nat)
  /\ reader.target =< n
  /\ Len(reader.items) =< n
  /\ \A b \in 1 .. reader.target :
       b > n - Len(reader.items) => b \in ToSet(reader.items)

\* New entries are put behind and archived ones leave the active list in
\* front: the pages that were delivered cover what comes before their last
\* row, and of all entries they hold just that.
EntryWalkInv ==
  LET passed == Passed(reader.items, Listed(reader.list, reader.filter)) IN
  /\ reader.list \in {"all", "active"}
  /\ reader.items \in Seq(AllEntries)
  /\ \A i \in DOMAIN reader.items : Wanted(reader.items[i], reader.filter)
  /\ \E h \in AllEntries : reader.target \in 1 .. h.seq
  /\ SeqUnique =>
       /\ \A i, j \in DOMAIN reader.items :
            i < j => reader.items[i].seq < reader.items[j].seq
       /\ Cardinality(passed) =< Len(reader.items)
       /\ reader.list = "all" => passed \subseteq ToSet(reader.items)

ReaderInv ==
  /\ reader.kind \in {"idle", "stats", "statsHead", "context", "export", "walk"}
  /\ reader.kind = "stats" =>
       /\ reader.archived \in Nat /\ reader.active \in Nat
       /\ SeqUnique =>
            \E h \in AllEntries : reader.archived + reader.active =< h.seq
  /\ reader.kind = "statsHead" =>
       /\ reader.stats.kind = "stats"
       /\ ~reader.stats.failed =>
            /\ reader.stats.head_seq > 0
            /\ SeqUnique => reader.stats.head_seq >= reader.stats.total
  /\ reader.kind = "context" => reader.center \in AllEntries
  /\ reader.kind = "export" => /\ reader.no \in DOMAIN archiveBatches
                               /\ reader.manifest = archiveBatches[reader.no]
  /\ reader.kind = "walk" =>
       IsWalk /\ IF reader.list = "batches" THEN BatchWalkInv ELSE EntryWalkInv

\* The answers stay true: nothing that is written later makes them wrong.
AnswerInv ==
  /\ AnswerTyped /\ StatsConsistent /\ ContextFound /\ ExportExact
  /\ PageExact /\ WalkComplete /\ BatchWalkComplete /\ ActiveWalkOrdered
  /\ answer.kind = "walk" /\ answer.list = "all" =>
       \E h \in AllEntries : answer.target \in 1 .. h.seq

RInv == StoreInv /\ HeadInv /\ BoundInv /\ ReaderInv /\ AnswerInv

=============================================================================
