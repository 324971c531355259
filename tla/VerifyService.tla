--------------------------- MODULE VerifyService ---------------------------
(***************************************************************************)
(* VerifyService.Verify (internal/service/verify.go) on the running store. *)
(* A verification is FOUR separate reads and writes of the database, with  *)
(* appends, batches, crashes between any two of them: AllEntries, Head,    *)
(* Batches and SetVerify.  None of them takes writeMu.                     *)
(***************************************************************************)
EXTENDS AuditStore, ChainVerify, SequencesExt

CONSTANT VerifyRequests   \* the request bodies POST /api/v1/verify is sent

ASSUME RequestsAssumption == \A req \in VerifyRequests : ValidRequest(req)

VARIABLES
  vpc,         \* "idle", "read", "head" or "checked"
  vreq,        \* the request being served
  vEntries,    \* the result of AllEntries
  vHead,       \* the result of Head, a row
  vReport,     \* the report of chain.Verify
  vBatches,    \* the archives part of the report: one record per batch
  lastVerify   \* meta.last_verify: the status of the last SetVerify

vlocals == << vpc, vreq, vEntries, vHead, vReport, vBatches >>
vvars == << vlocals, lastVerify >>
allVars == << vars, vvars >>

NoReport == [status |-> "none"]

VIdle == /\ vpc' = "idle"
         /\ vreq' = Request("full", 0, 0, 0)
         /\ vEntries' = << >>
         /\ vHead' = NoEntry
         /\ vReport' = NoReport
         /\ vBatches' = {}

VInit == /\ Init
         /\ vpc = "idle"
         /\ vreq = Request("full", 0, 0, 0)
         /\ vEntries = << >>
         /\ vHead = NoEntry
         /\ vReport = NoReport
         /\ vBatches = {}
         /\ lastVerify = "none"

-----------------------------------------------------------------------------

\* ValidateVerifyRequest has passed; v.Store.AllEntries.
ReadEntries(req) ==
  /\ up
  /\ vpc = "idle"
  /\ vpc' = "read"
  /\ vreq' = req
  /\ \E oldFirst \in BOOLEAN : vEntries' = BySeq(AllEntries, oldFirst)
  /\ UNCHANGED << vars, vHead, vReport, vBatches, lastVerify >>

\* Mutant of ReadHead: the tail of the entries is compared with itself.
ReadOwnTail ==
  /\ up
  /\ vpc = "read"
  /\ vpc' = "head"
  /\ \E h \in auditEntries :
       /\ IsHead(h)
       /\ vHead' = h
       /\ vReport' = Verify(vEntries, Last(vEntries).hash, vreq)
  /\ UNCHANGED << vars, vreq, vEntries, vBatches, lastVerify >>

\* Mutant of ReadHead: the wrong hash of the head is used.
ReadHeadPrev ==
  /\ up
  /\ vpc = "read"
  /\ vpc' = "head"
  /\ \E h \in auditEntries :
       /\ IsHead(h)
       /\ vHead' = h
       /\ vReport' = Verify(vEntries, h.prev_hash, vreq)
  /\ UNCHANGED << vars, vreq, vEntries, vBatches, lastVerify >>

\* v.Store.Head, and chain.Verify on what the two reads returned.
ReadHead ==
  /\ up
  /\ vpc = "read"
  /\ vpc' = "head"
  /\ \E h \in auditEntries :
       /\ IsHead(h)
       /\ vHead' = h
       /\ vReport' = Verify(vEntries, h.hash, vreq)
  /\ UNCHANGED << vars, vreq, vEntries, vBatches, lastVerify >>

\* v.Store.Batches: the newest k batches go into the report, as linked.  k is
\* less than their number if there are more than 200, if the query fails
\* (the error is dropped) or if its rows are cut short.
ReadBatches ==
  /\ up
  /\ vpc = "head"
  /\ vpc' = "checked"
  /\ \E k \in 0 .. Len(archiveBatches) :
       vBatches' = {[batch_no  |-> n,
                     start_seq |-> archiveBatches[n].start_seq,
                     end_seq   |-> archiveBatches[n].end_seq,
                     head_hash |-> archiveBatches[n].head_hash,
                     linked    |-> TRUE] :
                      n \in Len(archiveBatches) - k + 1 .. Len(archiveBatches)}
  /\ UNCHANGED << vars, vreq, vEntries, vHead, vReport, lastVerify >>

\* v.Store.SetVerify, then the response.
StoreReport ==
  /\ up
  /\ vpc = "checked"
  /\ lastVerify' = vReport.status
  /\ VIdle
  /\ UNCHANGED vars

\* A query fails or the request is cancelled.
VerifyFail ==
  /\ up
  /\ vpc # "idle"
  /\ VIdle
  /\ UNCHANGED << vars, lastVerify >>

VerifyStep == \/ \E req \in VerifyRequests : ReadEntries(req)
              \/ ReadHead
              \/ ReadBatches
              \/ StoreReport
              \/ VerifyFail

\* The store goes on; a crash also ends the verification.
StoreStep == \/ Start /\ UNCHANGED vvars
             \/ Crash /\ VIdle /\ UNCHANGED lastVerify
             \/ (\E c \in Clients : Client(c)) /\ UNCHANGED vvars
             \/ Archiver /\ UNCHANGED vvars

VNext == StoreStep \/ VerifyStep

VSpec == VInit /\ [][VNext]_allVars

-----------------------------------------------------------------------------
(* Properties.  Rows are never removed, so SeqUnique now means that the    *)
(* rows a verification has read were not forked either.                    *)

VTypeOK == /\ vpc \in {"idle", "read", "head", "checked"}
           /\ ValidRequest(vreq)
           /\ \A i \in DOMAIN vEntries : IsRow(vEntries[i])
           /\ lastVerify \in {"none", "ok", "link_broken", "hash_mismatch",
                              "head_mismatch"}

\* However appends, batches and restarts interleave with it, a verification
\* never reports a broken link or a wrong hash in a log that is intact, nor
\* stores such a result.
NoFalseBreak ==
  SeqUnique =>
    /\ vpc \in {"head", "checked"} => vReport.status \in {"ok", "head_mismatch"}
    /\ lastVerify \in {"none", "ok", "head_mismatch"}

\* "ok" for a full verification of an intact log: every position up to that
\* of the head it reports was checked, and the hash it reports is the hash
\* of the last entry it checked.
OkCoversHead ==
  SeqUnique /\ vpc \in {"head", "checked"} /\ vReport.status = "ok"
            /\ vreq.mode = "full"
    => /\ vReport.checked_entries = vHead.seq
       /\ vReport.end_seq = vHead.seq
       /\ vReport.head_hash = Last(vEntries).hash

\* A head mismatch in an intact log has one explanation: entries were
\* appended between the two reads.
MismatchMeansGrowth ==
  SeqUnique /\ vpc \in {"head", "checked"} /\ vReport.status = "head_mismatch"
    => vHead.seq > Last(vEntries).seq

\* The batches are read last and `linked' is a constant: nothing was compared.
\* It is true all the same, also of a batch that holds rows the verification
\* has not seen, and in a log that has forked: the rows of the batch are its
\* positions, linked to each other and to the batch before it.
LinkedBatchesIntact ==
  \A b \in {x \in vBatches : x.linked} :
    /\ {r.seq : r \in BatchRows(b.batch_no)} = b.start_seq .. b.end_seq
    /\ \A r \in BatchRows(b.batch_no) :
         /\ r.seq = b.end_seq => r.hash = b.head_hash
         /\ \/ r.seq = 1
            \/ \E p \in BatchRows(b.batch_no) \cup BatchRows(b.batch_no - 1) :
                 Follows(r, p)

-----------------------------------------------------------------------------
(* The inductive invariant: what a verification in progress holds, while   *)
(* the store goes on.                                                      *)

\* The rows it has read: each once, in order, every position up to the last,
\* and with each row the one it follows.  They are in the log still.
ReadInv ==
  vpc # "idle" =>
    /\ vEntries \in Seq(AllEntries) /\ vEntries # << >>
    /\ \A i, j \in DOMAIN vEntries :
         i < j => /\ vEntries[i] # vEntries[j]
                  /\ vEntries[i].seq =< vEntries[j].seq
    /\ \A i \in DOMAIN vEntries :
         /\ \/ IsGenesis(vEntries[i])
            \/ \E j \in DOMAIN vEntries : Follows(vEntries[i], vEntries[j])
         /\ \A n \in 1 .. vEntries[i].seq :
              \E j \in DOMAIN vEntries : vEntries[j].seq = n

\* The head, read later, is not older than the last of them.
ReportInv ==
  vpc \in {"head", "checked"} =>
    /\ vHead \in AllEntries
    /\ Last(vEntries).seq =< vHead.seq
    /\ vReport = Verify(vEntries, vHead.hash, vreq)

\* Batches once read are batches for ever.
SeenBatchesInv ==
  \A b \in vBatches :
    /\ b.batch_no \in DOMAIN archiveBatches
    /\ b.start_seq = archiveBatches[b.batch_no].start_seq
    /\ b.end_seq = archiveBatches[b.batch_no].end_seq
    /\ b.head_hash = archiveBatches[b.batch_no].head_hash

\* No report of an intact log that was stored names a break.
StoredInv == SeqUnique => lastVerify \in {"none", "ok", "head_mismatch"}

VerifyInv == VTypeOK /\ ReadInv /\ ReportInv /\ SeenBatchesInv /\ StoredInv

-----------------------------------------------------------------------------

\* docs/01 "the verification is a snapshot up to the head recorded first, it
\* does not block writes": an intact log is reported ok.
NoFalseAlarm ==
  SeqUnique /\ vpc = "checked" => vReport.status = "ok"

=============================================================================
