---------------------------- MODULE ChainVerify ----------------------------
(***************************************************************************)
(* chain.Verify (internal/chain/verify.go) as a pure function of the       *)
(* merged entries, the head the store returned and the request.  Entries   *)
(* are a sequence in ORDER BY seq; two entries may share a position.       *)
(***************************************************************************)
EXTENDS Chain, Sequences, FiniteSets

CONSTANT HeadWindow   \* entries a "head" verification looks at: 10 in the code

ASSUME HeadWindowAssumption == HeadWindow \in Nat \ {0}

Modes == {"full", "range", "head", "spot"}

\* model.VerifyRequest; the mode "" is "full".
Request(mode, a, b, step) ==
  [mode |-> mode, start_seq |-> a, end_seq |-> b, sample_step |-> step]

\* ValidateVerifyRequest.
ValidRequest(req) ==
  /\ req.mode \in Modes
  /\ req.mode = "range" => req.start_seq >= 1 /\ req.end_seq >= req.start_seq
  /\ req.mode = "spot" => req.sample_step >= 1

\* Mutant of SelectEntries: one entry too many in a head verification.
SelectOneMore(entries, req) ==
  LET n == Len(entries)
      step == IF req.sample_step < 1 THEN 100 ELSE req.sample_step IN
  {i \in 1 .. n :
     \/ req.mode = "full"
     \/ req.mode = "range" /\ entries[i].seq \in req.start_seq .. req.end_seq
     \/ req.mode = "head" /\ i >= n - HeadWindow
     \/ req.mode = "spot" /\ ((i - 1) % step = 0 \/ i = n)}

\* selectEntries: the indices of the entries a request looks at.
SelectEntries(entries, req) ==
  LET n == Len(entries)
      step == IF req.sample_step < 1 THEN 100 ELSE req.sample_step IN
  {i \in 1 .. n :
     \/ req.mode = "full"
     \/ req.mode = "range" /\ entries[i].seq \in req.start_seq .. req.end_seq
     \/ req.mode = "head" /\ i > n - HeadWindow
     \/ req.mode = "spot" /\ ((i - 1) % step = 0 \/ i = n)}

\* Mutant of FindSeq: positions taken for zero-based indices.
FindSeqAsIndex(entries, seq) == IF seq + 1 =< Len(entries) THEN seq + 1 ELSE 0

\* findSeq: the first entry at a position, 0 if there is none.
FindSeq(entries, seq) ==
  IF \E i \in 1 .. Len(entries) : entries[i].seq = seq
  THEN CHOOSE i \in 1 .. Len(entries) :
         /\ entries[i].seq = seq
         /\ \A j \in 1 .. i - 1 : entries[j].seq # seq
  ELSE 0

\* The hash an entry has to refer to.  Without a preceding entry it is its
\* own prev_hash: the check then says nothing.
ExpectedPrev(entries, e) ==
  LET p == FindSeq(entries, e.seq - 1) IN
  IF e.seq = 1 THEN ZeroHash
  ELSE IF p > 0 THEN entries[p].hash
  ELSE e.prev_hash

\* Mutant of EntryStatus: the hash is not recomputed.
EntryLinkStatus(entries, e) ==
  IF e.prev_hash # ExpectedPrev(entries, e) THEN "link_broken" ELSE "ok"

\* What the loop of Verify says of one entry: the link first, then the hash.
EntryStatus(entries, e) ==
  IF e.prev_hash # ExpectedPrev(entries, e) THEN "link_broken"
  ELSE IF ~HashOK(e) THEN "hash_mismatch"
  ELSE "ok"

Smallest(S) == CHOOSE i \in S : \A j \in S : i =< j
Largest(S) == CHOOSE i \in S : \A j \in S : j =< i

\* Verify: the loop stops at the first bad entry; the head is compared only
\* after a loop without one, and only for a full or head verification.
Verify(entries, head_hash, req) ==
  LET sel  == SelectEntries(entries, req)
      bad  == {i \in sel : EntryStatus(entries, entries[i]) # "ok"}
      tail == entries[Len(entries)]
      report(status, seq, checked) ==
        [status |-> status, break_seq |-> seq, checked_entries |-> checked,
         start_seq |-> IF sel = {} THEN 0 ELSE entries[Smallest(sel)].seq,
         end_seq   |-> IF sel = {} THEN 0 ELSE entries[Largest(sel)].seq,
         head_hash |-> head_hash]
      first == Smallest(bad) IN
  IF bad # {}
  THEN report(EntryStatus(entries, entries[first]), entries[first].seq,
              Cardinality({i \in sel : i =< first}))
  ELSE IF sel # {} /\ req.mode \in {"full", "head"} /\ tail.hash # head_hash
  THEN report("head_mismatch", tail.seq, Cardinality(sel))
  ELSE report("ok", 0, Cardinality(sel))

=============================================================================
