------------------------- MODULE ArchiveService_proof -------------------------
(***************************************************************************)
(* Proofs about ArchiveService, for any number of handlers and of triggers *)
(* of the archiver: at most one of them is inside Store.Archive, and the   *)
(* status it leaves behind is right.  That every step of the process is a  *)
(* step of AuditStore or leaves the store alone is so by construction; it  *)
(* only brings the invariant of AuditStore_proof along.                    *)
(***************************************************************************)
EXTENDS ArchiveService, AuditStore_proof

-----------------------------------------------------------------------------
(* The steps of the store                                                  *)

\* A step of a trigger is a step of the archiver, or one the store does not
\* see.
LEMMA TriggerRefines ==
  ASSUME NEW t \in Triggers, TriggerStep(t)
  PROVE  Next \/ UNCHANGED vars
<1>1. CASE Select(t)
  BY <1>1 DEF Select, Next, Archiver
<1>2. CASE Commit(t)
  BY <1>2 DEF Commit, Next, Archiver
<1>3. CASE Abort(t)
  BY <1>3 DEF Abort, Next, Archiver
<1>4. CASE \/ Drop(t) \/ Enter(t) \/ Skip(t) \/ SelectFail(t) \/ Record(t)
           \/ Leave(t)
  BY <1>4 DEF Drop, Enter, Skip, SelectFail, Record, Leave
<1>. QED
  BY <1>1, <1>2, <1>3, <1>4 DEF TriggerStep

LEMMA StepRefines == [ANext]_avars => [Next]_vars
<1>. SUFFICES ASSUME [ANext]_avars PROVE Next \/ UNCHANGED vars
  OBVIOUS
<1>1. CASE Boot
  BY <1>1 DEF Boot, Next
<1>2. CASE Exit \/ Die
  BY <1>2 DEF Exit, Die, Next
<1>3. CASE \E c \in Clients : Handler(c)
  BY <1>3 DEF Handler, Next
<1>4. CASE \E t \in Triggers : TriggerStep(t)
  BY <1>4, TriggerRefines
<1>5. CASE \/ Signal \/ Tick
           \/ \E t \in ApiCalls : Accept(t)
           \/ \E k \in Conns : Request(k) \/ Finish(k)
  BY <1>5 DEF Signal, Tick, Accept, Request, Finish
<1>6. CASE UNCHANGED avars
  BY <1>6 DEF avars
<1>. QED
  BY <1>1, <1>2, <1>3, <1>4, <1>5, <1>6 DEF ANext

\* What AuditStore_proof shows of the store holds of the process.
LEMMA StoreSteps == ASpec => []StoreInv
<1>1. AInit => Init
  BY DEF AInit
<1>2. ASpec => Spec
  BY <1>1, StepRefines, PTL DEF ASpec, Spec
<1>. QED
  BY <1>2, StoreInvariance, PTL

-----------------------------------------------------------------------------
(* At most one archiver, and a truthful status                             *)

\* The number of batches only changes when a batch commits, by one.
LEMMA BatchCount ==
  ASSUME StoreInv
  PROVE  /\ Len(archiveBatches) \in Nat
         /\ ArchiveCommit => Len(archiveBatches)' = Len(archiveBatches) + 1
<1>1. archiveBatches \in Seq(Manifests)
  BY DEF StoreInv, TypeOK, TableTypes
<1>2. ASSUME ArchiveCommit
      PROVE  Len(archiveBatches)' = Len(archiveBatches) + 1
  <2>1. PICK m : archiveBatches' = Append(archiveBatches, m)
    BY <1>2 DEF ArchiveCommit
  <2>2. PICK S : S = Manifests \cup {m}
    OBVIOUS
  <2>3. archiveBatches \in Seq(S) /\ m \in S
    BY <1>1, <2>2
  <2>. QED
    BY <2>1, <2>3, AppendProperties
<1>. QED
  BY <1>1, <1>2, LenProperties

\* Where the goroutines are after one of them has moved.
LEMMA GotoStep ==
  ASSUME ATypeOK, NEW t \in Triggers, NEW place, Goto(t, place)
  PROVE  /\ trig'[t] = place
         /\ \A u \in Triggers : u # t => trig'[u] = trig[u]
BY DEF Goto, ATypeOK

\* A new process has no goroutine in Trigger, and none held writeMu.
LEMMA FreshStep ==
  ASSUME AInv, FreshService, Crash \/ Start
  PROVE  AInv'
<1>1. archiveJob' = {}
  BY DEF Crash, Start, AInv
<1>2. \A t \in Triggers : trig'[t] = "idle"
  BY DEF FreshService
<1>3. ATypeOK'
  BY DEF FreshService, ATypeOK, Batch
<1>4. OneArchiver'
  BY <1>1, <1>2 DEF FreshService, OneArchiver, InFlight
<1>5. StatusInv'
  BY <1>2 DEF FreshService, StatusInv, Unrecorded
<1>. QED
  BY <1>1, <1>3, <1>4, <1>5 DEF AInv

\* A request that arrives is one of those that were on their way.
LEMMA ArrivedStep ==
  ASSUME ATypeOK, Arrived
  PROVE  active' \subseteq Conns
BY DEF ATypeOK, Arrived

\* Handlers, connections and the signal leave the archiver's bookkeeping
\* alone.
LEMMA BystanderStep ==
  ASSUME AInv, \/ Signal \/ \E c \in Clients : Handler(c)
               \/ \E k \in Conns : Request(k) \/ Finish(k)
  PROVE  AInv'
<1>1. /\ UNCHANGED << trig, result, running, lastBatchNo, lastError,
                      archiveJob, archiveBatches, up >>
      /\ draining' \in BOOLEAN
      /\ active' \subseteq Conns
  <2>0. draining \in BOOLEAN /\ active \subseteq Conns
    BY DEF AInv, ATypeOK
  <2>1. CASE Signal
    BY <2>0, <2>1 DEF Signal, vars
  <2>2. ASSUME NEW c \in Clients, Handler(c)
        PROVE  /\ UNCHANGED << trig, result, running, lastBatchNo, lastError,
                               archiveJob, archiveBatches, up, draining >>
               /\ active' \subseteq Conns
    <3>1. UNCHANGED << trig, result, running, lastBatchNo, lastError, draining >>
      BY <2>2 DEF Handler
    <3>2. UNCHANGED << archiveJob, archiveBatches, up >>
      BY <2>2 DEF Handler, Client, BuildEntry, AppendCommit, AppendFail, Reply,
                  LoseReply, tables
    <3>3. active' \subseteq Conns
      BY <2>0, <2>2, ArrivedStep DEF Handler, AInv
    <3>. QED
      BY <3>1, <3>2, <3>3
  <2>3. CASE \E k \in Conns : Request(k) \/ Finish(k)
    BY <2>0, <2>3 DEF Request, Finish, vars
  <2>. QED
    BY <2>0, <2>1, <2>2, <2>3
<1>. QED
  BY <1>1 DEF AInv, ATypeOK, OneArchiver, InFlight, StatusInv, Unrecorded

\* A call is made, dropped, or becomes the one that runs.
LEMMA CallStep ==
  ASSUME AInv, NEW t \in Triggers,
         (Tick /\ t = Scheduler) \/ Accept(t) \/ Drop(t) \/ Enter(t)
  PROVE  AInv'
<1>1. UNCHANGED << vars, draining, result, lastBatchNo, lastError >>
  BY DEF Tick, Accept, Drop, Enter
<1>2. UNCHANGED << archiveJob, archiveBatches, up >>
  BY <1>1 DEF vars
<1>3. ATypeOK'
  <2>1. active' \subseteq Conns
    BY ArrivedStep DEF AInv, ATypeOK, Tick, Accept, Drop, Enter
  <2>2. /\ trig' \in [Triggers -> {"idle", "called", "entered", "moving",
                                   "returned", "leaving"}]
        /\ running' \in BOOLEAN
    BY DEF AInv, ATypeOK, Tick, Accept, Drop, Enter, Goto
  <2>. QED
    BY <1>1, <2>1, <2>2 DEF AInv, ATypeOK
<1>4. CASE ((Tick /\ t = Scheduler) \/ Accept(t) \/ Drop(t))
  <2>1. /\ ~InFlight(t) /\ ~InFlight(t)'
        /\ \A u \in Triggers : u # t => trig'[u] = trig[u]
        /\ running' = running
    BY <1>4, GotoStep DEF AInv, Tick, Accept, Drop, InFlight
  <2>2. \A u \in Triggers : /\ InFlight(u)' <=> InFlight(u)
                            /\ trig'[u] = "moving" <=> trig[u] = "moving"
                            /\ trig'[u] = "returned" <=> trig[u] = "returned"
    BY <2>1 DEF InFlight
  <2>. QED
    BY <1>1, <1>2, <1>3, <2>1, <2>2 DEF AInv, OneArchiver, StatusInv, Unrecorded
<1>5. CASE Enter(t)
  <2>1. /\ trig[t] = "called" /\ trig'[t] = "entered"
        /\ \A u \in Triggers : u # t => trig'[u] = trig[u]
        /\ ~running /\ running'
    BY <1>5, GotoStep DEF AInv, Enter
  <2>2. \A u \in Triggers : ~InFlight(u)
    BY <2>1 DEF AInv, OneArchiver
  <2>3. \A u \in Triggers : InFlight(u)' <=> u = t
    BY <2>1, <2>2 DEF InFlight
  <2>4. \A u \in Triggers : /\ trig'[u] = "moving" <=> trig[u] = "moving"
                            /\ trig'[u] = "returned" <=> trig[u] = "returned"
    BY <2>1
  <2>. QED
    BY <1>1, <1>2, <1>3, <2>1, <2>3, <2>4
    DEF AInv, OneArchiver, StatusInv, Unrecorded
<1>. QED
  BY <1>4, <1>5

\* The batch is selected: this goroutine, and no other, holds writeMu.
LEMMA SelectStep ==
  ASSUME AInv, NEW t \in Triggers, Select(t)
  PROVE  AInv'
<1>1. /\ UNCHANGED << draining, active, result, running, lastBatchNo, lastError,
                      archiveBatches, up >>
      /\ archiveJob' # {} /\ up
  BY DEF Select, ArchiveSelect, tables
<1>2. /\ trig[t] = "entered" /\ trig'[t] = "moving"
      /\ \A u \in Triggers : u # t => trig'[u] = trig[u]
  BY GotoStep DEF Select, AInv
<1>3. ATypeOK'
  BY <1>1 DEF AInv, ATypeOK, Select, Goto
<1>4. \A u \in Triggers : /\ InFlight(u)' <=> InFlight(u)
                          /\ trig'[u] = "returned" <=> trig[u] = "returned"
  BY <1>2 DEF InFlight
<1>. QED
  BY <1>1, <1>2, <1>3, <1>4 DEF AInv, OneArchiver, StatusInv, Unrecorded

\* Archive returns, with or without a batch: writeMu is free again, and a
\* number it returns is that of the newest batch.
LEMMA ReturnStep ==
  ASSUME StoreInv, AInv, NEW t \in Triggers,
         Skip(t) \/ SelectFail(t) \/ Commit(t) \/ Abort(t)
  PROVE  AInv'
<1>1. PICK r : /\ Returns(t, r)
               /\ \/ r \in {Batch(0), Failed} /\ archiveBatches' = archiveBatches
                  \/ r = Batch(Len(archiveBatches) + 1) /\ ArchiveCommit
  BY DEF Skip, SelectFail, Commit, Abort, vars, ArchiveAbort, tables
<1>2. /\ Len(archiveBatches) \in Nat
      /\ ArchiveCommit => Len(archiveBatches') = Len(archiveBatches) + 1
  BY BatchCount
<1>3. /\ trig[t] \in {"entered", "moving"} /\ trig'[t] = "returned"
      /\ \A u \in Triggers : u # t => trig'[u] = trig[u]
  BY <1>1, GotoStep DEF AInv, Returns, Skip, SelectFail, Commit, Abort
<1>4. \A u \in Triggers : u # t => ~InFlight(u)
  BY <1>3 DEF AInv, OneArchiver, InFlight
<1>5. archiveJob' = {}
  <2>1. CASE Skip(t) \/ SelectFail(t)
    BY <2>1 DEF Skip, SelectFail, WriteMuFree, vars
  <2>2. CASE Commit(t) \/ Abort(t)
    BY <2>2 DEF Commit, Abort, ArchiveCommit, ArchiveAbort
  <2>. QED
    BY <2>1, <2>2
<1>6. r \in [failed : BOOLEAN, batch_no : Nat]
  <2>1. CASE r \in {Batch(0), Failed}
    <3>1. Batch(0) \in [failed : BOOLEAN, batch_no : Nat]
      BY DEF Batch
    <3>2. Failed \in [failed : BOOLEAN, batch_no : Nat]
      BY DEF Failed
    <3>. QED
      BY <2>1, <3>1, <3>2
  <2>2. CASE r = Batch(Len(archiveBatches) + 1)
    BY <1>2, <2>2 DEF Batch
  <2>. QED
    BY <1>1, <2>1, <2>2
<1>7. /\ result'[t] = r
      /\ UNCHANGED << draining, active, running, lastBatchNo, lastError >>
  BY <1>1 DEF Returns, AInv, ATypeOK
<1>8. ATypeOK'
  BY <1>1, <1>6, <1>7 DEF AInv, ATypeOK, Returns, Goto
<1>9. OneArchiver'
  BY <1>3, <1>4, <1>5, <1>7 DEF AInv, OneArchiver, InFlight
<1>10. StatusInv'
  <2>1. \A u \in Triggers : Unrecorded(u)' => u = t
    BY <1>3, <1>4 DEF Unrecorded, InFlight
  <2>2. \A u \in Triggers : ~Unrecorded(u)
    BY <1>3, <1>4 DEF Unrecorded, InFlight
  <2>3. CASE r \in {Batch(0), Failed} /\ archiveBatches' = archiveBatches
    <3>1. ~Unrecorded(t)'
      BY <1>7, <2>3 DEF Unrecorded, Batch, Failed
    <3>. QED
      BY <1>7, <2>1, <2>2, <2>3, <3>1 DEF AInv, StatusInv
  <2>4. CASE r = Batch(Len(archiveBatches) + 1) /\ ArchiveCommit
    <3>1. Unrecorded(t)' /\ result'[t].batch_no = Len(archiveBatches')
      BY <1>2, <1>3, <1>7, <2>4 DEF Unrecorded, Batch
    <3>. QED
      BY <2>1, <3>1 DEF StatusInv
  <2>. QED
    BY <1>1, <2>3, <2>4
<1>. QED
  BY <1>5, <1>8, <1>9, <1>10 DEF AInv

\* The status takes over the number a call returned; then the call is over.
LEMMA LeaveStep ==
  ASSUME AInv, NEW t \in Triggers, Record(t) \/ Leave(t)
  PROVE  AInv'
<1>1. UNCHANGED << archiveJob, archiveBatches, up, draining, active >>
  BY DEF Record, Leave, vars
<1>2. InFlight(t) /\ \A u \in Triggers : u # t => ~InFlight(u)
  BY DEF AInv, OneArchiver, InFlight, Record, Leave
<1>3. CASE Record(t)
  <2>1. /\ trig[t] = "returned" /\ trig'[t] = "leaving"
        /\ \A u \in Triggers : u # t => trig'[u] = trig[u]
    BY <1>3, GotoStep DEF AInv, Record
  <2>2. ATypeOK'
    BY <1>1, <1>3 DEF AInv, ATypeOK, Record, Goto, vars
  <2>3. OneArchiver'
    BY <1>1, <1>2, <1>3, <2>1 DEF AInv, OneArchiver, InFlight, Record
  <2>4. \A u \in Triggers : Unrecorded(u) => u = t
    BY <1>2 DEF Unrecorded, InFlight
  <2>5. /\ \A u \in Triggers : ~Unrecorded(u)'
        /\ lastBatchNo' = IF Unrecorded(t) THEN result[t].batch_no
                                           ELSE lastBatchNo
    BY <1>2, <1>3, <2>1 DEF Unrecorded, InFlight, Record
  <2>6. StatusInv'
    BY <1>1, <2>4, <2>5 DEF AInv, StatusInv
  <2>. QED
    BY <1>1, <2>2, <2>3, <2>6 DEF AInv
<1>4. CASE Leave(t)
  <2>1. /\ trig[t] = "leaving" /\ trig'[t] = "idle"
        /\ \A u \in Triggers : u # t => trig'[u] = trig[u]
        /\ running' = FALSE
        /\ UNCHANGED lastBatchNo
    BY <1>4, GotoStep DEF AInv, Leave
  <2>2. ATypeOK'
    BY <1>1, <1>4 DEF AInv, ATypeOK, Leave, Goto, Batch, vars
  <2>3. OneArchiver'
    BY <1>1, <1>2, <2>1 DEF AInv, OneArchiver, InFlight
  <2>4. \A u \in Triggers : ~Unrecorded(u) /\ ~Unrecorded(u)'
    BY <1>2, <2>1 DEF Unrecorded, InFlight
  <2>5. StatusInv'
    BY <1>1, <2>1, <2>4 DEF AInv, StatusInv
  <2>. QED
    BY <1>1, <2>2, <2>3, <2>5 DEF AInv
<1>. QED
  BY <1>3, <1>4

LEMMA AInitInv == AInit => AInv
<1>. SUFFICES ASSUME AInit PROVE AInv
  OBVIOUS
<1>1. /\ archiveJob = {} /\ running = FALSE /\ lastBatchNo = 0
      /\ \A t \in Triggers : trig[t] = "idle"
  BY DEF AInit, Init
<1>2. Batch(0) \in [failed : BOOLEAN, batch_no : Nat]
  BY DEF Batch
<1>3. ATypeOK
  <2>1. draining \in BOOLEAN /\ running \in BOOLEAN /\ lastError \in BOOLEAN
    BY DEF AInit
  <2>2. result \in [Triggers -> [failed : BOOLEAN, batch_no : Nat]]
    BY <1>2 DEF AInit
  <2>. QED
    BY <1>1, <2>1, <2>2 DEF AInit, ATypeOK
<1>. QED
  BY <1>1, <1>3 DEF AInv, OneArchiver, InFlight, StatusInv, Unrecorded

LEMMA ANextInv == StoreInv /\ AInv /\ [ANext]_avars => AInv'
<1>. SUFFICES ASSUME StoreInv, AInv, [ANext]_avars PROVE AInv'
  OBVIOUS
<1>1. CASE Boot \/ Exit \/ Die
  BY <1>1, FreshStep DEF Boot, Exit, Die
<1>2. CASE \/ Signal \/ \E c \in Clients : Handler(c)
           \/ \E k \in Conns : Request(k) \/ Finish(k)
  BY <1>2, BystanderStep
<1>3. CASE Tick \/ \E t \in ApiCalls : Accept(t)
  BY <1>3, CallStep DEF Triggers
<1>4. ASSUME NEW t \in Triggers, TriggerStep(t) PROVE AInv'
  BY <1>4, CallStep, SelectStep, ReturnStep, LeaveStep DEF TriggerStep
<1>5. CASE UNCHANGED avars
  BY <1>5 DEF avars, svars, vars, AInv, ATypeOK, OneArchiver, InFlight,
              StatusInv, Unrecorded
<1>. QED
  BY <1>1, <1>2, <1>3, <1>4, <1>5 DEF ANext

\* The invariant the model checker looks at holds for any number of triggers.
THEOREM AInvariance == ASpec => []AInv
<1>. QED
  BY StoreSteps, AInitInv, ANextInv, PTL DEF ASpec

\* The bookkeeping of the archiver is well typed.
THEOREM ATypeCorrect == ASpec => []ATypeOK
<1>1. AInv => ATypeOK
  BY DEF AInv
<1>. QED
  BY <1>1, AInvariance, PTL

\* However triggers overlap, at most one goroutine is inside Store.Archive,
\* the Running flag says whether one is, and writeMu is held for that one.
THEOREM OneArchiverCorrect == ASpec => []OneArchiver
<1>1. AInv => OneArchiver
  BY DEF AInv
<1>. QED
  BY <1>1, AInvariance, PTL

\* A status that names a batch names the newest one once the call is over.
THEOREM StatusCorrect == ASpec => []StatusTruthful
<1>1. AInv => StatusTruthful
  <2>. SUFFICES ASSUME AInv, ~running, lastBatchNo # 0
                PROVE  lastBatchNo = Len(archiveBatches)
    BY DEF StatusTruthful
  <2>1. \A t \in Triggers : ~Unrecorded(t)
    BY DEF AInv, OneArchiver, InFlight, Unrecorded
  <2>. QED
    BY <2>1 DEF AInv, StatusInv
<1>. QED
  BY <1>1, AInvariance, PTL

=============================================================================
