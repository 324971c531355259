--------------------------- MODULE ArchiveService ---------------------------
(***************************************************************************)
(* Who runs SQLite.Archive, and what stops it: ArchiveService.Trigger      *)
(* (internal/service/archive.go) called by the scheduler                   *)
(* (internal/worker/scheduler.go) and by POST /api/v1/archive              *)
(* (internal/api/handlers.go), and the shutdown of cmd/server/main.go.     *)
(*                                                                         *)
(* The scheduler passes the context that the signal cancels; the API       *)
(* passes context.Background().  Nobody waits for either.                  *)
(* HTTP.Shutdown waits for every connection with a request in progress,    *)
(* however long its client takes: no timeout is set (cmd/server/main.go,   *)
(* internal/server/server.go).                                             *)
(***************************************************************************)
EXTENDS AuditStore

CONSTANTS Scheduler,   \* the goroutine of worker.Start
          ApiCalls,    \* goroutines started by POST /api/v1/archive
          Conns        \* connections of all clients

ASSUME TriggerAssumption == Scheduler \notin ApiCalls

Triggers == {Scheduler} \cup ApiCalls

VARIABLES
  draining,      \* the signal has come, main is in HTTP.Shutdown
  active,        \* connections whose client is sending a request or being
                 \* answered, other than those of the handlers in pc
  trig,          \* per goroutine: where it is in Trigger
  result,        \* per goroutine: what Store.Archive returned
  running,       \* status.Running
  lastBatchNo,   \* status.LastBatchNo
  lastError      \* status.LastError is not ""

svars == << draining, active, trig, result, running, lastBatchNo, lastError >>
avars == << vars, svars >>

\* Results of Store.Archive: an error, or the batch number (0: no batch).
Failed == [failed |-> TRUE, batch_no |-> 0]
Batch(n) == [failed |-> FALSE, batch_no |-> n]

FreshService ==
  /\ draining' = FALSE
  /\ active' = {}
  /\ trig' = [t \in Triggers |-> "idle"]
  /\ result' = [t \in Triggers |-> Batch(0)]
  /\ running' = FALSE
  /\ lastBatchNo' = 0
  /\ lastError' = FALSE

AInit == /\ Init
         /\ draining = FALSE
         /\ active = {}
         /\ trig = [t \in Triggers |-> "idle"]
         /\ result = [t \in Triggers |-> Batch(0)]
         /\ running = FALSE
         /\ lastBatchNo = 0
         /\ lastError = FALSE

Goto(t, place) == trig' = [trig EXCEPT ![t] = place]

-----------------------------------------------------------------------------
(* Calls of Trigger                                                        *)

\* The ticker fires; the loop of worker.Start watches `stop', not ctx.
Tick == /\ up
        /\ trig[Scheduler] = "idle"
        /\ Goto(Scheduler, "called")
        /\ UNCHANGED << vars, draining, active, result, running, lastBatchNo,
                        lastError >>

\* A request has arrived in full.  After the signal it can only be one that
\* a client was sending then.
Arrived == IF draining THEN \E k \in active : active' = active \ {k}
           ELSE UNCHANGED active

\* POST /api/v1/archive answers "accepted" and starts a goroutine.
Accept(t) == /\ up
             /\ Arrived
             /\ t \in ApiCalls
             /\ trig[t] = "idle"
             /\ Goto(t, "called")
             /\ UNCHANGED << vars, draining, result, running, lastBatchNo,
                             lastError >>

\* Trigger: a call that finds Running set returns without an error.
Drop(t) == /\ up
           /\ trig[t] = "called"
           /\ running
           /\ Goto(t, "idle")
           /\ UNCHANGED << vars, draining, active, result, running, lastBatchNo,
                           lastError >>

\* Mutant of Enter: the flag is not looked at.
EnterAnyway(t) == /\ up
                  /\ trig[t] = "called"
                  /\ running' = TRUE
                  /\ Goto(t, "entered")
                  /\ UNCHANGED << vars, draining, active, result,
                                  lastBatchNo, lastError >>

Enter(t) == /\ up
            /\ trig[t] = "called"
            /\ ~running
            /\ running' = TRUE
            /\ Goto(t, "entered")
            /\ UNCHANGED << vars, draining, active, result, lastBatchNo,
                            lastError >>

-----------------------------------------------------------------------------
(* Store.Archive on behalf of goroutine t                                  *)

\* After the signal the scheduler's context is cancelled: its queries fail.
Cancelled(t) == draining /\ t = Scheduler

Returns(t, r) == /\ Goto(t, "returned")
                 /\ result' = [result EXCEPT ![t] = r]
                 /\ UNCHANGED << draining, active, running, lastBatchNo,
                                 lastError >>

Select(t) == /\ trig[t] = "entered"
             /\ ~Cancelled(t)
             /\ \E n \in 0 .. Surplus : ArchiveSelect(n)
             /\ Goto(t, "moving")
             /\ UNCHANGED << draining, active, result, running, lastBatchNo,
                             lastError >>

\* No batch, no error: below the threshold, nothing beyond the rows to keep,
\* or (at any size) the loop over the rows was cut short before the first.
Skip(t) == /\ up
           /\ trig[t] = "entered"
           /\ ~Cancelled(t)
           /\ WriteMuFree
           /\ Returns(t, Batch(0))
           /\ UNCHANGED vars

\* A query before the transaction fails.
SelectFail(t) == /\ up
                 /\ trig[t] = "entered"
                 /\ WriteMuFree
                 /\ Returns(t, Failed)
                 /\ UNCHANGED vars

\* Mutant of Commit: the number of the batch before.
CommitOldNumber(t) == /\ trig[t] = "moving"
                      /\ ~Cancelled(t)
                      /\ ArchiveCommit
                      /\ Returns(t, Batch(Len(archiveBatches)))

Commit(t) == /\ trig[t] = "moving"
             /\ ~Cancelled(t)
             /\ ArchiveCommit
             /\ Returns(t, Batch(Len(archiveBatches) + 1))

Abort(t) == /\ trig[t] = "moving"
            /\ ArchiveAbort
            /\ Returns(t, Failed)

\* Mutant of Record: the batches of this process are counted.
RecordCount(t) == /\ up
                  /\ trig[t] = "returned"
                  /\ Goto(t, "leaving")
                  /\ lastError' = (lastError \/ result[t].failed)
                  /\ lastBatchNo' = IF ~result[t].failed /\ result[t].batch_no > 0
                                    THEN lastBatchNo + 1 ELSE lastBatchNo
                  /\ UNCHANGED << vars, draining, active, result, running >>

\* The status after the call, under mu; then the deferred function clears
\* Running, under mu again.
Record(t) == /\ up
             /\ trig[t] = "returned"
             /\ Goto(t, "leaving")
             /\ lastError' = (lastError \/ result[t].failed)
             /\ lastBatchNo' = IF ~result[t].failed /\ result[t].batch_no > 0
                               THEN result[t].batch_no ELSE lastBatchNo
             /\ UNCHANGED << vars, draining, active, result, running >>

\* Mutant of Leave: the flag is not cleared on the error path.
LeaveIfOk(t) == /\ up
                /\ trig[t] = "leaving"
                /\ ~result[t].failed
                /\ running' = FALSE
                /\ Goto(t, "idle")
                /\ result' = [result EXCEPT ![t] = Batch(0)]
                /\ UNCHANGED << vars, draining, active, lastBatchNo,
                                lastError >>

Leave(t) == /\ up
            /\ trig[t] = "leaving"
            /\ running' = FALSE
            /\ Goto(t, "idle")
            /\ result' = [result EXCEPT ![t] = Batch(0)]
            /\ UNCHANGED << vars, draining, active, lastBatchNo, lastError >>

TriggerStep(t) == \/ Drop(t) \/ Enter(t)
                  \/ Select(t) \/ Skip(t) \/ SelectFail(t)
                  \/ Commit(t) \/ Abort(t)
                  \/ Record(t) \/ Leave(t)

-----------------------------------------------------------------------------
(* The process                                                             *)

Boot == Start /\ FreshService

\* SIGINT or SIGTERM: ctx is cancelled, HTTP.Shutdown closes the listener.
Signal == /\ up
          /\ ~draining
          /\ draining' = TRUE
          /\ UNCHANGED << vars, active, trig, result, running, lastBatchNo,
                          lastError >>

\* The first bytes of a request arrive.
Request(k) == /\ up
              /\ ~draining
              /\ k \in Conns \ active
              /\ active' = active \cup {k}
              /\ UNCHANGED << vars, draining, trig, result, running,
                              lastBatchNo, lastError >>

\* The request is read and answered, or the connection breaks.
Finish(k) == /\ up
             /\ k \in active
             /\ active' = active \ {k}
             /\ UNCHANGED << vars, draining, trig, result, running,
                             lastBatchNo, lastError >>

\* No connection has a request in progress.
Served == active = {} /\ \A c \in Clients : pc[c] = "idle"

\* Mutant of Exit: main waits for a moment without an archiver, while the
\* ticker keeps starting new ones.
ExitBetweenBatches == /\ draining
                      /\ Served
                      /\ ~running
                      /\ Crash
                      /\ FreshService

\* HTTP.Shutdown returns; main stops the ticker, closes the database and
\* returns, whatever the archiver is doing.
Exit == /\ draining
        /\ Served
        /\ Crash
        /\ FreshService

Die == Crash /\ FreshService

Handler(c) == /\ Client(c)
              /\ IF pc[c] = "idle" THEN Arrived ELSE UNCHANGED active
              /\ UNCHANGED << draining, trig, result, running, lastBatchNo,
                              lastError >>

ANext == \/ Boot \/ Signal \/ Exit \/ Die
         \/ \E c \in Clients : Handler(c)
         \/ \E k \in Conns : Request(k) \/ Finish(k)
         \/ Tick
         \/ \E t \in ApiCalls : Accept(t)
         \/ \E t \in Triggers : TriggerStep(t)

ASpec == AInit /\ [][ANext]_avars

(* Fairness.  Goroutines that can run do run, the ticker keeps ticking.  A  *)
(* waiter for writeMu gets it (sync.Mutex hands the lock to a waiter that  *)
(* has starved for 1ms), its statement then commits or fails.  The         *)
(* archiver does no blocking call while it holds writeMu.  Signals,        *)
(* crashes and clients are not fair: nobody makes a client send the rest   *)
(* of a request, or read a response.                                       *)

AFairness ==
  /\ WF_avars(Boot)
  /\ WF_avars(Tick)
  /\ WF_avars(Exit)
  /\ \A c \in Clients : SF_avars(Handler(c) /\ pc[c] = "built")
  /\ \A t \in Triggers :
       /\ WF_avars(Drop(t) \/ Enter(t))
       /\ SF_avars(Select(t) \/ Skip(t) \/ SelectFail(t))
       /\ WF_avars(Commit(t) \/ Abort(t))
       /\ WF_avars(Record(t) \/ Leave(t))

AFairSpec == ASpec /\ AFairness

\* Every client sends its request to the end and takes the response, or
\* breaks the connection.
ClientsFinish ==
  /\ \A k \in Conns : WF_avars(Finish(k))
  /\ \A c \in Clients : WF_avars(Handler(c) /\ pc[c] = "stored")

\* The rows of a batch that was not cut short.
WholeJob == archiveJob = Oldest(Surplus)

\* Not every single attempt at a whole batch meets an I/O error, a crash or a
\* signal.
BatchesGetThrough ==
  /\ SF_avars(\E t \in Triggers : Select(t) /\ archiveJob' = Oldest(Surplus))
  /\ SF_avars(\E t \in Triggers : Commit(t) /\ WholeJob)

-----------------------------------------------------------------------------
(* Properties                                                              *)

InFlight(t) == trig[t] \in {"entered", "moving", "returned", "leaving"}

ATypeOK ==
  /\ draining \in BOOLEAN /\ running \in BOOLEAN /\ lastError \in BOOLEAN
  /\ active \subseteq Conns
  /\ lastBatchNo \in Nat
  /\ trig \in [Triggers -> {"idle", "called", "entered", "moving", "returned",
                            "leaving"}]
  /\ result \in [Triggers -> [failed : BOOLEAN, batch_no : Nat]]

\* Overlapping triggers: at most one goroutine is inside Store.Archive, the
\* Running flag says exactly whether one is, and writeMu is held by the
\* archiver only on behalf of that one.
OneArchiver ==
  /\ \A t, u \in Triggers : InFlight(t) /\ InFlight(u) => t = u
  /\ running <=> \E t \in Triggers : InFlight(t)
  /\ archiveJob # {} <=> \E t \in Triggers : trig[t] = "moving"

\* A status that names a batch names the newest one, unless a call that just
\* made a newer one is still on its way out of Trigger.
StatusTruthful ==
  ~running /\ lastBatchNo # 0 => lastBatchNo = Len(archiveBatches)

\* Why the status is truthful: a newer batch than the one it names was made by
\* a call that has yet to record it, and nobody else can have made another.
Unrecorded(t) == /\ trig[t] = "returned"
                 /\ ~result[t].failed
                 /\ result[t].batch_no > 0

StatusInv ==
  /\ \A t \in Triggers : Unrecorded(t) => result[t].batch_no = Len(archiveBatches)
  /\ lastBatchNo # 0 => \/ lastBatchNo = Len(archiveBatches)
                        \/ \E t \in Triggers : Unrecorded(t)

\* The inductive invariant of the callers of Archive.
AInv == /\ ATypeOK
        /\ OneArchiver
        /\ ~up => archiveJob = {}
        /\ StatusInv

\* docs/01 9.3 "wait for the current archive batch to finish" on shutdown.
ShutdownWaitsForBatch == [][Exit => archiveJob = {}]_avars

\* docs/01 9.3 gives the shutdown a timeout of 30s: it ends, whatever the
\* clients do.
ShutdownCompletes == draining ~> ~up

\* If only every client gets done, a signalled process exits: no handler, no
\* archiver and no lock they wait for keeps it alive.
ShutdownOnceServed == ClientsFinish => ShutdownCompletes

\* Trigger always returns, also when its transaction can never commit.
TriggerReturns == running ~> ~running

\* Every POST handler that got to Store.Append returns from it, although it
\* waits for the archiver and for the other handlers, also during shutdown.
EveryAppendReturns ==
  \A c \in Clients : pc[c] = "built" ~> pc[c] # "built"

\* A trigger that is dropped because another one runs is not missed: if not
\* every batch is hit by an error, a full active table is drained, unless the
\* log has forked or the process is stopped.
BacklogDrained ==
  BatchesGetThrough =>
    (Cardinality(auditEntries) >= Threshold
      ~> (Cardinality(auditEntries) < Threshold \/ Forked \/ draining \/ ~up))

=============================================================================
