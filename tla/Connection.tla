----------------------------- MODULE Connection -----------------------------
(***************************************************************************)
(* Who waits for whom.  All requests, the ticker and the goroutines of     *)
(* POST /archive share one database connection (SetMaxOpenConns(1)) and    *)
(* writeMu.  A query holds the connection until its rows are closed, a     *)
(* transaction until it ends; everybody else waits, in database/sql or in  *)
(* sync.Mutex, without any timeout.  AuditStore takes it for granted that  *)
(* this never blocks for good.                                             *)
(***************************************************************************)
EXTENDS Integers, Sequences

CONSTANTS Goroutines,   \* handlers, the scheduler, archive goroutines
          Nobody        \* the owner of a free lock

ASSUME NobodyAssumption == Nobody \notin Goroutines

VARIABLES
  call,      \* per goroutine: the operation it is in, or "none"
  at,        \* per goroutine: the instruction it is about to do
  conn,      \* the goroutine that holds the connection
  writeMu    \* the goroutine that holds SQLite.writeMu

vars == << call, at, conn, writeMu >>

-----------------------------------------------------------------------------
(* What each operation asks for, in the order of the code: "open" a query  *)
(* or a transaction, "close" it, "lock" and "unlock" writeMu.              *)

\* n queries, one after the other.
Queries(n) == [i \in 1 .. 2 * n |-> IF i % 2 = 1 THEN "open" ELSE "close"]

\* AuditService.Append: Head, then Store.Append.
AppendProgram == << "open", "close", "lock", "open", "close", "unlock" >>

\* SQLite.Archive: the count, the rows, the batch number, the transaction.
ArchiveProgram == << "lock", "open", "close", "open", "close", "open", "close",
                     "open", "close", "unlock" >>

\* Mutant of Program: the rows of Archive are closed when it returns.
ProgramRowsDeferred ==
  [append  |-> AppendProgram,
   archive |-> << "lock", "open", "close", "open", "open", "close", "open",
                  "close", "close", "unlock" >>,
   query   |-> Queries(1),
   list    |-> Queries(2),
   stats   |-> Queries(3),
   verify  |-> Queries(5)]

\* Mutant of Program: Append begins its transaction before it locks.
ProgramTxFirst ==
  [append  |-> << "open", "close", "open", "lock", "close", "unlock" >>,
   archive |-> ArchiveProgram,
   query   |-> Queries(1),
   list    |-> Queries(2),
   stats   |-> Queries(3),
   verify  |-> Queries(5)]

\* query: Head and the other one-query reads.  list: Entries without the
\* archive, Batches (count, rows), Batch (manifest, rows), Trace.Context
\* (row, list).  stats: counts, head, last verification.  verify: entries,
\* head, two for the batches, SetVerify.
Program ==
  [append  |-> AppendProgram,
   archive |-> ArchiveProgram,
   query   |-> Queries(1),
   list    |-> Queries(2),
   stats   |-> Queries(3),
   verify  |-> Queries(5)]

Operations == DOMAIN Program

-----------------------------------------------------------------------------

Init == /\ call = [g \in Goroutines |-> "none"]
        /\ at = [g \in Goroutines |-> 0]
        /\ conn = Nobody
        /\ writeMu = Nobody

Busy(g) == call[g] # "none"

\* g is about to do instruction i.
Does(g, i) == Busy(g) /\ Program[call[g]][at[g]] = i

\* A request arrives, or the ticker fires.
Begin(g, op) ==
  /\ ~Busy(g)
  /\ call' = [call EXCEPT ![g] = op]
  /\ at' = [at EXCEPT ![g] = 1]
  /\ UNCHANGED << conn, writeMu >>

\* On to the next instruction, or back to the caller.
Advance(g) ==
  IF at[g] = Len(Program[call[g]])
  THEN /\ call' = [call EXCEPT ![g] = "none"]
       /\ at' = [at EXCEPT ![g] = 0]
  ELSE /\ at' = [at EXCEPT ![g] = @ + 1]
       /\ UNCHANGED call

Lock(g) == /\ Does(g, "lock")
           /\ writeMu = Nobody
           /\ writeMu' = g
           /\ Advance(g)
           /\ UNCHANGED conn

Unlock(g) == /\ Does(g, "unlock")
             /\ writeMu' = Nobody
             /\ Advance(g)
             /\ UNCHANGED conn

Open(g) == /\ Does(g, "open")
           /\ conn = Nobody
           /\ conn' = g
           /\ Advance(g)
           /\ UNCHANGED writeMu

Close(g) == /\ Does(g, "close")
            /\ conn' = Nobody
            /\ Advance(g)
            /\ UNCHANGED writeMu

Released(lock, g) == IF lock = g THEN Nobody ELSE lock

\* A wait for the connection is cancelled with the request, or a statement
\* fails: the function returns, its deferred calls (and the explicit Close
\* and Rollback on the error paths of Archive) give back what it holds.  (Stats
\* and Verify go on after some failures, as if the query had succeeded.)
Fail(g) == /\ Does(g, "open") \/ Does(g, "close")
           /\ call' = [call EXCEPT ![g] = "none"]
           /\ at' = [at EXCEPT ![g] = 0]
           /\ conn' = Released(conn, g)
           /\ writeMu' = Released(writeMu, g)

Step(g) == Lock(g) \/ Unlock(g) \/ Open(g) \/ Close(g)

Next == \E g \in Goroutines : \/ \E op \in Operations : Begin(g, op)
                              \/ Step(g)
                              \/ Fail(g)

Spec == Init /\ [][Next]_vars

\* A goroutine that can run does run.  One that waits for writeMu or for the
\* connection is not overtaken forever: sync.Mutex hands over to a waiter
\* that has starved for 1ms, database/sql hands a released connection to one
\* of the waiting requests.  Nothing is assumed of failures.
Fairness == \A g \in Goroutines : /\ SF_vars(Lock(g))
                                  /\ SF_vars(Open(g))
                                  /\ WF_vars(Unlock(g))
                                  /\ WF_vars(Close(g))

FairSpec == Spec /\ Fairness

-----------------------------------------------------------------------------
(* Properties                                                              *)

\* Nobody waits in a circle: whoever holds the connection needs nothing more
\* to give it back, and whoever holds writeMu waits for the connection at
\* most.  So the connection comes before writeMu in no goroutine, and no
\* goroutine asks for what it holds.
NoHoldAndWait ==
  \A g \in Goroutines :
    /\ conn = g => Does(g, "close")
    /\ writeMu = g => Does(g, "open") \/ Does(g, "close") \/ Does(g, "unlock")

\* Every request returns, and every archive run ends, however many others are
\* waiting, failing or cancelled.
EveryCallReturns == \A g \in Goroutines : Busy(g) ~> ~Busy(g)

=============================================================================
