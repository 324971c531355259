-------------------------- MODULE Connection_proof --------------------------
(***************************************************************************)
(* For any number of goroutines: nobody waits in a circle, and as long as  *)
(* a call is in progress some goroutine can go on.                         *)
(***************************************************************************)
EXTENDS Connection, TLAPS

\* Instruction i of operation op.
Instr(op, i) == Program[op][i]

TypeInv ==
  /\ call \in [Goroutines -> Operations \cup {"none"}]
  /\ at \in [Goroutines -> Nat]
  /\ conn \in Goroutines \cup {Nobody}
  /\ writeMu \in Goroutines \cup {Nobody}
  /\ \A g \in Goroutines : Busy(g) => at[g] \in 1 .. Len(Program[call[g]])

\* g has just done an "open".
HasOpened(g) == Busy(g) /\ at[g] > 1 /\ Instr(call[g], at[g] - 1) = "open"

\* g is behind its "lock".
HasLocked(g) == Busy(g) /\ \E i \in 1 .. at[g] - 1 : Instr(call[g], i) = "lock"

\* Who holds what can be read off the positions.
HoldInv == \A g \in Goroutines : /\ conn = g <=> HasOpened(g)
                                 /\ writeMu = g <=> HasLocked(g)

ConnInv == TypeInv /\ HoldInv

-----------------------------------------------------------------------------
(* The programs                                                            *)

\* What the safety of the locks needs of an operation: a query is closed
\* right after it was opened, writeMu is locked once and given back last.
Disciplined(op) ==
  LET P == Program[op] IN
  /\ Len(P) \in Nat \ {0}
  /\ \A i \in 1 .. Len(P) :
       /\ P[i] \in {"open", "close", "lock", "unlock"}
       /\ P[i] = "open" => i < Len(P) /\ P[i + 1] = "close"
       /\ P[i] = "close" => i > 1 /\ P[i - 1] = "open"
       /\ P[i] = "lock" => i < Len(P) /\ P[i + 1] = "open"
       /\ P[i] = "unlock" => i = Len(P)
       /\ \A j \in 1 .. Len(P) : P[i] = "lock" /\ P[j] = "lock" => i = j
  /\ P[Len(P)] = "unlock" <=> \E i \in 1 .. Len(P) : P[i] = "lock"

\* n queries one after the other are disciplined.
LEMMA QueriesDisciplined ==
  ASSUME NEW op, NEW n \in 1 .. 5, Program[op] = Queries(n)
  PROVE  Disciplined(op)
<1>1. Len(Queries(n)) = 2 * n
  BY DEF Queries
<1>2. \A i \in 1 .. 2 * n : Queries(n)[i] = IF i % 2 = 1 THEN "open" ELSE "close"
  BY DEF Queries
<1> QED
  BY <1>1, <1>2 DEF Disciplined

\* Every operation of the store is disciplined.
LEMMA AllDisciplined == \A op \in Operations : Disciplined(op)
<1>1. Operations = {"append", "archive", "query", "list", "stats", "verify"}
  BY DEF Operations, Program
<1>2. /\ Program["append"] = AppendProgram
      /\ Program["archive"] = ArchiveProgram
      /\ Program["query"] = Queries(1)
      /\ Program["list"] = Queries(2)
      /\ Program["stats"] = Queries(3)
      /\ Program["verify"] = Queries(5)
  BY DEF Program
<1>3. Disciplined("append")
  BY <1>2 DEF Disciplined, AppendProgram
<1>4. Disciplined("archive")
  BY <1>2 DEF Disciplined, ArchiveProgram
<1> QED
  BY <1>1, <1>2, <1>3, <1>4, QueriesDisciplined

-----------------------------------------------------------------------------
(* The invariant                                                           *)

\* No operation is called "none".
LEMMA NoneIsNoOperation == "none" \notin Operations
BY DEF Operations, Program

\* Positions after Advance: the next one, or out of the call.
LEMMA AdvanceMoves ==
  ASSUME ConnInv, NEW g \in Goroutines, Busy(g), Advance(g)
  PROVE  /\ call' \in [Goroutines -> Operations \cup {"none"}]
         /\ at' \in [Goroutines -> Nat]
         /\ \A h \in Goroutines \ {g} : call'[h] = call[h] /\ at'[h] = at[h]
         /\ \/ /\ at[g] = Len(Program[call[g]])
               /\ call'[g] = "none"
            \/ /\ at[g] < Len(Program[call[g]])
               /\ call'[g] = call[g]
               /\ at'[g] = at[g] + 1
<1>1. call[g] \in Operations /\ at[g] \in 1 .. Len(Program[call[g]])
  BY DEF ConnInv, TypeInv, Busy
<1>2. Len(Program[call[g]]) \in Nat
  BY <1>1, AllDisciplined DEF Disciplined
<1> QED
  BY <1>1, <1>2 DEF ConnInv, TypeInv, Advance

\* The other goroutines hold what they held.
LEMMA OthersUnmoved ==
  ASSUME NEW h, call'[h] = call[h], at'[h] = at[h]
  PROVE  (HasOpened(h) <=> HasOpened(h)') /\ (HasLocked(h) <=> HasLocked(h)')
BY DEF HasOpened, HasLocked, Busy, Instr

\* Instruction i of g's program, and what comes before and after it.
LEMMA AtInstr ==
  ASSUME ConnInv, NEW g \in Goroutines, Busy(g)
  PROVE  /\ call[g] \in Operations
         /\ Disciplined(call[g])
         /\ at[g] \in 1 .. Len(Program[call[g]])
         /\ Len(Program[call[g]]) \in Nat
         /\ conn = g <=> HasOpened(g)
         /\ writeMu = g <=> HasLocked(g)
<1>1. call[g] \in Operations
  BY DEF ConnInv, TypeInv, Busy
<1> QED
  BY <1>1, AllDisciplined DEF ConnInv, TypeInv, HoldInv, Disciplined

\* The move of g: what g has opened and locked afterwards.
LEMMA MoveHolds ==
  ASSUME ConnInv, NEW g \in Goroutines, NEW i, Does(g, i), Advance(g)
  PROVE  /\ i = "open" => HasOpened(g)'
         /\ i # "open" => ~HasOpened(g)'
         /\ i = "lock" => HasLocked(g)'
         /\ i = "unlock" => ~HasLocked(g)'
         /\ i \in {"open", "close"} => (HasLocked(g)' <=> HasLocked(g))
         /\ i \in {"lock", "open"} => ~HasOpened(g)
         /\ i = "lock" => ~HasLocked(g)
         /\ i = "unlock" => HasLocked(g) /\ ~HasOpened(g)
         /\ i = "close" => HasOpened(g)
<1> DEFINE P == Program[call[g]]
           n == at[g]
<1>1. Busy(g) /\ P[n] = i
  BY DEF Does
<1>2. Disciplined(call[g]) /\ n \in 1 .. Len(P) /\ Len(P) \in Nat
  BY <1>1, AtInstr
<1>3. /\ \A h \in Goroutines \ {g} : call'[h] = call[h] /\ at'[h] = at[h]
      /\ \/ n = Len(P) /\ call'[g] = "none"
         \/ n < Len(P) /\ call'[g] = call[g] /\ at'[g] = n + 1
  BY <1>1, AdvanceMoves
<1>4. CASE n = Len(P) /\ call'[g] = "none"
  <2>1. ~HasOpened(g)' /\ ~HasLocked(g)'
    BY <1>4 DEF HasOpened, HasLocked, Busy
  <2>2. i \notin {"open", "lock"}
    BY <1>1, <1>2, <1>4 DEF Disciplined
  <2>3. i = "close" => HasOpened(g)
    BY <1>1, <1>2, <1>4 DEF Disciplined, HasOpened, Instr
  <2>4. i = "close" => ~HasLocked(g)
    BY <1>1, <1>2, <1>4 DEF Disciplined, HasLocked, Instr
  <2>5. i = "unlock" => HasLocked(g)
    BY <1>1, <1>2, <1>4 DEF Disciplined, HasLocked, Instr
  <2>6. i = "unlock" => ~HasOpened(g)
    BY <1>1, <1>2, <1>4 DEF Disciplined, HasOpened, Instr
  <2> QED
    BY <2>1, <2>2, <2>3, <2>4, <2>5, <2>6
<1>5. CASE n < Len(P) /\ call'[g] = call[g] /\ at'[g] = n + 1
  <2>1. HasOpened(g)' <=> i = "open"
    BY <1>1, <1>2, <1>5 DEF HasOpened, Busy, Instr
  <2>2. HasLocked(g)' <=> (HasLocked(g) \/ i = "lock")
    BY <1>1, <1>2, <1>5 DEF HasLocked, Busy, Instr
  <2>3. i # "unlock"
    BY <1>1, <1>2, <1>5 DEF Disciplined
  <2>4. i = "close" => HasOpened(g)
    BY <1>1, <1>2 DEF Disciplined, HasOpened, Instr
  <2>5. i \in {"lock", "open"} => ~HasOpened(g)
    BY <1>1, <1>2 DEF Disciplined, HasOpened, Instr
  <2>6. i = "lock" => ~HasLocked(g)
    BY <1>1, <1>2 DEF Disciplined, HasLocked, Instr
  <2> QED
    BY <2>1, <2>2, <2>3, <2>4, <2>5, <2>6
<1> QED
  BY <1>3, <1>4, <1>5

-----------------------------------------------------------------------------
(* Invariance                                                              *)

\* Begin and Fail: a goroutine at its first instruction, or outside every
\* call, has neither opened nor locked anything.
LEMMA FreshHoldsNothing ==
  ASSUME NEW g, call'[g] = "none" \/ at'[g] = 1
  PROVE  ~HasOpened(g)' /\ ~HasLocked(g)'
BY DEF HasOpened, HasLocked, Busy

\* Nobody is in a call, nobody holds anything.
LEMMA InitConnInv == Init => ConnInv
<1> SUFFICES ASSUME Init PROVE ConnInv
  OBVIOUS
<1>1. \A g \in Goroutines : ~Busy(g)
  BY DEF Init, Busy
<1>2. TypeInv
  BY <1>1 DEF Init, TypeInv
<1>3. HoldInv
  BY <1>1, NobodyAssumption DEF Init, HoldInv, HasOpened, HasLocked
<1> QED
  BY <1>2, <1>3 DEF ConnInv

\* What a move of g owes the invariant, apart from its locks.
LEMMA MoveTyped ==
  ASSUME ConnInv, NEW g \in Goroutines, Busy(g), Advance(g),
         conn' \in Goroutines \cup {Nobody},
         writeMu' \in Goroutines \cup {Nobody}
  PROVE  TypeInv'
<1>1. /\ call' \in [Goroutines -> Operations \cup {"none"}]
      /\ at' \in [Goroutines -> Nat]
      /\ \A h \in Goroutines \ {g} : call'[h] = call[h] /\ at'[h] = at[h]
      /\ \/ call'[g] = "none"
         \/ /\ at[g] < Len(Program[call[g]])
            /\ call'[g] = call[g]
            /\ at'[g] = at[g] + 1
  BY AdvanceMoves
<1>2. ASSUME NEW h \in Goroutines, Busy(h)'
      PROVE  at'[h] \in 1 .. Len(Program[call'[h]])
  <2>1. CASE h = g
    BY <1>1, <1>2, <2>1, AtInstr DEF Busy
  <2>2. CASE h # g
    BY <1>1, <1>2, <2>2 DEF ConnInv, TypeInv, Busy
  <2> QED
    BY <2>1, <2>2
<1> QED
  BY <1>1, <1>2 DEF TypeInv

\* A goroutine comes in, or falls out of its call with empty hands.
LEMMA JumpTyped ==
  ASSUME ConnInv, NEW g \in Goroutines,
         NEW c \in Operations \cup {"none"}, NEW a \in Nat,
         c # "none" => a \in 1 .. Len(Program[c]),
         call' = [call EXCEPT ![g] = c], at' = [at EXCEPT ![g] = a],
         conn' \in Goroutines \cup {Nobody},
         writeMu' \in Goroutines \cup {Nobody}
  PROVE  TypeInv'
<1>1. /\ call' \in [Goroutines -> Operations \cup {"none"}]
      /\ at' \in [Goroutines -> Nat]
      /\ call'[g] = c /\ at'[g] = a
      /\ \A h \in Goroutines \ {g} : call'[h] = call[h] /\ at'[h] = at[h]
  BY DEF ConnInv, TypeInv
<1>2. ASSUME NEW h \in Goroutines, Busy(h)'
      PROVE  at'[h] \in 1 .. Len(Program[call'[h]])
  <2>1. CASE h = g
    BY <1>1, <1>2, <2>1 DEF Busy
  <2>2. CASE h # g
    BY <1>1, <1>2, <2>2 DEF ConnInv, TypeInv, Busy
  <2> QED
    BY <2>1, <2>2
<1> QED
  BY <1>1, <1>2 DEF TypeInv

\* Only g has moved, and it holds what its new position says.
LEMMA HoldsAgain ==
  ASSUME ConnInv, NEW g \in Goroutines,
         \A h \in Goroutines \ {g} :
           /\ call'[h] = call[h] /\ at'[h] = at[h]
           /\ conn' = h <=> conn = h
           /\ writeMu' = h <=> writeMu = h,
         conn' = g <=> HasOpened(g)',
         writeMu' = g <=> HasLocked(g)'
  PROVE  HoldInv'
<1>1. ASSUME NEW h \in Goroutines \ {g}
      PROVE  (conn' = h <=> HasOpened(h)') /\ (writeMu' = h <=> HasLocked(h)')
  <2>1. (HasOpened(h) <=> HasOpened(h)') /\ (HasLocked(h) <=> HasLocked(h)')
    BY OthersUnmoved
  <2> QED
    BY <2>1 DEF ConnInv, HoldInv
<1> QED
  BY <1>1 DEF HoldInv

\* A goroutine enters a call.
LEMMA BeginKeeps ==
  ASSUME ConnInv, NEW g \in Goroutines, NEW op \in Operations, Begin(g, op)
  PROVE  ConnInv'
<1>1. 1 \in 1 .. Len(Program[op])
  BY AllDisciplined DEF Disciplined
<1>2. TypeInv'
  BY <1>1, JumpTyped DEF Begin, ConnInv, TypeInv
<1>3. /\ at'[g] = 1
      /\ \A h \in Goroutines \ {g} : call'[h] = call[h] /\ at'[h] = at[h]
      /\ conn' = conn /\ writeMu' = writeMu
  BY DEF Begin, ConnInv, TypeInv
<1>4. conn # g /\ writeMu # g
  BY DEF Begin, ConnInv, HoldInv, HasOpened, HasLocked
<1>5. ~HasOpened(g)' /\ ~HasLocked(g)'
  BY <1>3, FreshHoldsNothing
<1>6. HoldInv'
  BY <1>3, <1>4, <1>5, HoldsAgain
<1> QED
  BY <1>2, <1>6 DEF ConnInv

\* A goroutine gives back what it holds and leaves its call.
LEMMA FailKeeps ==
  ASSUME ConnInv, NEW g \in Goroutines, Fail(g)
  PROVE  ConnInv'
<1>1. /\ conn' \in Goroutines \cup {Nobody} /\ conn' # g
      /\ writeMu' \in Goroutines \cup {Nobody} /\ writeMu' # g
      /\ \A h \in Goroutines \ {g} : /\ conn' = h <=> conn = h
                                     /\ writeMu' = h <=> writeMu = h
  BY NobodyAssumption DEF Fail, Released, ConnInv, TypeInv
<1>2. TypeInv'
  BY <1>1, JumpTyped DEF Fail
<1>3. /\ call'[g] = "none"
      /\ \A h \in Goroutines \ {g} : call'[h] = call[h] /\ at'[h] = at[h]
  BY DEF Fail, ConnInv, TypeInv
<1>4. ~HasOpened(g)' /\ ~HasLocked(g)'
  BY <1>3, FreshHoldsNothing
<1>5. HoldInv'
  BY <1>1, <1>3, <1>4, HoldsAgain
<1> QED
  BY <1>2, <1>5 DEF ConnInv

\* A goroutine locks, unlocks, opens or closes.
LEMMA StepKeeps ==
  ASSUME ConnInv, NEW g \in Goroutines, Step(g)
  PROVE  ConnInv'
<1>1. PICK i \in {"lock", "unlock", "open", "close"} : Does(g, i) /\ Advance(g)
  BY DEF Step, Lock, Unlock, Open, Close
<1>2. Busy(g) /\ \A h \in Goroutines \ {g} : call'[h] = call[h] /\ at'[h] = at[h]
  BY <1>1, AdvanceMoves DEF Does
<1>3. /\ conn = g <=> HasOpened(g)
      /\ writeMu = g <=> HasLocked(g)
  BY DEF ConnInv, HoldInv
<1>4. /\ conn' \in Goroutines \cup {Nobody} /\ writeMu' \in Goroutines \cup {Nobody}
      /\ conn' = g <=> HasOpened(g)'
      /\ writeMu' = g <=> HasLocked(g)'
      /\ \A h \in Goroutines \ {g} : /\ conn' = h <=> conn = h
                                     /\ writeMu' = h <=> writeMu = h
  <2> USE DEF ConnInv, TypeInv
  <2>1. CASE Lock(g)
    <3>1. Does(g, "lock") /\ Advance(g) /\ writeMu = Nobody /\ writeMu' = g
          /\ conn' = conn
      BY <2>1 DEF Lock
    <3>2. ~HasOpened(g) /\ ~HasOpened(g)' /\ HasLocked(g)'
      BY <3>1, MoveHolds
    <3> QED
      BY <1>3, <3>1, <3>2, NobodyAssumption
  <2>2. CASE Unlock(g)
    <3>1. Does(g, "unlock") /\ Advance(g) /\ writeMu' = Nobody /\ conn' = conn
      BY <2>2 DEF Unlock
    <3>2. ~HasOpened(g) /\ HasLocked(g) /\ ~HasOpened(g)' /\ ~HasLocked(g)'
      BY <3>1, MoveHolds
    <3> QED
      BY <1>3, <3>1, <3>2, NobodyAssumption
  <2>3. CASE Open(g)
    <3>1. Does(g, "open") /\ Advance(g) /\ conn = Nobody /\ conn' = g
          /\ writeMu' = writeMu
      BY <2>3 DEF Open
    <3>2. HasOpened(g)' /\ (HasLocked(g)' <=> HasLocked(g))
      BY <3>1, MoveHolds
    <3> QED
      BY <1>3, <3>1, <3>2, NobodyAssumption
  <2>4. CASE Close(g)
    <3>1. Does(g, "close") /\ Advance(g) /\ conn' = Nobody /\ writeMu' = writeMu
      BY <2>4 DEF Close
    <3>2. HasOpened(g) /\ ~HasOpened(g)' /\ (HasLocked(g)' <=> HasLocked(g))
      BY <3>1, MoveHolds
    <3> QED
      BY <1>3, <3>1, <3>2, NobodyAssumption
  <2> QED
    BY <2>1, <2>2, <2>3, <2>4 DEF Step
<1>5. TypeInv'
  BY <1>1, <1>2, <1>4, MoveTyped
<1>6. HoldInv'
  BY <1>2, <1>4, HoldsAgain
<1> QED
  BY <1>5, <1>6 DEF ConnInv

\* Who holds what is decided by how far its call has got: the connection
\* between "open" and "close", writeMu from "lock" on.
THEOREM HoldingsByPosition == Spec => []ConnInv
<1>1. ConnInv /\ [Next]_vars => ConnInv'
  <2> SUFFICES ASSUME ConnInv, [Next]_vars PROVE ConnInv'
    OBVIOUS
  <2>1. ASSUME NEW g \in Goroutines, NEW op \in Operations, Begin(g, op)
        PROVE  ConnInv'
    BY <2>1, BeginKeeps
  <2>2. ASSUME NEW g \in Goroutines, Step(g) PROVE ConnInv'
    BY <2>2, StepKeeps
  <2>3. ASSUME NEW g \in Goroutines, Fail(g) PROVE ConnInv'
    BY <2>3, FailKeeps
  <2>4. CASE UNCHANGED vars
    BY <2>4 DEF vars, ConnInv, TypeInv, HoldInv, HasOpened, HasLocked, Busy, Instr
  <2> QED
    BY <2>1, <2>2, <2>3, <2>4 DEF Next
<1> QED
  BY InitConnInv, <1>1, PTL DEF Spec

-----------------------------------------------------------------------------
(* What follows                                                            *)

\* The connection is given back next; behind "lock" only the connection is
\* asked for.
LEMMA HoldersAsk == ConnInv => NoHoldAndWait
<1> SUFFICES ASSUME ConnInv, NEW g \in Goroutines
             PROVE  /\ conn = g => Does(g, "close")
                    /\ writeMu = g =>
                         Does(g, "open") \/ Does(g, "close") \/ Does(g, "unlock")
  BY DEF NoHoldAndWait
<1>1. ASSUME conn = g PROVE Does(g, "close")
  <2>1. HasOpened(g) /\ Busy(g)
    BY <1>1 DEF ConnInv, HoldInv, HasOpened
  <2> QED
    BY <2>1, AtInstr DEF HasOpened, Disciplined, Does, Instr
<1>2. ASSUME writeMu = g
      PROVE  Does(g, "open") \/ Does(g, "close") \/ Does(g, "unlock")
  <2>1. HasLocked(g) /\ Busy(g)
    BY <1>2 DEF ConnInv, HoldInv, HasLocked
  <2>2. PICK i \in 1 .. at[g] - 1 : Program[call[g]][i] = "lock"
    BY <2>1 DEF HasLocked, Instr
  <2>3. Program[call[g]][at[g]] # "lock"
    BY <2>1, <2>2, AtInstr DEF Disciplined
  <2> QED
    BY <2>1, <2>3, AtInstr DEF Disciplined, Does
<1> QED
  BY <1>1, <1>2

\* For any number of goroutines, no cyclic wait between the one connection
\* and writeMu.
THEOREM NoCyclicWait == Spec => []NoHoldAndWait
BY HoldingsByPosition, HoldersAsk, PTL

\* The guards of Lock, Unlock, Open and Close.
CanStep(g) == \/ Does(g, "lock") /\ writeMu = Nobody
              \/ Does(g, "open") /\ conn = Nobody
              \/ Does(g, "unlock")
              \/ Does(g, "close")

\* While a call is in progress, some call can go on.
SomebodyCanStep ==
  (\E g \in Goroutines : Busy(g)) => \E h \in Goroutines : CanStep(h)

\* No set of requests, triggers and archive runs can block the server for
\* good: there is always one that waits for nothing.
THEOREM DeadlockFree == Spec => []SomebodyCanStep
<1>1. ConnInv => SomebodyCanStep
  <2> SUFFICES ASSUME ConnInv, NEW g \in Goroutines, Busy(g)
               PROVE  \E h \in Goroutines : CanStep(h)
    BY DEF SomebodyCanStep
  <2>1. conn \in Goroutines \cup {Nobody} /\ writeMu \in Goroutines \cup {Nobody}
    BY DEF ConnInv, TypeInv
  <2>2. CASE conn # Nobody
    BY <2>1, <2>2, HoldersAsk DEF NoHoldAndWait, CanStep
  <2>3. CASE conn = Nobody /\ writeMu # Nobody
    BY <2>1, <2>3, HoldersAsk DEF NoHoldAndWait, CanStep
  <2>4. CASE conn = Nobody /\ writeMu = Nobody
    <3>1. Program[call[g]][at[g]] \in {"open", "close", "lock", "unlock"}
      BY AtInstr DEF Disciplined
    <3> QED
      BY <2>4, <3>1 DEF CanStep, Does
  <2> QED
    BY <2>2, <2>3, <2>4
<1> QED
  BY <1>1, HoldingsByPosition, PTL

=============================================================================
