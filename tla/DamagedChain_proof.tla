------------------------- MODULE DamagedChain_proof -------------------------
(***************************************************************************)
(* Proofs about DamagedChain, for logs of any length and any number of     *)
(* damages: that what chain.Verify reports of a damaged log is exact.      *)
(***************************************************************************)
EXTENDS DamagedChain, FunctionTheorems, FiniteSetTheorems, SequenceTheorems,
        WellFoundedInduction, NaturalsInduction, TLAPS

-----------------------------------------------------------------------------
(* What damage leaves of the order of a log                                *)

\* The index set and the type of a log's list.
LEMMA LogShape ==
  ASSUME NEW s, NEW top, IsLog(s, top)
  PROVE  \E n \in Nat \ {0} : n = Len(s) /\ DOMAIN s = 1 .. n
<1>1. Len(s) \in Nat /\ DOMAIN s = 1 .. Len(s)
  BY LenProperties DEF IsLog
<1>2. Len(s) # 0
  BY EmptySeq DEF IsLog
<1>. QED
  BY <1>1, <1>2

\* The first n elements of t are rows in the order of a log.
InOrder(t, n, top) ==
  /\ \A i \in 1 .. n : IsRow(t[i]) /\ t[i].id < top
  /\ \A i, j \in 1 .. n : i < j => /\ t[i].seq =< t[j].seq
                                   /\ t[i].id # t[j].id

\* A list of rows in order is a log.
LEMMA MakesLog ==
  ASSUME NEW n \in Nat \ {0}, NEW S, NEW t \in Seq(S), Len(t) = n,
         NEW top, InOrder(t, n, top)
  PROVE  IsLog(t, top)
<1>1. DOMAIN t = 1 .. n
  BY LenProperties
<1>2. t \in Seq(ToSet(t))
  BY SeqOfRange DEF Range, ToSet
<1>3. t # << >>
  BY EmptySeq
<1>. QED
  BY <1>1, <1>2, <1>3 DEF IsLog, InOrder

\* The list with e in place of its element i.
Replaced(s, i, e) == [s EXCEPT ![i] = e]

\* A row whose other columns change stays where it is.
LEMMA AlteredLog ==
  ASSUME NEW s, NEW top \in Nat, NEW new \in Nat, top =< new, IsLog(s, top),
         NEW i \in DOMAIN s, NEW e, IsRow(e),
         e.id = s[i].id, e.seq = s[i].seq,
         NEW t, t = Replaced(s, i, e)
  PROVE  IsLog(t, new) /\ Len(t) = Len(s) /\ (Numbered(s) => Numbered(t))
<1>1. PICK n \in Nat \ {0} : n = Len(s) /\ DOMAIN s = 1 .. n
  BY LogShape
<1>2. PICK S : S = ToSet(s) \cup {e}
  OBVIOUS
<1>3. s \in Seq(S)
  BY <1>2, SeqMonotonic DEF IsLog
<1>4. /\ t \in Seq(S) /\ Len(t) = n
      /\ \A j \in 1 .. n : t[j] = IF j = i THEN e ELSE s[j]
  BY <1>1, <1>2, <1>3, ExceptSeq DEF Replaced
<1>5. \A j \in 1 .. n : t[j].id = s[j].id /\ t[j].seq = s[j].seq /\ IsRow(t[j])
  BY <1>1, <1>4 DEF IsLog
<1>6. ASSUME NEW j \in 1 .. n
      PROVE  t[j].id < new
  <2>1. s[j].id \in Nat /\ s[j].id < top
    BY <1>1 DEF IsLog, IsRow
  <2>. QED
    BY <1>5, <2>1
<1>7. \A j, k \in 1 .. n : j < k => /\ t[j].seq =< t[k].seq
                                    /\ t[j].id # t[k].id
  BY <1>1, <1>5 DEF IsLog
<1>8. InOrder(t, n, new)
  BY <1>5, <1>6, <1>7 DEF InOrder
<1>10. IsLog(t, new)
  <2>1. t \in Seq(S) /\ Len(t) = n
    BY <1>4
  <2>. QED
    BY <1>8, <2>1, MakesLog
<1>9. Len(t) = Len(s) /\ DOMAIN t = 1 .. n
  BY <1>1, <1>4, LenProperties
<1>11. Numbered(s) => Numbered(t)
  BY <1>1, <1>5, <1>9 DEF Numbered
<1>. QED
  BY <1>9, <1>10, <1>11

\* A row that is appended at the next position.
LEMMA AppendedLog ==
  ASSUME NEW s, NEW top \in Nat, IsLog(s, top),
         NEW e, IsRow(e), e.id = top, e.seq = Last(s).seq + 1,
         NEW t, t = Append(s, e)
  PROVE  IsLog(t, top + 1) /\ Len(t) = Len(s) + 1 /\ (Numbered(s) => Numbered(t))
<1>1. PICK n \in Nat \ {0} : n = Len(s) /\ DOMAIN s = 1 .. n
  BY LogShape
<1>2. PICK S : S = ToSet(s) \cup {e}
  OBVIOUS
<1>3. s \in Seq(S)
  BY <1>2, SeqMonotonic DEF IsLog
<1>4. /\ t \in Seq(S) /\ Len(t) = n + 1
      /\ \A j \in 1 .. n : t[j] = s[j]
      /\ t[n + 1] = e
  BY <1>1, <1>2, <1>3, AppendProperties
<1>5. /\ n \in 1 .. n
      /\ \A j \in 1 .. n : /\ IsRow(s[j]) /\ s[j].id < top /\ s[j].id \in Nat
                           /\ s[j].seq \in Nat /\ s[j].seq =< s[n].seq
  BY <1>1 DEF IsLog, IsRow
<1>6. e.seq = s[n].seq + 1 /\ e.seq \in Nat
  BY <1>1, <1>5 DEF Last
<1>7. \A j \in 1 .. n + 1 : IsRow(t[j]) /\ t[j].id < top + 1
  BY <1>4, <1>5
<1>8. \A j, k \in 1 .. n + 1 : j < k => /\ t[j].seq =< t[k].seq
                                        /\ t[j].id # t[k].id
  <2>. SUFFICES ASSUME NEW j \in 1 .. n + 1, NEW k \in 1 .. n + 1, j < k
                PROVE  t[j].seq =< t[k].seq /\ t[j].id # t[k].id
    OBVIOUS
  <2>1. j \in 1 .. n /\ (k \in 1 .. n \/ k = n + 1)
    OBVIOUS
  <2>2. CASE k \in 1 .. n
    BY <1>1, <1>4, <2>1, <2>2 DEF IsLog
  <2>3. CASE k = n + 1
    <3>1. s[j].seq =< s[n].seq /\ s[j].id < top
      BY <1>5, <2>1
    <3>. QED
      BY <1>4, <1>5, <1>6, <2>1, <2>3, <3>1
  <2>. QED
    BY <2>1, <2>2, <2>3
<1>9. IsLog(t, top + 1)
  <2>1. InOrder(t, n + 1, top + 1)
    BY <1>7, <1>8 DEF InOrder
  <2>2. t \in Seq(S) /\ Len(t) = n + 1 /\ n + 1 \in Nat \ {0}
    BY <1>4
  <2>. QED
    BY <2>1, <2>2, MakesLog
<1>10. DOMAIN t = 1 .. n + 1
  BY <1>4, LenProperties
<1>11. ASSUME Numbered(s)
       PROVE  Numbered(t)
  <2>1. s[n].seq = n
    BY <1>1, <1>5, <1>11 DEF Numbered
  <2>2. t[n + 1].seq = n + 1
    BY <1>4, <1>6, <2>1
  <2>3. \A j \in 1 .. n : t[j].seq = j
    BY <1>1, <1>4, <1>11 DEF Numbered
  <2>4. \A j \in 1 .. n + 1 : j \in 1 .. n \/ j = n + 1
    OBVIOUS
  <2>. QED
    BY <1>10, <2>2, <2>3, <2>4 DEF Numbered
<1>12. Len(t) = Len(s) + 1
  BY <1>1, <1>4
<1>. QED
  BY <1>9, <1>11, <1>12

\* t is p, of length a, followed by q, of length b.
Joined(t, p, q, a, b) == /\ Len(t) = a + b
                         /\ \A j \in 1 .. a : t[j] = p[j]
                         /\ \A j \in 1 .. b : t[a + j] = q[j]

\* What two lists joined are, element by element.
LEMMA ConcatShape ==
  ASSUME NEW S, NEW p \in Seq(S), NEW q \in Seq(S),
         NEW a \in Nat, NEW b \in Nat, Len(p) = a, Len(q) = b,
         NEW t, t = p \o q
  PROVE  t \in Seq(S) /\ Joined(t, p, q, a, b)
<1>1. /\ t \in Seq(S) /\ Len(t) = Len(p) + Len(q)
      /\ \A j \in 1 .. Len(p) + Len(q) :
           t[j] = IF j =< Len(p) THEN p[j] ELSE q[j - Len(p)]
  BY ConcatProperties
<1>2. \A j \in 1 .. a + b : t[j] = IF j =< a THEN p[j] ELSE q[j - a]
  BY <1>1
<1>3. ASSUME NEW j \in 1 .. b
      PROVE  t[a + j] = q[j]
  <2>1. a + j \in 1 .. a + b /\ ~(a + j =< a) /\ (a + j) - a = j
    OBVIOUS
  <2>. QED
    BY <1>2, <2>1
<1>4. \A j \in 1 .. a : t[j] = p[j]
  <2>1. \A j \in 1 .. a : j \in 1 .. a + b /\ j =< a
    OBVIOUS
  <2>. QED
    BY <1>2, <2>1
<1>. QED
  BY <1>1, <1>3, <1>4 DEF Joined

\* The first i elements of a list, and the elements behind them.
LEMMA SplitShape ==
  ASSUME NEW S, NEW s \in Seq(S), NEW n \in Nat, n = Len(s), NEW i \in 0 .. n
  PROVE  /\ SubSeq(s, 1, i) \in Seq(S) /\ Len(SubSeq(s, 1, i)) = i
         /\ \A j \in 1 .. i : SubSeq(s, 1, i)[j] = s[j]
         /\ SubSeq(s, i + 1, n) \in Seq(S) /\ Len(SubSeq(s, i + 1, n)) = n - i
         /\ \A j \in 1 .. n - i : SubSeq(s, i + 1, n)[j] = s[i + j]
<1>1. /\ SubSeq(s, 1, i) \in Seq(S) /\ Len(SubSeq(s, 1, i)) = i
      /\ \A j \in 1 .. i : SubSeq(s, 1, i)[j] = s[j]
  <2>1. 1 \in 1 .. Len(s) + 1 /\ i \in 1 - 1 .. Len(s)
    OBVIOUS
  <2>. QED
    BY <2>1, SubSeqProperties
<1>2. /\ SubSeq(s, i + 1, n) \in Seq(S) /\ Len(SubSeq(s, i + 1, n)) = n - i
      /\ \A j \in 1 .. n - i : SubSeq(s, i + 1, n)[j] = s[i + j]
  <2>. DEFINE q == SubSeq(s, i + 1, n)
  <2>1. i + 1 \in 1 .. Len(s) + 1 /\ n \in (i + 1) - 1 .. Len(s)
    OBVIOUS
  <2>2. /\ q \in Seq(S)
        /\ Len(q) = IF i + 1 =< n THEN n - (i + 1) + 1 ELSE 0
        /\ \A j \in 1 .. n - (i + 1) + 1 : q[j] = s[(i + 1) + j - 1]
    BY <2>1, SubSeqProperties
  <2>3. Len(q) = n - i
    BY <2>2
  <2>4. n - (i + 1) + 1 = n - i /\ \A j \in 1 .. n - i : (i + 1) + j - 1 = i + j
    OBVIOUS
  <2>. QED
    BY <2>2, <2>3, <2>4
<1>. QED
  BY <1>1, <1>2

\* t is the list of the n elements of s without the one at i.
Without(t, s, n, i) == \A j \in 1 .. n - 1 : \/ j < i /\ t[j] = s[j]
                                             \/ ~(j < i) /\ t[j] = s[j + 1]

\* The list without row i.
LEMMA RemoveAtShape ==
  ASSUME NEW S, NEW s \in Seq(S), NEW n \in Nat, n = Len(s), NEW i \in 1 .. n,
         NEW t, t = RemoveAt(s, i)
  PROVE  t \in Seq(S) /\ Len(t) = n - 1 /\ Without(t, s, n, i)
<1>1. PICK a \in 0 .. n : a = i - 1
  OBVIOUS
<1>2. PICK p : p = SubSeq(s, 1, a)
  OBVIOUS
<1>3. PICK q : q = SubSeq(s, i + 1, n)
  OBVIOUS
<1>4. t = p \o q
  BY <1>1, <1>2, <1>3 DEF RemoveAt
<1>5. p \in Seq(S) /\ Len(p) = a /\ \A j \in 1 .. a : p[j] = s[j]
  BY <1>2, SplitShape
<1>6. PICK b \in Nat : b = n - i
  <2>1. n - i \in Nat
    OBVIOUS
  <2>. QED
    BY <2>1
<1>10. /\ q \in Seq(S) /\ Len(q) = b
       /\ \A j \in 1 .. b : q[j] = s[i + j]
  <2>1. i \in 0 .. n /\ n - i \in Nat
    OBVIOUS
  <2>2. /\ SubSeq(s, i + 1, n) \in Seq(S) /\ Len(SubSeq(s, i + 1, n)) = n - i
        /\ \A j \in 1 .. n - i : SubSeq(s, i + 1, n)[j] = s[i + j]
    BY <2>1, SplitShape
  <2>. QED
    BY <1>3, <1>6, <2>1, <2>2
<1>7. t \in Seq(S) /\ Joined(t, p, q, a, b)
  <2>1. p \in Seq(S) /\ Len(p) = a /\ a \in Nat
    BY <1>5
  <2>2. q \in Seq(S) /\ Len(q) = b
    BY <1>10
  <2>. QED
    BY <1>4, <2>1, <2>2, ConcatShape
<1>8. ASSUME NEW j \in 1 .. n - 1
      PROVE  \/ j < i /\ t[j] = s[j]
             \/ ~(j < i) /\ t[j] = s[j + 1]
  <2>1. CASE j < i
    <3>1. j \in 1 .. a
      BY <1>1, <2>1
    <3>2. t[j] = p[j] /\ p[j] = s[j]
      BY <1>5, <1>7, <3>1 DEF Joined
    <3>. QED
      BY <2>1, <3>2
  <2>2. CASE ~(j < i)
    <3>1. PICK k \in 1 .. b : a + k = j /\ i + k = j + 1
      <4>1. j - a \in 1 .. b /\ a + (j - a) = j /\ i + (j - a) = j + 1
        BY <1>1, <1>6, <2>2
      <4>. QED
        BY <4>1
    <3>2. t[a + k] = q[k] /\ q[k] = s[i + k]
      BY <1>7, <1>10 DEF Joined
    <3>. QED
      BY <2>2, <3>1, <3>2
  <2>. QED
    BY <2>1, <2>2
<1>9. Len(t) = n - 1
  BY <1>1, <1>6, <1>7 DEF Joined
<1>. QED
  BY <1>7, <1>8, <1>9 DEF Without

\* t is the list of the n elements of s with e behind the one at i.
With(t, s, n, i, e) == \A j \in 1 .. n + 1 :
  \/ j \in 1 .. n /\ j =< i /\ t[j] = s[j]
  \/ j = i + 1 /\ t[j] = e
  \/ j - 1 \in 1 .. n /\ i + 1 < j /\ t[j] = s[j - 1]

\* Position k is the one behind row i of the n rows s.
Behind(k, i, n, s, S) ==
  s \in Seq(S) /\ n \in Nat /\ n = Len(s) /\ i \in 1 .. n /\ k = i + 1

\* The list with e as its element i + 1.
LEMMA InsertAtShape ==
  ASSUME NEW S, NEW s, NEW n, NEW i, NEW k, Behind(k, i, n, s, S), NEW e \in S
  PROVE  /\ InsertAt(s, k, e) \in Seq(S) /\ Len(InsertAt(s, k, e)) = n + 1
         /\ With(InsertAt(s, k, e), s, n, i, e)
<1>0. PICK t : t = InsertAt(s, k, e)
  OBVIOUS
<1>. s \in Seq(S) /\ n \in Nat /\ n = Len(s) /\ i \in 1 .. n /\ k = i + 1
  BY DEF Behind
<1>1. PICK p : p = SubSeq(s, 1, i)
  OBVIOUS
<1>2. PICK q : q = SubSeq(s, i + 1, n)
  OBVIOUS
<1>3. PICK u : u = p \o << e >>
  OBVIOUS
<1>4. t = u \o q
  <2>1. k - 1 = i
    OBVIOUS
  <2>. QED
    BY <1>0, <1>1, <1>2, <1>3, <2>1 DEF InsertAt
<1>5. /\ p \in Seq(S) /\ Len(p) = i /\ (\A j \in 1 .. i : p[j] = s[j])
      /\ q \in Seq(S) /\ Len(q) = n - i /\ n - i \in Nat
      /\ \A j \in 1 .. n - i : q[j] = s[i + j]
  <2>1. i \in 0 .. n /\ n - i \in Nat
    OBVIOUS
  <2>. QED
    <3>1. /\ SubSeq(s, 1, i) \in Seq(S) /\ Len(SubSeq(s, 1, i)) = i
          /\ \A j \in 1 .. i : SubSeq(s, 1, i)[j] = s[j]
      BY <2>1, SplitShape
    <3>2. /\ SubSeq(s, i + 1, n) \in Seq(S)
          /\ Len(SubSeq(s, i + 1, n)) = n - i
          /\ \A j \in 1 .. n - i : SubSeq(s, i + 1, n)[j] = s[i + j]
      BY <2>1, SplitShape
    <3>. QED
      BY <1>1, <1>2, <2>1, <3>1, <3>2
<1>6. /\ u \in Seq(S) /\ Len(u) = i + 1
      /\ \A j \in 1 .. i : u[j] = s[j]
      /\ u[i + 1] = e
  <2>1. u = Append(p, e)
    BY <1>3, <1>5, AppendIsConcat
  <2>2. p \in Seq(S) /\ Len(p) = i
    BY <1>5
  <2>3. /\ u \in Seq(S) /\ Len(u) = i + 1 /\ u[i + 1] = e
        /\ \A j \in 1 .. i : u[j] = p[j]
    BY <2>1, <2>2, AppendProperties
  <2>. QED
    BY <1>5, <2>3
<1>7. PICK b \in Nat : b = n - i
  BY <1>5
<1>10. t \in Seq(S) /\ Joined(t, u, q, k, b)
  <2>1. q \in Seq(S) /\ Len(q) = b
    BY <1>5, <1>7
  <2>2. u \in Seq(S) /\ Len(u) = k /\ k \in Nat
    BY <1>6
  <2>. QED
    BY <1>4, <2>1, <2>2, ConcatShape
<1>8. ASSUME NEW j \in 1 .. n + 1
      PROVE  \/ j \in 1 .. n /\ j =< i /\ t[j] = s[j]
             \/ j = i + 1 /\ t[j] = e
             \/ j - 1 \in 1 .. n /\ i + 1 < j /\ t[j] = s[j - 1]
  <2>1. CASE j =< i
    <3>1. j \in 1 .. n /\ j \in 1 .. i /\ j \in 1 .. k
      BY <2>1
    <3>2. t[j] = u[j] /\ u[j] = s[j]
      BY <1>6, <1>10, <3>1 DEF Joined
    <3>. QED
      BY <2>1, <3>1, <3>2
  <2>2. CASE j = i + 1
    <3>1. k \in 1 .. k
      OBVIOUS
    <3>2. t[k] = u[k] /\ u[k] = e
      BY <1>6, <1>10, <3>1 DEF Joined
    <3>. QED
      BY <2>2, <3>2
  <2>3. CASE i + 1 < j
    <3>1. PICK m \in 1 .. b : k + m = j /\ i + m = j - 1
      <4>1. j - k \in 1 .. b /\ k + (j - k) = j /\ i + (j - k) = j - 1
        BY <1>7, <2>3
      <4>. QED
        BY <4>1
    <3>2. t[k + m] = q[m] /\ q[m] = s[i + m]
      BY <1>5, <1>7, <1>10 DEF Joined
    <3>3. j - 1 \in 1 .. n
      BY <2>3
    <3>. QED
      BY <2>3, <3>1, <3>2, <3>3
  <2>4. j =< i \/ j = i + 1 \/ i + 1 < j
    OBVIOUS
  <2>. QED
    BY <2>1, <2>2, <2>3, <2>4
<1>9. Len(t) = n + 1
  BY <1>7, <1>10 DEF Joined
<1>. QED
  BY <1>0, <1>8, <1>9, <1>10 DEF With

\* The log without one of its rows.
LEMMA LostLog ==
  ASSUME NEW s, NEW top \in Nat, IsLog(s, top), Len(s) > 1,
         NEW i \in DOMAIN s, NEW t, t = RemoveAt(s, i)
  PROVE  IsLog(t, top) /\ Len(t) = Len(s) - 1
<1>1. PICK n \in Nat \ {0} : n = Len(s) /\ DOMAIN s = 1 .. n
  BY LogShape
<1>2. PICK S : S = ToSet(s)
  OBVIOUS
<1>3. s \in Seq(S)
  BY <1>2 DEF IsLog
<1>4. t \in Seq(S) /\ Len(t) = n - 1 /\ Without(t, s, n, i)
  BY <1>1, <1>3, RemoveAtShape
<1>5. \A j \in 1 .. n - 1 : j \in 1 .. n /\ j + 1 \in 1 .. n
  OBVIOUS
<1>6. \A j \in 1 .. n - 1 : IsRow(t[j]) /\ t[j].id < top
  BY <1>1, <1>4, <1>5 DEF IsLog, Without
<1>7. ASSUME NEW j \in 1 .. n - 1, NEW k \in 1 .. n - 1, j < k
      PROVE  t[j].seq =< t[k].seq /\ t[j].id # t[k].id
  <2>1. PICK a \in 1 .. n : a = IF j < i THEN j ELSE j + 1
    BY <1>5
  <2>2. PICK b \in 1 .. n : b = IF k < i THEN k ELSE k + 1
    BY <1>5
  <2>3. a < b /\ t[j] = s[a] /\ t[k] = s[b]
    BY <1>4, <1>7, <2>1, <2>2 DEF Without
  <2>. QED
    BY <1>1, <2>3 DEF IsLog
<1>8. n - 1 \in Nat \ {0} /\ Len(t) = n - 1
  BY <1>1, <1>4
<1>9. InOrder(t, n - 1, top)
  BY <1>6, <1>7 DEF InOrder
<1>10. IsLog(t, top)
  BY <1>4, <1>8, <1>9, MakesLog
<1>. QED
  BY <1>1, <1>8, <1>10

\* The log with a second row at a position, behind the first.
LEMMA ForkedLog ==
  ASSUME NEW s, NEW top \in Nat, IsLog(s, top),
         NEW i \in DOMAIN s, NEW e, IsRow(e), e.id = top, e.seq = s[i].seq,
         NEW t, t = InsertAt(s, i + 1, e)
  PROVE  IsLog(t, top + 1) /\ Len(t) = Len(s) + 1
<1>1. PICK n \in Nat \ {0} : n = Len(s) /\ DOMAIN s = 1 .. n
  BY LogShape
<1>2. PICK S : S = ToSet(s) \cup {e}
  OBVIOUS
<1>3. s \in Seq(S) /\ e \in S
  BY <1>2, SeqMonotonic DEF IsLog
<1>4. t \in Seq(S) /\ Len(t) = n + 1 /\ With(t, s, n, i, e)
  <2>1. i \in 1 .. n /\ n \in Nat /\ n = Len(s)
    BY <1>1
  <2>2. PICK k : k = i + 1
    OBVIOUS
  <2>3. t = InsertAt(s, k, e)
    BY <2>2
  <2>4. Behind(k, i, n, s, S) /\ e \in S
    BY <1>3, <2>1, <2>2 DEF Behind
  <2>. QED
    BY <2>3, <2>4, InsertAtShape
<1>5. \A j \in 1 .. n : /\ IsRow(s[j]) /\ s[j].id \in Nat /\ s[j].id < top
                        /\ s[j].seq \in Nat
  BY <1>1 DEF IsLog, IsRow
<1>6. \A j \in 1 .. n + 1 :
        \/ j \in 1 .. n /\ j =< i /\ t[j] = s[j]
        \/ j = i + 1 /\ t[j] = e
        \/ j - 1 \in 1 .. n /\ i + 1 < j /\ t[j] = s[j - 1]
  BY <1>4 DEF With
<1>7. \A j \in 1 .. n + 1 : IsRow(t[j]) /\ t[j].id < top + 1
  BY <1>5, <1>6
<1>8. ASSUME NEW j \in 1 .. n, NEW k \in 1 .. n, j =< k
      PROVE  s[j].seq =< s[k].seq
  <2>1. s[j].seq \in Nat /\ (j = k \/ j < k)
    BY <1>5, <1>8
  <2>2. j < k => s[j].seq =< s[k].seq
    BY <1>1 DEF IsLog
  <2>. QED
    BY <2>1, <2>2
<1>9. ASSUME NEW j \in 1 .. n + 1, NEW k \in 1 .. n + 1, j < k
      PROVE  t[j].seq =< t[k].seq /\ t[j].id # t[k].id
  <2>1. CASE j = i + 1
    <3>1. k - 1 \in 1 .. n /\ t[k] = s[k - 1] /\ i =< k - 1 /\ t[j] = e
      BY <1>1, <1>6, <1>9, <2>1
    <3>2. s[i].seq =< s[k - 1].seq /\ s[k - 1].id < top /\ s[k - 1].id \in Nat
      BY <1>1, <1>5, <1>8, <3>1
    <3>. QED
      BY <3>1, <3>2
  <2>2. CASE k = i + 1
    <3>1. j \in 1 .. n /\ t[j] = s[j] /\ j =< i /\ t[k] = e
      BY <1>1, <1>6, <1>9, <2>2
    <3>2. s[j].seq =< s[i].seq /\ s[j].id < top /\ s[j].id \in Nat
      BY <1>1, <1>5, <1>8, <3>1
    <3>. QED
      BY <3>1, <3>2
  <2>3. CASE j # i + 1 /\ k # i + 1
    <3>1. PICK a \in 1 .. n : /\ t[j] = s[a]
                              /\ \/ a = j /\ j =< i
                                 \/ a = j - 1 /\ i + 1 < j
      <4>1. \/ j \in 1 .. n /\ j =< i /\ t[j] = s[j]
            \/ j - 1 \in 1 .. n /\ i + 1 < j /\ t[j] = s[j - 1]
        BY <1>6, <2>3
      <4>2. CASE j \in 1 .. n /\ j =< i /\ t[j] = s[j]
        BY <4>2
      <4>3. CASE j - 1 \in 1 .. n /\ i + 1 < j /\ t[j] = s[j - 1]
        BY <4>3
      <4>. QED
        BY <4>1, <4>2, <4>3
    <3>2. PICK b \in 1 .. n : /\ t[k] = s[b]
                              /\ \/ b = k /\ k =< i
                                 \/ b = k - 1 /\ i + 1 < k
      <4>1. \/ k \in 1 .. n /\ k =< i /\ t[k] = s[k]
            \/ k - 1 \in 1 .. n /\ i + 1 < k /\ t[k] = s[k - 1]
        BY <1>6, <2>3
      <4>2. CASE k \in 1 .. n /\ k =< i /\ t[k] = s[k]
        BY <4>2
      <4>3. CASE k - 1 \in 1 .. n /\ i + 1 < k /\ t[k] = s[k - 1]
        BY <4>3
      <4>. QED
        BY <4>1, <4>2, <4>3
    <3>3. a < b
      BY <1>1, <1>9, <2>3, <3>1, <3>2
    <3>. QED
      BY <1>1, <3>1, <3>2, <3>3 DEF IsLog
  <2>. QED
    BY <2>1, <2>2, <2>3
<1>10. InOrder(t, n + 1, top + 1)
  BY <1>7, <1>9 DEF InOrder
<1>11. n + 1 \in Nat \ {0} /\ Len(t) = n + 1
  BY <1>4
<1>12. IsLog(t, top + 1)
  BY <1>4, <1>10, <1>11, MakesLog
<1>. QED
  BY <1>1, <1>11, <1>12

\* Ids that are below a bound are below a greater one.
LEMMA WiderLog ==
  ASSUME NEW s, NEW top \in Nat, NEW new \in Nat, top =< new, IsLog(s, top)
  PROVE  IsLog(s, new)
<1>1. \A i \in DOMAIN s : s[i].id \in Nat /\ s[i].id < top
  BY DEF IsLog, IsRow
<1>2. \A i \in DOMAIN s : s[i].id < new
  BY <1>1
<1>. QED
  BY <1>2 DEF IsLog

-----------------------------------------------------------------------------
(* The inductive invariant                                                 *)

\* A sealed row has the columns of a row.
LEMMA RowShape ==
  ASSUME NEW id \in Nat, NEW seq \in Nat \ {0}, NEW prev, NEW body
  PROVE  /\ IsRow(Row(id, seq, prev, body))
         /\ Row(id, seq, prev, body).id = id
         /\ Row(id, seq, prev, body).seq = seq
BY DEF IsRow, Row, NewEntry

\* The log begins as its genesis row.
LEMMA InitDamageInv == Init => DamageInv
<1>. SUFFICES ASSUME Init PROVE DamageInv
  OBVIOUS
<1>1. PICK e : e = Row(1, 1, ZeroHash, GenesisBody)
  OBVIOUS
<1>2. IsRow(e) /\ e.id = 1 /\ e.seq = 1
  BY <1>1, RowShape
<1>3. entries = << e >> /\ damage = 0 /\ moved = FALSE
  BY <1>1 DEF Init
<1>4. entries \in Seq({e}) /\ Len(entries) = 1 /\ entries[1] = e
  BY <1>3
<1>5. NewId = 2 /\ 1 \in Nat \ {0}
  BY <1>3, <1>4 DEF NewId
<1>6. InOrder(entries, 1, 2)
  BY <1>2, <1>4 DEF InOrder
<1>7. IsLog(entries, 2)
  BY <1>4, <1>5, <1>6, MakesLog
<1>8. Numbered(entries)
  <2>1. DOMAIN entries = 1 .. 1
    BY <1>4, LenProperties
  <2>. QED
    BY <1>2, <1>4, <2>1 DEF Numbered
<1>. QED
  <2>1. damage \in 0 .. MaxDamage /\ moved \in BOOLEAN
    <3>1. damage \in 0 .. MaxDamage
      BY <1>3, DamageAssumption, SMT
    <3>2. moved \in BOOLEAN
      BY <1>3, Zenon
    <3>. QED
      BY <3>1, <3>2
  <2>2. IsLog(entries, NewId)
    BY <1>5, <1>7
  <2>. QED
    BY <1>8, <2>1, <2>2 DEF DamageInv

\* The state before a step, as the lemmas about logs need it.
LEMMA DamageShape ==
  ASSUME DamageInv
  PROVE  /\ Len(entries) \in Nat \ {0} /\ damage \in Nat /\ NewId \in Nat
         /\ NewId = Len(entries) + damage + 1
         /\ DOMAIN entries = 1 .. Len(entries)
         /\ \A i \in DOMAIN entries : IsRow(entries[i])
<1>1. PICK n \in Nat \ {0} : n = Len(entries) /\ DOMAIN entries = 1 .. n
  BY LogShape DEF DamageInv
<1>2. damage \in Nat
  BY DamageAssumption DEF DamageInv
<1>3. \A i \in DOMAIN entries : IsRow(entries[i])
  BY DEF DamageInv, IsLog
<1>. QED
  BY <1>1, <1>2, <1>3 DEF NewId

\* A change of row i's columns that damages the log.
ColumnChanged(i) ==
  /\ \E x : \E f \in {[entries[i] EXCEPT !.body = x],
                      [entries[i] EXCEPT !.prev_hash = x],
                      [entries[i] EXCEPT !.hash = x]} :
              entries' = [entries EXCEPT ![i] = f]
  /\ Damage
  /\ UNCHANGED moved

\* The four damages of a column.
LEMMA ColumnSteps ==
  ASSUME NEW i \in DOMAIN entries,
         AlterBody(i) \/ AlterPrev(i) \/ AlterHash(i) \/ Reseal(i)
  PROVE  ColumnChanged(i)
<1>1. ASSUME AlterBody(i) PROVE ColumnChanged(i)
  BY <1>1 DEF AlterBody, ColumnChanged
<1>2. ASSUME AlterPrev(i) PROVE ColumnChanged(i)
  BY <1>2 DEF AlterPrev, ColumnChanged
<1>3. ASSUME AlterHash(i) PROVE ColumnChanged(i)
  BY <1>3 DEF AlterHash, ColumnChanged
<1>4. ASSUME Reseal(i) PROVE ColumnChanged(i)
  <2>1. PICK x : entries' = [entries EXCEPT ![i].hash = x]
    BY <1>4 DEF Reseal
  <2>. QED
    BY <1>4, <2>1 DEF Reseal, ColumnChanged
<1>. QED
  BY <1>1, <1>2, <1>3, <1>4

\* Such a change leaves the order of the rows as it is.
LEMMA ColumnStep ==
  ASSUME DamageInv, NEW i \in DOMAIN entries, ColumnChanged(i)
  PROVE  DamageInv'
<1>1. PICK x, f : /\ f \in {[entries[i] EXCEPT !.body = x],
                            [entries[i] EXCEPT !.prev_hash = x],
                            [entries[i] EXCEPT !.hash = x]}
                  /\ entries' = [entries EXCEPT ![i] = f]
  BY DEF ColumnChanged
<1>2. IsRow(f) /\ f.id = entries[i].id /\ f.seq = entries[i].seq
  <2>1. PICK e : e = entries[i]
    OBVIOUS
  <2>2. IsRow(e)
    BY <2>1, DamageShape
  <2>3. f \in {[e EXCEPT !.body = x], [e EXCEPT !.prev_hash = x],
               [e EXCEPT !.hash = x]}
    BY <1>1, <2>1
  <2>4. IsRow(f) /\ f.id = e.id /\ f.seq = e.seq
    BY <2>2, <2>3 DEF IsRow
  <2>. QED
    BY <2>1, <2>4
<1>3. damage \in 0 .. MaxDamage /\ damage < MaxDamage /\ damage' = damage + 1
  BY DEF ColumnChanged, Damage, DamageInv
<1>4. /\ NewId \in Nat /\ NewId + 1 \in Nat /\ NewId =< NewId + 1
      /\ IsLog(entries, NewId)
  BY DamageShape DEF DamageInv
<1>5. /\ IsLog(entries', NewId + 1) /\ Len(entries') = Len(entries)
      /\ Numbered(entries) => Numbered(entries')
  <2>1. PICK t : t = entries'
    OBVIOUS
  <2>2. /\ IsLog(t, NewId + 1) /\ Len(t) = Len(entries)
        /\ Numbered(entries) => Numbered(t)
    <3>1. t = [entries EXCEPT ![i] = f]
      BY <1>1, <2>1
    <3>2. PICK top \in Nat : top = NewId
      BY <1>4
    <3>3. top + 1 \in Nat /\ top =< top + 1 /\ IsLog(entries, top)
      BY <1>4, <3>2
    <3>4. PICK s : s = entries
      OBVIOUS
    <3>5. /\ IsRow(f) /\ f.id = s[i].id /\ f.seq = s[i].seq
          /\ t = Replaced(s, i, f) /\ IsLog(s, top) /\ i \in DOMAIN s
      BY <1>2, <3>1, <3>3, <3>4 DEF Replaced
    <3>6. /\ IsLog(t, top + 1) /\ Len(t) = Len(s)
          /\ Numbered(s) => Numbered(t)
      BY <3>3, <3>5, AlteredLog
    <3>. QED
      BY <3>2, <3>4, <3>6
  <2>. QED
    BY <2>1, <2>2
<1>6. NewId' = NewId + 1
  BY <1>3, <1>5, DamageShape DEF NewId
<1>. QED
  BY <1>3, <1>5, <1>6, DamageAssumption DEF DamageInv, ColumnChanged

\* The program appends at the next position, under a new id.
LEMMA AppendStep == DamageInv /\ AppendRow => DamageInv'
<1>. SUFFICES ASSUME DamageInv, AppendRow PROVE DamageInv'
  OBVIOUS
<1>1. PICK head : head = Last(entries)
  OBVIOUS
<1>2. IsRow(head) /\ head.seq + 1 \in Nat \ {0}
  <2>1. head = entries[Len(entries)] /\ Len(entries) \in DOMAIN entries
    BY <1>1, DamageShape DEF Last
  <2>. QED
    BY <2>1, DamageShape DEF IsRow
<1>3. PICK b : entries' = Append(entries, Row(NewId, head.seq + 1, head.hash, b))
  BY <1>1 DEF AppendRow
<1>4. PICK e : e = Row(NewId, head.seq + 1, head.hash, b)
  OBVIOUS
<1>5. IsRow(e) /\ e.id = NewId /\ e.seq = Last(entries).seq + 1
  BY <1>1, <1>2, <1>4, DamageShape, RowShape
<1>6. /\ IsLog(entries', NewId + 1) /\ Len(entries') = Len(entries) + 1
      /\ Numbered(entries) => Numbered(entries')
  <2>1. PICK t : t = entries'
    OBVIOUS
  <2>2. NewId \in Nat /\ IsLog(entries, NewId) /\ t = Append(entries, e)
    BY <1>3, <1>4, <2>1, DamageShape DEF DamageInv
  <2>3. /\ IsLog(t, NewId + 1) /\ Len(t) = Len(entries) + 1
        /\ Numbered(entries) => Numbered(t)
    BY <1>5, <2>2, AppendedLog
  <2>. QED
    BY <2>1, <2>3
<1>7. damage' = damage /\ moved' = moved
  BY DEF AppendRow
<1>8. NewId' = NewId + 1
  BY <1>6, <1>7, DamageShape DEF NewId
<1>. QED
  BY <1>6, <1>7, <1>8 DEF DamageInv

\* A row is lost.
LEMMA LoseStep ==
  ASSUME DamageInv, NEW i \in DOMAIN entries, LoseRow(i)
  PROVE  DamageInv'
<1>1. damage \in 0 .. MaxDamage /\ damage < MaxDamage /\ damage' = damage + 1
  BY DEF LoseRow, Damage, DamageInv
<1>2. IsLog(entries', NewId) /\ Len(entries') = Len(entries) - 1
  <2>1. PICK t : t = entries'
    OBVIOUS
  <2>2. /\ NewId \in Nat /\ IsLog(entries, NewId) /\ Len(entries) > 1
        /\ t = RemoveAt(entries, i)
    BY <2>1, DamageShape DEF DamageInv, LoseRow
  <2>3. IsLog(t, NewId) /\ Len(t) = Len(entries) - 1
    BY <2>2, LostLog
  <2>. QED
    BY <2>1, <2>3
<1>3. NewId' = NewId
  BY <1>1, <1>2, DamageShape DEF NewId
<1>4. moved' = TRUE /\ damage' \in 0 .. MaxDamage
  BY <1>1, DamageAssumption DEF LoseRow
<1>. QED
  BY <1>2, <1>3, <1>4 DEF DamageInv

\* A position is taken twice.
LEMMA ForkStep ==
  ASSUME DamageInv, NEW i \in DOMAIN entries, ForkRow(i)
  PROVE  DamageInv'
<1>1. damage \in 0 .. MaxDamage /\ damage < MaxDamage /\ damage' = damage + 1
  BY DEF ForkRow, Damage, DamageInv
<1>2. PICK b : entries' = InsertAt(entries, i + 1,
                            Row(NewId, entries[i].seq, entries[i].prev_hash, b))
  BY DEF ForkRow
<1>3. PICK e : e = Row(NewId, entries[i].seq, entries[i].prev_hash, b)
  OBVIOUS
<1>4. IsRow(e) /\ e.id = NewId /\ e.seq = entries[i].seq
  <2>1. entries[i].seq \in Nat \ {0}
    BY DamageShape DEF IsRow
  <2>. QED
    BY <1>3, <2>1, DamageShape, RowShape
<1>5. IsLog(entries', NewId + 1) /\ Len(entries') = Len(entries) + 1
  <2>1. PICK t : t = entries'
    OBVIOUS
  <2>2. /\ NewId \in Nat /\ IsLog(entries, NewId)
        /\ t = InsertAt(entries, i + 1, e)
    BY <1>2, <1>3, <2>1, DamageShape DEF DamageInv
  <2>3. IsLog(t, NewId + 1) /\ Len(t) = Len(entries) + 1
    BY <1>4, <2>2, ForkedLog
  <2>. QED
    BY <2>1, <2>3
<1>6. NewId' = NewId + 2 /\ NewId \in Nat
  BY <1>1, <1>5, DamageShape DEF NewId
<1>7. IsLog(entries', NewId')
  <2>1. PICK t : t = entries'
    OBVIOUS
  <2>2. PICK m \in Nat : m = NewId'
    BY <1>6
  <2>3. NewId + 1 \in Nat /\ NewId + 1 =< m /\ IsLog(t, NewId + 1)
    BY <1>5, <1>6, <2>1, <2>2
  <2>4. IsLog(t, m)
    BY <2>3, WiderLog
  <2>. QED
    BY <2>1, <2>2, <2>4
<1>8. moved' = TRUE /\ damage' \in 0 .. MaxDamage
  BY <1>1, DamageAssumption DEF ForkRow
<1>. QED
  BY <1>7, <1>8 DEF DamageInv

\* What is true of every log, however it was damaged: positions never fall,
\* no id is taken twice, and as long as no row was lost or added the n-th row
\* is the one at position n.
THEOREM DamageInvariance == Spec => []DamageInv
<1>1. DamageInv /\ [Next]_vars => DamageInv'
  <2>. SUFFICES ASSUME DamageInv, [Next]_vars PROVE DamageInv'
    OBVIOUS
  <2>1. CASE AppendRow
    BY <2>1, AppendStep
  <2>2. ASSUME NEW i \in DOMAIN entries,
               AlterBody(i) \/ AlterPrev(i) \/ AlterHash(i) \/ Reseal(i)
        PROVE  DamageInv'
    BY <2>2, ColumnSteps, ColumnStep
  <2>3. ASSUME NEW i \in DOMAIN entries, LoseRow(i)
        PROVE  DamageInv'
    BY <2>3, LoseStep
  <2>4. ASSUME NEW i \in DOMAIN entries, ForkRow(i)
        PROVE  DamageInv'
    BY <2>4, ForkStep
  <2>5. CASE UNCHANGED vars
    BY <2>5 DEF vars, DamageInv, NewId
  <2>. QED
    BY <2>1, <2>2, <2>3, <2>4, <2>5 DEF Next
<1>. QED
  BY <1>1, InitDamageInv, PTL DEF Spec

-----------------------------------------------------------------------------
(* What Verify reports of a log without forks                              *)

\* The n rows of a log without forks: positions rise, no row is there twice.
Rising(s, n) == \A i, j \in 1 .. n : /\ s[i].seq \in Nat \ {0}
                                     /\ i < j <=> s[i].seq < s[j].seq
                                     /\ i = j <=> s[i].seq = s[j].seq
                                     /\ i = j <=> s[i] = s[j]

\* A log without forks, as the lemmas below need it.
LEMMA UnforkedRising ==
  ASSUME DamageInv, Unforked
  PROVE  \E n \in Nat \ {0} : /\ n = Len(entries) /\ DOMAIN entries = 1 .. n
                              /\ Rows = {entries[i] : i \in 1 .. n}
                              /\ Rising(entries, n)
<1>1. PICK n \in Nat \ {0} : n = Len(entries) /\ DOMAIN entries = 1 .. n
  BY LogShape DEF DamageInv
<1>2. Rows = {entries[i] : i \in 1 .. n}
  BY <1>1 DEF Rows, ToSet
<1>3. \A i \in 1 .. n : entries[i].seq \in Nat \ {0}
  BY <1>1 DEF DamageInv, IsLog, IsRow
<1>4. \A i, j \in 1 .. n : i < j => /\ entries[i].seq =< entries[j].seq
                                    /\ entries[i].id # entries[j].id
  BY <1>1 DEF DamageInv, IsLog
<1>5. \A i, j \in 1 .. n : entries[i].seq = entries[j].seq
                             => entries[i] = entries[j]
  BY <1>2 DEF Unforked
<1>6. ASSUME NEW i \in 1 .. n, NEW j \in 1 .. n, i < j
      PROVE  entries[i].seq < entries[j].seq /\ entries[i] # entries[j]
  <2>1. entries[i].id # entries[j].id /\ entries[i].seq =< entries[j].seq
    BY <1>4, <1>6
  <2>2. entries[i].seq # entries[j].seq
    BY <1>5, <2>1
  <2>. QED
    BY <1>3, <2>1, <2>2
<1>7. ASSUME NEW i \in 1 .. n, NEW j \in 1 .. n
      PROVE  /\ i < j <=> entries[i].seq < entries[j].seq
             /\ i = j <=> entries[i].seq = entries[j].seq
             /\ i = j <=> entries[i] = entries[j]
  <2>1. i < j \/ i = j \/ j < i
    OBVIOUS
  <2>2. entries[i].seq \in Nat /\ entries[j].seq \in Nat
    BY <1>3
  <2>3. CASE i < j
    BY <1>6, <2>2, <2>3
  <2>4. CASE j < i
    BY <1>6, <2>2, <2>4
  <2>5. CASE i = j
    BY <2>2, <2>5
  <2>. QED
    BY <2>1, <2>3, <2>4, <2>5
<1>8. Rising(entries, n)
  BY <1>3, <1>7 DEF Rising
<1>. QED
  BY <1>1, <1>2, <1>8

\* A set of rows has as many elements as their indices.
LEMMA CountRows ==
  ASSUME NEW n \in Nat, NEW s, Rising(s, n), NEW I \in SUBSET (1 .. n),
         NEW R, R = {s[i] : i \in I}
  PROVE  Cardinality(R) = Cardinality(I)
<1>1. IsFiniteSet(I)
  <2>1. IsFiniteSet(1 .. n)
    BY FS_Interval
  <2>. QED
    BY <2>1, FS_Subset
<1>2. PICK f : f = [i \in I |-> s[i]]
  OBVIOUS
<1>3. f \in [I -> R] /\ \A i \in I : f[i] = s[i]
  BY <1>2
<1>4. f \in Injection(I, R)
  <2>1. ASSUME NEW i \in I, NEW j \in I, f[i] = f[j]
        PROVE  i = j
    BY <1>3, <2>1 DEF Rising
  <2>. QED
    BY <1>3, <2>1, Fun_IsInj
<1>5. f \in Surjection(I, R)
  <2>1. \A r \in R : \E i \in I : f[i] = r
    BY <1>3
  <2>. QED
    BY <1>3, <2>1 DEF Surjection
<1>6. f \in Bijection(I, R)
  BY <1>4, <1>5 DEF Bijection
<1>. QED
  BY <1>1, <1>6, FS_Bijection DEF ExistsBijection

\* Row i of the n rows R has n - i rows above it and i - 1 below it.
Around(R, s, n, i) ==
  /\ Cardinality({f \in R : f.seq > s[i].seq}) = n - i
  /\ Cardinality({f \in R : f.seq < s[i].seq}) = i - 1
  /\ (\A f \in R : f.seq =< s[i].seq) <=> i = n

\* How many rows are above and below a row.
LEMMA RowsAround ==
  ASSUME NEW n \in Nat \ {0}, NEW s, Rising(s, n),
         NEW R, R = {s[i] : i \in 1 .. n}, NEW i \in 1 .. n
  PROVE  Around(R, s, n, i)
<1>1. \A j \in 1 .. n : /\ s[j].seq > s[i].seq <=> j > i
                        /\ s[j].seq < s[i].seq <=> j < i
                        /\ s[j].seq =< s[i].seq <=> j =< i
  BY DEF Rising
<1>2. Cardinality({f \in R : f.seq > s[i].seq}) = n - i
  <2>1. {f \in R : f.seq > s[i].seq} = {s[j] : j \in i + 1 .. n}
    BY <1>1
  <2>2. i + 1 .. n \in SUBSET (1 .. n)
    OBVIOUS
  <2>3. Cardinality(i + 1 .. n) = n - i
    <3>1. i + 1 \in Int /\ n \in Int
      OBVIOUS
    <3>2. Cardinality(i + 1 .. n) = IF i + 1 > n THEN 0 ELSE n - (i + 1) + 1
      BY <3>1, FS_Interval
    <3>. QED
      BY <3>2
  <2>. QED
    BY <2>1, <2>2, <2>3, CountRows
<1>3. Cardinality({f \in R : f.seq < s[i].seq}) = i - 1
  <2>1. {f \in R : f.seq < s[i].seq} = {s[j] : j \in 1 .. i - 1}
    BY <1>1
  <2>2. 1 .. i - 1 \in SUBSET (1 .. n)
    OBVIOUS
  <2>3. Cardinality(1 .. i - 1) = i - 1
    <3>1. 1 \in Int /\ i - 1 \in Int
      OBVIOUS
    <3>2. Cardinality(1 .. i - 1) = IF 1 > i - 1 THEN 0 ELSE (i - 1) - 1 + 1
      BY <3>1, FS_Interval
    <3>. QED
      BY <3>2
  <2>. QED
    BY <2>1, <2>2, <2>3, CountRows
<1>4. (\A f \in R : f.seq =< s[i].seq) <=> i = n
  BY <1>1
<1>. QED
  BY <1>2, <1>3, <1>4 DEF Around

\* selectEntries selects by index the rows a request is about.
LEMMA ScopeExact ==
  ASSUME NEW n \in Nat \ {0}, n = Len(entries), Rising(entries, n),
         Rows = {entries[i] : i \in 1 .. n},
         NEW req \in Requests, ValidRequest(req), NEW i \in 1 .. n
  PROVE  i \in SelectEntries(entries, req) <=> InScope(entries[i], req)
<1>1. req.mode = "spot" => req.sample_step >= 1 /\ req.sample_step \in Nat
  BY DEF ValidRequest, Requests, Request
<1>2. req.mode = "range" => /\ req.start_seq \in Nat /\ req.end_seq \in Nat
                            /\ entries[i].seq \in Nat
  BY DEF Requests, Request, Rising
<1>3. /\ Cardinality({f \in Rows : f.seq > entries[i].seq}) = n - i
      /\ Cardinality({f \in Rows : f.seq < entries[i].seq}) = i - 1
      /\ (\A f \in Rows : f.seq =< entries[i].seq) <=> i = n
  <2>1. PICK R, s : R = Rows /\ s = entries
    OBVIOUS
  <2>2. R = {s[j] : j \in 1 .. n} /\ Rising(s, n)
    BY <2>1
  <2>3. Around(R, s, n, i)
    BY <2>2, RowsAround
  <2>. QED
    BY <2>1, <2>3 DEF Around
<1>4. req.mode = "head" =>
        (i > n - HeadWindow
           <=> Cardinality({f \in Rows : f.seq > entries[i].seq}) < HeadWindow)
  BY <1>3, HeadWindowAssumption
<1>5. req.mode = "range" =>
        (entries[i].seq \in req.start_seq .. req.end_seq
           <=> /\ req.start_seq =< entries[i].seq
               /\ entries[i].seq =< req.end_seq)
  BY <1>2
<1>6. req.mode = "spot" =>
        (IF req.sample_step < 1 THEN 100 ELSE req.sample_step) = req.sample_step
  BY <1>1
<1>7. i \in SelectEntries(entries, req) <=>
        \/ req.mode = "full"
        \/ req.mode = "range" /\ entries[i].seq \in req.start_seq .. req.end_seq
        \/ req.mode = "head" /\ i > n - HeadWindow
        \/ req.mode = "spot" /\ ((i - 1) % req.sample_step = 0 \/ i = n)
  BY <1>6 DEF SelectEntries
<1>8. req.mode = "spot" =>
        (((i - 1) % req.sample_step = 0 \/ i = n) <=>
           \/ Cardinality({f \in Rows : f.seq < entries[i].seq})
                % req.sample_step = 0
           \/ \A f \in Rows : f.seq =< entries[i].seq)
  BY <1>3
<1>. QED
  BY <1>4, <1>5, <1>7, <1>8, Zenon DEF InScope

\* findSeq finds the row at a position, if there is one.
LEMMA FindSeqExact ==
  ASSUME NEW n \in Nat \ {0}, n = Len(entries), Rising(entries, n), NEW q
  PROVE  /\ \A p \in 1 .. n : entries[p].seq = q => FindSeq(entries, q) = p
         /\ (\A p \in 1 .. n : entries[p].seq # q) => FindSeq(entries, q) = 0
<1>1. ASSUME NEW p \in 1 .. n, entries[p].seq = q
      PROVE  FindSeq(entries, q) = p
  <2>1. \A i \in 1 .. n : /\ entries[i].seq = q
                          /\ \A j \in 1 .. i - 1 : entries[j].seq # q
                          <=> i = p
    <3>1. \A i \in 1 .. n : entries[i].seq = q <=> i = p
      BY <1>1 DEF Rising
    <3>2. \A j \in 1 .. p - 1 : j \in 1 .. n /\ j # p
      OBVIOUS
    <3>. QED
      BY <3>1, <3>2
  <2>2. (CHOOSE i \in 1 .. n : /\ entries[i].seq = q
                               /\ \A j \in 1 .. i - 1 : entries[j].seq # q) = p
    BY <2>1
  <2>. QED
    BY <1>1, <2>2 DEF FindSeq
<1>2. (\A p \in 1 .. n : entries[p].seq # q) => FindSeq(entries, q) = 0
  BY DEF FindSeq
<1>. QED
  BY <1>1, <1>2

\* The loop body of Verify accepts a row exactly if it is not broken.
LEMMA StatusExact ==
  ASSUME NEW n \in Nat \ {0}, n = Len(entries), Rising(entries, n),
         Rows = {entries[i] : i \in 1 .. n}, NEW i \in 1 .. n
  PROVE  /\ EntryStatus(entries, entries[i]) # "ok" <=> Broken(entries[i])
         /\ EntryStatus(entries, entries[i])
              \in {"ok", "link_broken", "hash_mismatch"}
<1>1. PICK e : e = entries[i]
  OBVIOUS
<1>2. e.seq \in Nat \ {0} /\ \A j \in 1 .. n : entries[j].seq \in Nat \ {0}
  BY <1>1 DEF Rising
<1>3. e.prev_hash # ExpectedPrev(entries, e)
        <=> \/ e.seq = 1 /\ e.prev_hash # ZeroHash
            \/ \E p \in Rows : p.seq = e.seq - 1 /\ p.hash # e.prev_hash
  <2>1. CASE e.seq = 1
    <3>1. \A p \in Rows : p.seq # e.seq - 1
      BY <1>2, <2>1
    <3>. QED
      BY <2>1, <3>1 DEF ExpectedPrev
  <2>2. CASE e.seq # 1 /\ \E p \in 1 .. n : entries[p].seq = e.seq - 1
    <3>1. PICK p \in 1 .. n : entries[p].seq = e.seq - 1
      BY <2>2
    <3>2. FindSeq(entries, e.seq - 1) = p /\ p > 0
      BY <3>1, FindSeqExact
    <3>3. ExpectedPrev(entries, e) = entries[p].hash
      BY <2>2, <3>2 DEF ExpectedPrev
    <3>4. \A j \in 1 .. n : entries[j].seq = e.seq - 1 => j = p
      BY <3>1 DEF Rising
    <3>. QED
      BY <2>2, <3>1, <3>3, <3>4
  <2>3. CASE e.seq # 1 /\ \A p \in 1 .. n : entries[p].seq # e.seq - 1
    <3>1. FindSeq(entries, e.seq - 1) = 0
      BY <2>3, FindSeqExact
    <3>2. ExpectedPrev(entries, e) = e.prev_hash
      BY <2>3, <3>1 DEF ExpectedPrev
    <3>. QED
      BY <2>3, <3>2
  <2>. QED
    BY <2>1, <2>2, <2>3
<1>4. EntryStatus(entries, e) # "ok" <=> Broken(e)
  BY <1>3 DEF EntryStatus, Broken
<1>5. EntryStatus(entries, e) \in {"ok", "link_broken", "hash_mismatch"}
  BY DEF EntryStatus
<1>. QED
  BY <1>1, <1>4, <1>5

\* A set of natural numbers that is not empty has a least element.
LEMMA LeastExists ==
  ASSUME NEW B \in SUBSET Nat, B # {}
  PROVE  Smallest(B) \in B /\ \A j \in B : Smallest(B) =< j
<1>1. PICK R : R = OpToRel(<, Nat)
  OBVIOUS
<1>2. IsWellFoundedOn(R, Nat)
  BY <1>1, NatLessThanWellFounded
<1>3. PICK i \in B : \A j \in B : ~(<< j, i >> \in R)
  BY <1>2, WFMin
<1>4. \A j \in B : ~(j < i)
  BY <1>1, <1>3 DEF OpToRel
<1>5. \A j \in B : i =< j
  BY <1>4
<1>. QED
  BY <1>5 DEF Smallest

\* What ReportExact says of one request.
ExactFor(req) ==
  LET scope  == {e \in Rows : InScope(e, req)}
      broken == {e \in scope : Broken(e)} IN
  IF broken = {}
  THEN /\ Report(req).status = "ok"
       /\ Report(req).checked_entries = Cardinality(scope)
  ELSE \E e \in broken :
         /\ \A f \in broken : e.seq =< f.seq
         /\ Report(req).status \in {"link_broken", "hash_mismatch"}
         /\ Report(req).break_seq = e.seq
         /\ Report(req).checked_entries
              = Cardinality({f \in scope : f.seq =< e.seq})

\* The report of a request, from the indices it selects and the bad ones.
LEMMA ReportOf ==
  ASSUME NEW n \in Nat \ {0}, n = Len(entries), NEW req,
         NEW sel, sel = SelectEntries(entries, req),
         NEW bad, bad = {i \in sel : EntryStatus(entries, entries[i]) # "ok"},
         NEW first, first = Smallest(bad)
  PROVE  /\ bad # {} =>
              /\ Report(req).status = EntryStatus(entries, entries[first])
              /\ Report(req).break_seq = entries[first].seq
              /\ Report(req).checked_entries
                   = Cardinality({i \in sel : i =< first})
         /\ bad = {} => /\ Report(req).status = "ok"
                        /\ Report(req).checked_entries = Cardinality(sel)
<1>1. entries[Len(entries)].hash = Last(entries).hash
  BY DEF Last
<1>2. ASSUME bad # {}
      PROVE  /\ Report(req).status = EntryStatus(entries, entries[first])
             /\ Report(req).break_seq = entries[first].seq
             /\ Report(req).checked_entries
                  = Cardinality({i \in sel : i =< first})
  BY <1>2 DEF Report, Verify
<1>3. ASSUME bad = {}
      PROVE  /\ Report(req).status = "ok"
             /\ Report(req).checked_entries = Cardinality(sel)
  BY <1>1, <1>3 DEF Report, Verify
<1>. QED
  BY <1>2, <1>3

\* The report of one request is exact on a log without forks.
LEMMA RequestExact ==
  ASSUME DamageInv, Unforked, NEW req \in Requests, ValidRequest(req)
  PROVE  ExactFor(req)
<1>1. PICK n \in Nat \ {0} : /\ n = Len(entries) /\ DOMAIN entries = 1 .. n
                             /\ Rows = {entries[i] : i \in 1 .. n}
                             /\ Rising(entries, n)
  BY UnforkedRising
<1>2. PICK sel : sel = SelectEntries(entries, req)
  OBVIOUS
<1>3. PICK bad : bad = {i \in sel : EntryStatus(entries, entries[i]) # "ok"}
  OBVIOUS
<1>4. PICK scope : scope = {e \in Rows : InScope(e, req)}
  OBVIOUS
<1>5. PICK broken : broken = {e \in scope : Broken(e)}
  OBVIOUS
<1>6. sel \in SUBSET (1 .. n)
  BY <1>1, <1>2 DEF SelectEntries
<1>7. scope = {entries[i] : i \in sel}
  <2>1. \A i \in 1 .. n : i \in sel <=> InScope(entries[i], req)
    BY <1>1, <1>2, ScopeExact
  <2>. QED
    BY <1>1, <1>4, <1>6, <2>1
<1>8. broken = {entries[i] : i \in bad} /\ bad \in SUBSET (1 .. n)
  <2>1. \A i \in sel : EntryStatus(entries, entries[i]) # "ok"
                         <=> Broken(entries[i])
    BY <1>1, <1>6, StatusExact
  <2>. QED
    BY <1>3, <1>5, <1>6, <1>7, <2>1
<1>9. CASE bad = {}
  <2>1. broken = {}
    BY <1>8, <1>9
  <2>2. Cardinality(scope) = Cardinality(sel)
    BY <1>1, <1>6, <1>7, CountRows
  <2>3. /\ Report(req).status = "ok"
        /\ Report(req).checked_entries = Cardinality(sel)
    BY <1>1, <1>2, <1>3, <1>9, ReportOf
  <2>. QED
    BY <1>4, <1>5, <2>1, <2>2, <2>3 DEF ExactFor
<1>10. CASE bad # {}
  <2>1. PICK first : first = Smallest(bad)
    OBVIOUS
  <2>2. first \in bad /\ \A i \in bad : first =< i
    <3>1. bad \in SUBSET Nat
      BY <1>8
    <3>. QED
      BY <1>10, <2>1, <3>1, LeastExists
  <2>3. PICK e : e = entries[first]
    OBVIOUS
  <2>4. e \in broken /\ first \in 1 .. n
    BY <1>8, <2>2, <2>3
  <2>5. \A f \in broken : e.seq =< f.seq
    <3>1. ASSUME NEW i \in bad PROVE e.seq =< entries[i].seq
      <4>1. first < i \/ first = i
        BY <1>8, <2>2, <2>4
      <4>2. e.seq \in Nat /\ entries[i].seq \in Nat
        BY <1>1, <1>8, <2>3, <2>4 DEF Rising
      <4>3. first < i => e.seq < entries[i].seq
        BY <1>1, <1>8, <2>3, <2>4 DEF Rising
      <4>. QED
        BY <2>3, <4>1, <4>2, <4>3
    <3>. QED
      BY <1>8, <3>1
  <2>6. PICK upto : upto = {i \in sel : i =< first}
    OBVIOUS
  <2>7. {f \in scope : f.seq =< e.seq} = {entries[i] : i \in upto}
    <3>1. ASSUME NEW i \in sel PROVE i =< first <=> entries[i].seq =< e.seq
      <4>1. i \in 1 .. n /\ first \in 1 .. n
        BY <1>6, <2>4
      <4>2. /\ entries[i].seq \in Nat /\ e.seq \in Nat
            /\ first < i <=> e.seq < entries[i].seq
        BY <1>1, <2>3, <4>1 DEF Rising
      <4>. QED
        BY <4>1, <4>2
    <3>. QED
      BY <1>7, <2>6, <3>1
  <2>8. Cardinality({f \in scope : f.seq =< e.seq}) = Cardinality(upto)
    <3>1. upto \in SUBSET (1 .. n)
      BY <1>6, <2>6
    <3>. QED
      BY <1>1, <2>7, <3>1, CountRows
  <2>9. /\ Report(req).status = EntryStatus(entries, e)
        /\ Report(req).break_seq = e.seq
        /\ Report(req).checked_entries = Cardinality(upto)
    BY <1>1, <1>2, <1>3, <1>10, <2>1, <2>3, <2>6, ReportOf
  <2>10. EntryStatus(entries, e) \in {"link_broken", "hash_mismatch"}
    <3>1. EntryStatus(entries, e) # "ok"
      BY <1>3, <2>2, <2>3
    <3>2. EntryStatus(entries, e) \in {"ok", "link_broken", "hash_mismatch"}
      BY <1>1, <2>3, <2>4, StatusExact
    <3>. QED
      BY <3>1, <3>2
  <2>11. broken # {} /\ Report(req).status \in {"link_broken", "hash_mismatch"}
    BY <2>4, <2>9, <2>10
  <2>12. Report(req).checked_entries = Cardinality({f \in scope : f.seq =< e.seq})
    BY <2>8, <2>9
  <2>. QED
    BY <1>4, <1>5, <2>4, <2>5, <2>9, <2>11, <2>12 DEF ExactFor
<1>. QED
  BY <1>9, <1>10

\* On a log without forks, however damaged, every mode of Verify reports the
\* first broken row it is asked about, counts the rows up to it, and reports
\* ok, and never a head mismatch, if there is none.
THEOREM ReportCorrect == Spec => []ReportExact
<1>1. DamageInv => ReportExact
  BY RequestExact DEF ReportExact, ExactFor
<1>. QED
  BY <1>1, DamageInvariance, PTL

\* A log from which nothing was lost and to which nothing was added is one
\* hash chain exactly if none of its rows is broken.
LEMMA ChainIfUnbroken ==
  ASSUME DamageInv, ~moved
  PROVE  /\ Unforked
         /\ IsChain(Rows) <=> \A e \in Rows : ~Broken(e)
<1>1. PICK n \in Nat \ {0} : n = Len(entries) /\ DOMAIN entries = 1 .. n
  BY LogShape DEF DamageInv
<1>2. \A i \in 1 .. n : entries[i].seq = i
  BY <1>1 DEF DamageInv, Numbered
<1>3. Rows = {entries[i] : i \in 1 .. n}
  BY <1>1 DEF Rows, ToSet
<1>4. Unforked
  BY <1>2, <1>3 DEF Unforked
<1>5. ASSUME \A e \in Rows : ~Broken(e), NEW e \in Rows
      PROVE  HashOK(e) /\ (IsGenesis(e) \/ \E p \in Rows : Follows(e, p))
  <2>1. PICK i \in 1 .. n : e = entries[i] /\ e.seq = i
    BY <1>2, <1>3
  <2>2. CASE i = 1
    BY <1>5, <2>1, <2>2 DEF Broken, IsGenesis
  <2>3. CASE i # 1
    <3>1. PICK p : p = entries[i - 1]
      OBVIOUS
    <3>2. p \in Rows /\ p.seq = e.seq - 1 /\ e.seq = p.seq + 1
      BY <1>2, <1>3, <2>1, <2>3, <3>1
    <3>. QED
      BY <1>5, <3>2 DEF Broken, Follows
  <2>. QED
    BY <2>2, <2>3
<1>6. ASSUME IsChain(Rows), NEW e \in Rows
      PROVE  ~Broken(e)
  <2>1. \A p \in Rows : p.seq \in Nat \ {0}
    BY <1>2, <1>3
  <2>2. HashOK(e) /\ (IsGenesis(e) \/ \E p \in Rows : Follows(e, p))
    BY <1>6 DEF IsChain
  <2>3. e.seq = 1 => e.prev_hash = ZeroHash
    BY <2>1, <2>2 DEF IsGenesis, Follows
  <2>4. ASSUME NEW p \in Rows, p.seq = e.seq - 1
        PROVE  p.hash = e.prev_hash
    <3>1. ~IsGenesis(e)
      BY <2>1, <2>4 DEF IsGenesis
    <3>2. PICK q \in Rows : e.seq = q.seq + 1 /\ e.prev_hash = q.hash
      BY <2>2, <3>1 DEF Follows
    <3>3. q.seq = p.seq
      BY <2>1, <2>4, <3>2
    <3>4. q = p
      BY <1>4, <3>3 DEF Unforked
    <3>. QED
      BY <3>2, <3>4
  <2>. QED
    BY <2>2, <2>3, <2>4 DEF Broken
<1>7. (\A e \in Rows : ~Broken(e)) => IsChain(Rows)
  BY <1>4, <1>5 DEF IsChain, Unforked
<1>. QED
  BY <1>4, <1>6, <1>7

\* A full verification is exact about altered rows: as long as no row was lost
\* or added it reports ok if and only if the rows are one hash chain.
THEOREM AlterationCorrect == Spec => []AlterationDetected
<1>1. DamageInv => AlterationDetected
  <2>. SUFFICES ASSUME DamageInv, ~moved
                PROVE  Report(Request("full", 0, 0, 0)).status = "ok"
                         <=> IsChain(Rows)
    BY DEF AlterationDetected
  <2>1. PICK req : req = Request("full", 0, 0, 0)
    OBVIOUS
  <2>2. req \in Requests /\ ValidRequest(req) /\ req.mode = "full"
    BY <2>1 DEF Requests, Request, ValidRequest, Modes
  <2>3. ExactFor(req)
    BY <2>2, ChainIfUnbroken, RequestExact
  <2>4. \A e \in Rows : InScope(e, req)
    BY <2>2 DEF InScope
  <2>5. Report(req).status = "ok" <=> \A e \in Rows : ~Broken(e)
    <3>1. CASE \A e \in Rows : ~Broken(e)
      BY <2>3, <3>1 DEF ExactFor
    <3>2. CASE \E e \in Rows : Broken(e)
      <4>1. Report(req).status \in {"link_broken", "hash_mismatch"}
        BY <2>3, <2>4, <3>2 DEF ExactFor
      <4>. QED
        BY <3>2, <4>1
    <3>. QED
      BY <3>1, <3>2
  <2>. QED
    BY <2>1, <2>5, ChainIfUnbroken
<1>. QED
  BY <1>1, DamageInvariance, PTL

=============================================================================
