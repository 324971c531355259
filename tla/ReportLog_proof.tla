-------------------------- MODULE ReportLog_proof --------------------------
(***************************************************************************)
(* Proofs about reports, for every log ReportLog can grow and every        *)
(* request: sorting, selection, integrity, risks, rankings, timeline.      *)
(***************************************************************************)
EXTENDS ReportLog, FunctionTheorems, FiniteSetTheorems, SequenceTheorems,
        WellFoundedInduction, NaturalsInduction, TLAPS

-----------------------------------------------------------------------------
(* Sorting                                                                 *)

\* R orders the elements of S, each before or after each other.
TotalOrder(R, S) ==
  \A i, j, k \in S : /\ << i, i >> \notin R
                     /\ i # j => << i, j >> \in R \/ << j, i >> \in R
                     /\ << i, j >> \in R /\ << j, k >> \in R => << i, k >> \in R

\* The number of elements before i.
Before(R, S, i) == Cardinality({j \in S : << j, i >> \in R})

\* The n elements have 0, 1, 2, ... others before them, each its own number.
Places(R, S, n) ==
  /\ n \in Nat
  /\ \A i \in S : Before(R, S, i) \in 0 .. n - 1
  /\ \A i, j \in S : << i, j >> \in R <=> Before(R, S, i) < Before(R, S, j)
  /\ \A k \in 0 .. n - 1 : \E i \in S : Before(R, S, i) = k

\* In a total order the elements have 0, 1, 2, ... others before them.
LEMMA PlacesExact ==
  ASSUME NEW S, IsFiniteSet(S), NEW R, TotalOrder(R, S),
         NEW n, n = Cardinality(S)
  PROVE  Places(R, S, n)
<1>. DEFINE preds(i) == {j \in S : << j, i >> \in R}
<1>1. n \in Nat
  BY FS_CardinalityType
<1>2. \A i \in S : /\ preds(i) \in SUBSET S /\ IsFiniteSet(preds(i))
                   /\ Before(R, S, i) = Cardinality(preds(i))
                   /\ Before(R, S, i) \in Nat
  BY FS_Subset, FS_CardinalityType DEF Before
<1>3. ASSUME NEW i \in S
      PROVE  Before(R, S, i) \in 0 .. n - 1
  <2>1. preds(i) # S
    BY DEF TotalOrder
  <2>2. Cardinality(preds(i)) =< n /\ Cardinality(preds(i)) # n
    BY <1>1, <1>2, <2>1, FS_Subset
  <2>3. Before(R, S, i) \in Nat /\ Before(R, S, i) =< n /\ Before(R, S, i) # n
    BY <1>2, <2>2
  <2>. QED
    BY <1>1, <2>3
<1>4. ASSUME NEW i \in S, NEW j \in S, << i, j >> \in R
      PROVE  Before(R, S, i) < Before(R, S, j)
  <2>1. preds(i) \in SUBSET preds(j)
    BY <1>4 DEF TotalOrder
  <2>2. i \in preds(j) /\ i \notin preds(i)
    BY <1>4 DEF TotalOrder
  <2>3. /\ Cardinality(preds(i)) =< Cardinality(preds(j))
        /\ Cardinality(preds(i)) # Cardinality(preds(j))
    BY <1>2, <2>1, <2>2, FS_Subset
  <2>4. PICK a \in Nat, b \in Nat : a = Before(R, S, i) /\ b = Before(R, S, j)
    BY <1>2
  <2>5. a =< b /\ a # b
    BY <1>2, <2>3, <2>4
  <2>6. a < b
    BY <2>5
  <2>. QED
    BY <2>4, <2>6
<1>. HIDE DEF preds
<1>5. ASSUME NEW i \in S, NEW j \in S, Before(R, S, i) < Before(R, S, j)
      PROVE  << i, j >> \in R
  <2>1. Before(R, S, i) \in Nat /\ Before(R, S, j) \in Nat
    BY <1>2
  <2>2. ~(Before(R, S, j) < Before(R, S, i)) /\ i # j
    BY <1>5, <2>1
  <2>3. << j, i >> \notin R
    BY <1>4, <2>2
  <2>. QED
    BY <2>2, <2>3 DEF TotalOrder
<1>6. PICK f : f = [i \in S |-> Before(R, S, i)]
  OBVIOUS
<1>7. f \in [S -> 0 .. n - 1] /\ \A i \in S : f[i] = Before(R, S, i)
  BY <1>3, <1>6
<1>8. f \in Injection(S, 0 .. n - 1)
  <2>1. ASSUME NEW i \in S, NEW j \in S, f[i] = f[j]
        PROVE  i = j
    <3>1. Before(R, S, i) = Before(R, S, j) /\ Before(R, S, i) \in Nat
      BY <1>2, <1>7, <2>1
    <3>2. /\ ~(Before(R, S, i) < Before(R, S, j))
          /\ ~(Before(R, S, j) < Before(R, S, i))
      BY <3>1
    <3>3. << i, j >> \notin R /\ << j, i >> \notin R
      BY <1>4, <3>2
    <3>. QED
      BY <3>3 DEF TotalOrder
  <2>. QED
    BY <1>7, <2>1, Fun_IsInj
<1>9. IsFiniteSet(0 .. n - 1) /\ Cardinality(0 .. n - 1) = n
  <2>1. 0 \in Int /\ n - 1 \in Int
    BY <1>1
  <2>2. Cardinality(0 .. n - 1) = IF 0 > n - 1 THEN 0 ELSE (n - 1) - 0 + 1
    BY <2>1, FS_Interval
  <2>. QED
    BY <1>1, <2>1, <2>2, FS_Interval
<1>10. f \in Surjection(S, 0 .. n - 1)
  BY <1>8, <1>9, FS_Injection
<1>11. \A k \in 0 .. n - 1 : \E i \in S : f[i] = k
  BY <1>10 DEF Surjection
<1>12. \A k \in 0 .. n - 1 : \E i \in S : Before(R, S, i) = k
  BY <1>7, <1>11
<1>. QED
  BY <1>1, <1>3, <1>4, <1>5, <1>12 DEF Places

\* What a comparator must be for a sort to have a result.
WeakOrder(less, I) ==
  \A i, j, k \in I :
    /\ << i, i >> \notin less
    /\ << i, j >> \in less /\ << j, k >> \in less => << i, k >> \in less
    /\ << i, j >> \in less => << i, k >> \in less \/ << k, j >> \in less

\* t has what s holds at the n indices I, p saying where it comes from, and
\* nothing in it precedes what the comparator puts before it.
Arranged(t, s, I, less, n, p) ==
  /\ t = [k \in 1 .. n |-> s[p[k]]]
  /\ \A k \in 1 .. n : p[k] \in I
  /\ \A i \in I : \E k \in 1 .. n : p[k] = i
  /\ \A k, l \in 1 .. n : k < l => /\ p[k] # p[l]
                                   /\ << p[l], p[k] >> \notin less

\* A stable sort arranges every list that has a proper comparator.
LEMMA SortExact ==
  ASSUME NEW I \in SUBSET Int, IsFiniteSet(I), NEW less, WeakOrder(less, I),
         NEW s, NEW n, n = Cardinality(I)
  PROVE  n \in Nat /\ \E p : Arranged(StableSort(s, I, less), s, I, less, n, p)
<1>1. PICK R : R = {q \in I \X I :
                      \/ << q[1], q[2] >> \in less
                      \/ q[1] < q[2] /\ << q[2], q[1] >> \notin less}
  OBVIOUS
<1>2. \A i, j \in I : << i, j >> \in R
                        <=> \/ << i, j >> \in less
                            \/ i < j /\ << j, i >> \notin less
  BY <1>1
<1>3. TotalOrder(R, I)
  <2>1. ASSUME NEW i \in I, NEW j \in I, NEW k \in I
        PROVE  << i, i >> \notin R
    BY <1>2 DEF WeakOrder
  <2>2. ASSUME NEW i \in I, NEW j \in I, i # j
        PROVE  << i, j >> \in R \/ << j, i >> \in R
    <3>1. i < j \/ j < i
      BY <2>2
    <3>. QED
      BY <1>2, <3>1
  <2>3. ASSUME NEW i \in I, NEW j \in I, NEW k \in I,
               << i, j >> \in R, << j, k >> \in R
        PROVE  << i, k >> \in R
    <3>1. \/ << i, j >> \in less
          \/ i < j /\ << j, i >> \notin less
      BY <1>2, <2>3
    <3>2. \/ << j, k >> \in less
          \/ j < k /\ << k, j >> \notin less
      BY <1>2, <2>3
    <3>3. \/ << i, k >> \in less
          \/ i < j /\ j < k /\ << k, i >> \notin less
      BY <3>1, <3>2 DEF WeakOrder
    <3>4. i < j /\ j < k => i < k
      OBVIOUS
    <3>. QED
      BY <1>2, <3>3, <3>4
  <2>. QED
    BY <2>1, <2>2, <2>3 DEF TotalOrder
<1>4. /\ n \in Nat
      /\ \A i \in I : Before(R, I, i) \in 0 .. n - 1
      /\ \A i, j \in I : << i, j >> \in R
                           <=> Before(R, I, i) < Before(R, I, j)
      /\ \A k \in 0 .. n - 1 : \E i \in I : Before(R, I, i) = k
  <2>1. Places(R, I, n)
    BY <1>3, PlacesExact
  <2>. QED
    BY <2>1 DEF Places
<1>5. PICK p : p = [k \in 1 .. n |-> CHOOSE i \in I : Before(R, I, i) = k - 1]
  OBVIOUS
<1>6. \A k \in 1 .. n : p[k] \in I /\ Before(R, I, p[k]) = k - 1
  <2>1. \A k \in 1 .. n : \E i \in I : Before(R, I, i) = k - 1
    BY <1>4
  <2>. QED
    BY <1>5, <2>1
<1>7. ASSUME NEW i \in I
      PROVE  \E k \in 1 .. n : p[k] = i
  <2>1. PICK k \in 1 .. n : Before(R, I, i) = k - 1
    <3>1. PICK m \in 0 .. n - 1 : Before(R, I, i) = m
      BY <1>4
    <3>2. m + 1 \in 1 .. n /\ (m + 1) - 1 = m
      BY <1>4
    <3>. QED
      BY <3>1, <3>2
  <2>2. Before(R, I, p[k]) = Before(R, I, i) /\ Before(R, I, i) \in Nat
    BY <1>4, <1>6, <2>1
  <2>3. /\ ~(Before(R, I, p[k]) < Before(R, I, i))
        /\ ~(Before(R, I, i) < Before(R, I, p[k]))
    BY <2>2
  <2>4. << p[k], i >> \notin R /\ << i, p[k] >> \notin R /\ p[k] \in I
    BY <1>4, <1>6, <2>3
  <2>. QED
    BY <1>3, <2>4 DEF TotalOrder
<1>8. ASSUME NEW k \in 1 .. n, NEW l \in 1 .. n, k < l
      PROVE  p[k] # p[l] /\ << p[l], p[k] >> \notin less
  <2>1. k - 1 < l - 1
    BY <1>8
  <2>2. << p[k], p[l] >> \in R /\ p[k] \in I /\ p[l] \in I
    BY <1>4, <1>6, <2>1
  <2>3. p[k] # p[l] /\ << p[l], p[k] >> \notin R
    BY <1>3, <2>2 DEF TotalOrder
  <2>. QED
    BY <1>2, <2>2, <2>3
<1>9. StableSort(s, I, less) = [k \in 1 .. n |-> s[p[k]]]
  <2>1. PICK place : place = [i \in I |-> 1 + Before(R, I, i)]
    OBVIOUS
  <2>2. \A k \in 1 .. n : (CHOOSE i \in I : place[i] = k)
                            = (CHOOSE i \in I : Before(R, I, i) = k - 1)
    <3>1. \A i \in I : Before(R, I, i) \in Nat
      BY <1>4
    <3>2. \A k \in 1 .. n : \A i \in I : place[i] = k
                                           <=> Before(R, I, i) = k - 1
      BY <2>1, <3>1
    <3>. QED
      BY <3>2
  <2>3. \A i \in I :
          {j \in I : << j, i >> \in R}
            = {j \in I : \/ << j, i >> \in less
                         \/ j < i /\ << i, j >> \notin less}
    BY <1>2
  <2>4. place = [i \in I |-> 1 + Cardinality(
                   {j \in I : \/ << j, i >> \in less
                              \/ j < i /\ << i, j >> \notin less})]
    BY <2>1, <2>3 DEF Before
  <2>5. StableSort(s, I, less)
          = [k \in 1 .. n |-> s[CHOOSE i \in I : place[i] = k]]
    BY <2>4 DEF StableSort
  <2>6. \A k \in 1 .. n : s[CHOOSE i \in I : place[i] = k] = s[p[k]]
    <3>1. \A k \in 1 .. n : p[k] = CHOOSE i \in I : Before(R, I, i) = k - 1
      BY <1>5
    <3>. QED
      BY <2>2, <3>1
  <2>. QED
    BY <2>5, <2>6
<1>10. Arranged(StableSort(s, I, less), s, I, less, n, p)
  BY <1>6, <1>7, <1>8, <1>9 DEF Arranged
<1>. QED
  BY <1>4, <1>10

\* As many elements of a sorted list come from J as J has.
LEMMA CountArranged ==
  ASSUME NEW n \in Nat, NEW I, NEW less, NEW t, NEW s, NEW p,
         Arranged(t, s, I, less, n, p), NEW J \in SUBSET I,
         NEW K, K = {k \in 1 .. n : p[k] \in J}
  PROVE  IsFiniteSet(J) /\ Cardinality(K) = Cardinality(J)
<1>1. IsFiniteSet(K)
  <2>1. IsFiniteSet(1 .. n)
    BY FS_Interval
  <2>. QED
    BY <2>1, FS_Subset
<1>2. PICK f : f = [k \in K |-> p[k]]
  OBVIOUS
<1>3. f \in [K -> J] /\ \A k \in K : f[k] = p[k]
  BY <1>2
<1>4. f \in Injection(K, J)
  <2>1. ASSUME NEW k \in K, NEW l \in K, f[k] = f[l]
        PROVE  k = l
    <3>1. k \in 1 .. n /\ l \in 1 .. n /\ p[k] = p[l]
      BY <1>3, <2>1
    <3>2. ~(k < l) /\ ~(l < k)
      BY <3>1 DEF Arranged
    <3>. QED
      BY <3>1, <3>2
  <2>. QED
    BY <1>3, <2>1, Fun_IsInj
<1>5. f \in Surjection(K, J)
  <2>1. \A i \in J : \E k \in K : f[k] = i
    BY <1>3 DEF Arranged
  <2>. QED
    BY <1>3, <2>1 DEF Surjection
<1>6. f \in Bijection(K, J)
  BY <1>4, <1>5 DEF Bijection
<1>. QED
  BY <1>1, <1>6, FS_Bijection DEF ExistsBijection

-----------------------------------------------------------------------------
(* The log a report is about                                               *)

RowType == [seq : Nat, prev_hash : Int, hash : Nat, actor : Strings,
            action : Strings, target : Strings, time : Int,
            notes : SUBSET Strings]

\* What is true of every log: the n-th row has the n-th hash.
RowsInv == /\ entries \in Seq(RowType)
           /\ \A i \in DOMAIN entries : entries[i].hash = i

\* A row that is added, at whatever position, keeps the list well-formed.
LEMMA AddStep ==
  ASSUME RowsInv, NEW seq \in Nat, NEW prev \in Int, Add(seq, prev)
  PROVE  RowsInv'
<1>1. PICK content \in Contents : entries' = Append(entries, Row(content, seq, prev))
  BY DEF Add
<1>2. PICK e : e = Row(content, seq, prev)
  OBVIOUS
<1>3. PICK n \in Nat : n = Len(entries) /\ DOMAIN entries = 1 .. n
  BY LenProperties DEF RowsInv
<1>4. e \in RowType /\ e.hash = n + 1
  <2>1. content \in [actor : Strings, action : Strings, target : Strings,
                     time : Int, notes : SUBSET Strings]
    BY InputAssumption
  <2>2. n + 1 \in Nat
    OBVIOUS
  <2>. QED
    BY <1>2, <1>3, <2>1, <2>2 DEF Row, RowType
<1>5. PICK t : t = entries'
  OBVIOUS
<1>6. /\ t \in Seq(RowType) /\ Len(t) = n + 1
      /\ \A i \in 1 .. n : t[i] = entries[i]
      /\ t[n + 1] = e
  <2>1. entries \in Seq(RowType) /\ t = Append(entries, e)
    BY <1>1, <1>2, <1>5 DEF RowsInv
  <2>. QED
    BY <1>3, <1>4, <2>1, AppendProperties
<1>7. DOMAIN t = 1 .. n + 1
  BY <1>6, LenProperties
<1>8. \A i \in 1 .. n + 1 : t[i].hash = i
  BY <1>3, <1>4, <1>6 DEF RowsInv
<1>. QED
  BY <1>5, <1>6, <1>7, <1>8 DEF RowsInv

\* RowsInv is an invariant of the specification.
LEMMA RowsInvariance == Spec => []RowsInv
<1>1. Init => RowsInv
  BY DEF Init, RowsInv
<1>2. RowsInv /\ [Next]_vars => RowsInv'
  <2>. SUFFICES ASSUME RowsInv, [Next]_vars PROVE RowsInv'
    OBVIOUS
  <2>1. LastSeq \in Nat /\ LastHash \in Nat
    <3>1. PICK n \in Nat : n = Len(entries) /\ DOMAIN entries = 1 .. n
      BY LenProperties DEF RowsInv
    <3>2. CASE entries = << >>
      BY <3>1, <3>2 DEF LastSeq, LastHash
    <3>3. CASE entries # << >>
      <4>1. n # 0
        BY <3>1, <3>3, EmptySeq DEF RowsInv
      <4>2. entries[n] \in RowType
        BY <3>1, <4>1, ElementOfSeq DEF RowsInv
      <4>. QED
        BY <3>1, <3>3, <4>2 DEF LastSeq, LastHash, RowType
    <3>. QED
      BY <3>2, <3>3
  <2>2. CASE AddRow
    BY <2>1, <2>2, AddStep DEF AddRow
  <2>3. CASE AddAfterGap
    BY <2>1, <2>3, AddStep DEF AddAfterGap
  <2>4. CASE AddFork
    <3>1. LastHash - 1 \in Int
      BY <2>1
    <3>. QED
      BY <2>1, <2>4, <3>1, AddStep DEF AddFork
  <2>5. CASE AddUnlinked
    BY <2>1, <2>5, AddStep DEF AddUnlinked
  <2>6. CASE UNCHANGED vars
    BY <2>6 DEF vars, RowsInv
  <2>. QED
    BY <2>2, <2>3, <2>4, <2>5, <2>6 DEF Next
<1>. QED
  BY <1>1, <1>2, PTL DEF Spec

\* The rows by index.
LEMMA RowsShape ==
  ASSUME RowsInv
  PROVE  \E n \in Nat : /\ n = Len(entries) /\ DOMAIN entries = 1 .. n
                        /\ \A i \in 1 .. n : /\ entries[i] \in RowType
                                             /\ entries[i].hash = i
                                             /\ entries[i].seq \in Nat
                                             /\ entries[i].time \in Int
<1>1. PICK n \in Nat : n = Len(entries) /\ DOMAIN entries = 1 .. n
  BY LenProperties DEF RowsInv
<1>2. \A i \in 1 .. n : entries[i] \in RowType
  BY <1>1, ElementOfSeq DEF RowsInv
<1>3. \A i \in 1 .. n : entries[i].seq \in Nat /\ entries[i].time \in Int
  BY <1>2 DEF RowType
<1>. QED
  BY <1>1, <1>2, <1>3 DEF RowsInv

\* The fields of a request that is made.
LEMMA RequestShape ==
  ASSUME NEW req \in Requests
  PROVE  /\ req.from \in Int \/ req.from = NoTime
         /\ req.to \in Int \/ req.to = NoTime
         /\ req.bucket \in Int /\ req.top \in Int
         /\ req.policy \in [Lists -> SUBSET (Strings \cup {Blank})]
         /\ NormalizeRequest(req).from = req.from
         /\ NormalizeRequest(req).to = req.to
         /\ NormalizeRequest(req).bucket = Bucket(req)
         /\ NormalizeRequest(req).top = TopLimit(req)
         /\ NormalizeRequest(req).actors = NormalizedSet(req.actors)
         /\ NormalizeRequest(req).actions = NormalizedSet(req.actions)
         /\ NormalizeRequest(req).targets = NormalizedSet(req.targets)
         /\ NormalizeRequest(req).policy = req.policy
<1>1. req \in [from : Int \cup {NoTime}, to : Int \cup {NoTime},
               actors : SUBSET (Strings \cup {Blank}),
               actions : SUBSET (Strings \cup {Blank}),
               targets : SUBSET (Strings \cup {Blank}),
               bucket : Int, top : Int,
               policy : [Lists -> SUBSET (Strings \cup {Blank})]]
  BY InputAssumption
<1>. QED
  BY <1>1 DEF NormalizeRequest

\* Matching a normalized request is what the request asked for.
LEMMA MatchesExact ==
  ASSUME NEW req \in Requests
  PROVE  Asked(req) = {i \in DOMAIN entries :
                         Matches(entries[i], NormalizeRequest(req))}
<1>1. PICK r : r = NormalizeRequest(req)
  OBVIOUS
<1>2. /\ r.from = req.from /\ r.to = req.to
      /\ r.actors = NormalizedSet(req.actors)
      /\ r.actions = NormalizedSet(req.actions)
      /\ r.targets = NormalizedSet(req.targets)
  BY <1>1, RequestShape
<1>3. \A A : /\ NormalizedSet(A) # {} <=> ~(A \subseteq {Blank})
             /\ \A v : v \in NormalizedSet(A)
                         <=> \E a \in A \ {Blank} : Lower[Trim[a]] = v
  BY DEF NormalizedSet
<1>4. ASSUME NEW i \in DOMAIN entries
      PROVE  Matches(entries[i], r) <=> i \in Asked(req)
  <2>1. PICK e : e = entries[i]
    OBVIOUS
  <2>2. (r.actors # {} => Lower[e.actor] \in r.actors) <=>
          \/ req.actors \subseteq {Blank}
          \/ \E a \in req.actors \ {Blank} : Lower[Trim[a]] = Lower[e.actor]
    BY <1>2, <1>3
  <2>3. (r.actions # {} => Lower[e.action] \in r.actions) <=>
          \/ req.actions \subseteq {Blank}
          \/ \E a \in req.actions \ {Blank} : Lower[Trim[a]] = Lower[e.action]
    BY <1>2, <1>3
  <2>4. (r.targets # {} => Parts[e.target] \cap r.targets # {}) <=>
          \/ req.targets \subseteq {Blank}
          \/ \E a \in req.targets \ {Blank} : Lower[Trim[a]] \in Parts[e.target]
    BY <1>2, <1>3
  <2>5. (req.from # NoTime => req.from =< e.time)
          <=> req.from = NoTime \/ req.from =< e.time
    OBVIOUS
  <2>6. (req.to # NoTime => e.time =< req.to)
          <=> req.to = NoTime \/ e.time =< req.to
    OBVIOUS
  <2>7. i \in Asked(req) <=>
          /\ req.from = NoTime \/ req.from =< e.time
          /\ req.to = NoTime \/ e.time =< req.to
          /\ \/ req.actors \subseteq {Blank}
             \/ \E a \in req.actors \ {Blank} : Lower[Trim[a]] = Lower[e.actor]
          /\ \/ req.actions \subseteq {Blank}
             \/ \E a \in req.actions \ {Blank} : Lower[Trim[a]] = Lower[e.action]
          /\ \/ req.targets \subseteq {Blank}
             \/ \E a \in req.targets \ {Blank} : Lower[Trim[a]] \in Parts[e.target]
    BY <2>1 DEF Asked
  <2>8. Matches(e, r) <=>
          /\ req.from # NoTime => req.from =< e.time
          /\ req.to # NoTime => e.time =< req.to
          /\ r.actors # {} => Lower[e.actor] \in r.actors
          /\ r.actions # {} => Lower[e.action] \in r.actions
          /\ r.targets # {} => Parts[e.target] \cap r.targets # {}
    BY <1>2 DEF Matches
  <2>. QED
    BY <2>1, <2>2, <2>3, <2>4, <2>5, <2>6, <2>7, <2>8
<1>5. Asked(req) \subseteq DOMAIN entries
  BY DEF Asked
<1>. QED
  BY <1>1, <1>4, <1>5

-----------------------------------------------------------------------------
(* What is selected                                                        *)

\* sel has the n rows the request asks for, p saying where they come from,
\* in the order of their event times.
SelectedAs(sel, req, n, p) ==
  /\ n \in Nat /\ n = Cardinality(Asked(req))
  /\ Arranged(sel, entries, Asked(req), {}, n, p)
  /\ DOMAIN sel = 1 .. n /\ Len(sel) = n /\ sel \in Seq(RowType)
  /\ \A k \in 1 .. n : /\ sel[k] = entries[p[k]] /\ sel[k] \in RowType
                       /\ sel[k].hash = p[k] /\ p[k] \in Nat
                       /\ sel[k].seq \in Nat /\ sel[k].time \in Int
  /\ \A k, l \in 1 .. n : k =< l => sel[k].time =< sel[l].time

\* A report is about the rows its request asks for, oldest event first.
LEMMA SelectedExact ==
  ASSUME RowsInv, NEW req \in Requests,
         NEW sel, sel = Selected(entries, NormalizeRequest(req))
  PROVE  \E n, p : SelectedAs(sel, req, n, p)
<1>1. PICK m \in Nat : /\ m = Len(entries) /\ DOMAIN entries = 1 .. m
                       /\ \A i \in 1 .. m : /\ entries[i] \in RowType
                                            /\ entries[i].hash = i
                                            /\ entries[i].seq \in Nat
                                            /\ entries[i].time \in Int
  BY RowsShape
<1>2. PICK I : I = Asked(req)
  OBVIOUS
<1>3. I \in SUBSET (1 .. m) /\ I \in SUBSET Int /\ IsFiniteSet(I)
  <2>1. I \in SUBSET (1 .. m)
    BY <1>1, <1>2 DEF Asked
  <2>2. IsFiniteSet(1 .. m)
    BY FS_Interval
  <2>3. IsFiniteSet(I)
    BY <2>1, <2>2, FS_Subset
  <2>. QED
    BY <2>1, <2>3
<1>4. PICK less : less = {q \in I \X I :
        \/ entries[q[1]].time < entries[q[2]].time
        \/ /\ entries[q[1]].time = entries[q[2]].time
           /\ entries[q[1]].seq < entries[q[2]].seq}
  OBVIOUS
<1>5. \A i, j \in I : << i, j >> \in less <=>
        \/ entries[i].time < entries[j].time
        \/ entries[i].time = entries[j].time /\ entries[i].seq < entries[j].seq
  BY <1>4
<1>6. sel = StableSort(entries, I, less)
  BY <1>2, <1>4, MatchesExact DEF Selected
<1>7. \A i \in I : entries[i].time \in Int /\ entries[i].seq \in Nat
  BY <1>1, <1>3
<1>8. WeakOrder(less, I)
  <2>. SUFFICES ASSUME NEW i \in I, NEW j \in I, NEW k \in I
                PROVE  /\ << i, i >> \notin less
                       /\ << i, j >> \in less /\ << j, k >> \in less
                            => << i, k >> \in less
                       /\ << i, j >> \in less
                            => << i, k >> \in less \/ << k, j >> \in less
    BY DEF WeakOrder
  <2>1. << i, i >> \notin less
    BY <1>5, <1>7
  <2>2. << i, j >> \in less /\ << j, k >> \in less => << i, k >> \in less
    BY <1>5, <1>7
  <2>3. << i, j >> \in less => << i, k >> \in less \/ << k, j >> \in less
    BY <1>5, <1>7
  <2>. QED
    BY <2>1, <2>2, <2>3
<1>9. PICK n : n = Cardinality(I)
  OBVIOUS
<1>10. PICK p : n \in Nat /\ Arranged(sel, entries, I, less, n, p)
  BY <1>3, <1>6, <1>8, <1>9, SortExact
<1>11. Arranged(sel, entries, I, {}, n, p)
  BY <1>10 DEF Arranged
<1>12. /\ DOMAIN sel = 1 .. n
       /\ \A k \in 1 .. n : sel[k] = entries[p[k]] /\ p[k] \in I
  BY <1>10 DEF Arranged
<1>13. \A k \in 1 .. n : /\ sel[k] \in RowType
                         /\ sel[k].hash = p[k] /\ p[k] \in Nat
                         /\ sel[k].seq \in Nat /\ sel[k].time \in Int
  <2>1. \A k \in 1 .. n : p[k] \in 1 .. m
    BY <1>3, <1>12
  <2>2. \A k \in 1 .. n : p[k] \in Nat
    BY <2>1
  <2>. QED
    BY <1>1, <1>12, <2>1, <2>2
<1>14. sel \in Seq(RowType) /\ Len(sel) = n
  <2>1. sel \in [1 .. n -> RowType]
    BY <1>10, <1>12, <1>13 DEF Arranged
  <2>2. sel \in Seq(RowType)
    BY <1>10, <2>1, SeqDef
  <2>. QED
    BY <1>10, <1>12, <2>2, LenProperties
<1>15. ASSUME NEW k \in 1 .. n, NEW l \in 1 .. n, k =< l
       PROVE  sel[k].time =< sel[l].time
  <2>1. CASE k = l
    BY <1>13, <2>1
  <2>2. CASE k < l
    <3>1. << p[l], p[k] >> \notin less /\ p[k] \in I /\ p[l] \in I
      BY <1>10, <1>12, <2>2 DEF Arranged
    <3>2. ~(entries[p[l]].time < entries[p[k]].time)
      BY <1>5, <3>1
    <3>. QED
      BY <1>12, <1>13, <3>2
  <2>. QED
    BY <1>10, <1>15, <2>1, <2>2
<1>. QED
  BY <1>2, <1>9, <1>10, <1>11, <1>12, <1>13, <1>14, <1>15 DEF SelectedAs

\* As many selected rows come from J as J has.
LEMMA CountSelected ==
  ASSUME NEW sel, NEW req, NEW n, NEW p, SelectedAs(sel, req, n, p),
         NEW J \in SUBSET Asked(req)
  PROVE  /\ IsFiniteSet(J)
         /\ Cardinality({k \in 1 .. n : p[k] \in J}) = Cardinality(J)
<1>1. n \in Nat /\ Arranged(sel, entries, Asked(req), {}, n, p)
  BY DEF SelectedAs
<1>2. PICK K : K = {k \in 1 .. n : p[k] \in J}
  OBVIOUS
<1>. QED
  BY <1>1, <1>2, CountArranged

\* Where a selected row comes from.
LEMMA SelectedFrom ==
  ASSUME NEW sel, NEW req, NEW n, NEW p, SelectedAs(sel, req, n, p)
  PROVE  /\ \A k \in 1 .. n : p[k] \in Asked(req) /\ sel[k] = entries[p[k]]
         /\ \A i \in Asked(req) : \E k \in 1 .. n : p[k] = i
         /\ \A k, l \in 1 .. n : k # l => p[k] # p[l]
<1>1. n \in Nat /\ Arranged(sel, entries, Asked(req), {}, n, p)
  BY DEF SelectedAs
<1>2. \A k, l \in 1 .. n : k # l => k < l \/ l < k
  OBVIOUS
<1>. QED
  BY <1>1, <1>2 DEF Arranged, SelectedAs

\* The parts of a report that is given.
LEMMA ReportParts ==
  ASSUME NEW req, NEW r, r = Generate(entries, req), r.err = "none",
         NEW sel, sel = Selected(entries, NormalizeRequest(req)),
         NEW policy, policy = MergeRiskPolicy(NormalizeRequest(req).policy)
  PROVE  /\ RequestError(req) = "none"
         /\ r.summary = Summarize(sel)
         /\ r.timeline = BuildTimeline(sel, RiskEvents(sel, policy),
                                       NormalizeRequest(req))
         /\ r.ranks = [dim \in Dimensions |->
                         RankEntries(sel, dim, NormalizeRequest(req).top)]
         /\ r.events = RiskEvents(sel, policy)
         /\ r.by_level = ByLevel(sel, policy)
         /\ r.score = RiskScore(ByLevel(sel, policy), Len(sel))
         /\ r.issues = InspectIntegrity(sel)
<1>1. RequestError(req) = "none"
  BY DEF Generate, Failed
<1>2. ~(BucketCount(sel, NormalizeRequest(req)) > MaxBuckets)
  BY <1>1 DEF Generate, Failed
<1>. QED
  BY <1>1, <1>2 DEF Generate

-----------------------------------------------------------------------------
(* Integrity                                                               *)

\* The rows o are those of s at the indices A, in the order of their positions.
BySeq(o, s, A, a, n) ==
  /\ \A k \in 1 .. n : a[k] \in A /\ o[k] = s[a[k]] /\ o[k].seq \in Nat
  /\ \A i \in A : \E k \in 1 .. n : a[k] = i
  /\ \A k, l \in 1 .. n : k < l => a[k] # a[l] /\ o[k].seq =< o[l].seq

\* Neighbours in the order of positions follow each other exactly if no two
\* rows have one position and every row but the first has its predecessor.
LEMMA ContinuousExact ==
  ASSUME NEW n \in Nat, NEW o, NEW s, NEW A, NEW a, BySeq(o, s, A, a, n)
  PROVE  (\A k \in 2 .. n : /\ o[k].seq = o[k - 1].seq + 1
                            /\ o[k].prev_hash = o[k - 1].hash)
         <=> \A i, j \in A :
               i # j => /\ s[i].seq # s[j].seq
                        /\ s[i].seq < s[j].seq =>
                             \E p \in A : /\ s[p].seq = s[j].seq - 1
                                          /\ s[p].hash = s[j].prev_hash
<1>1. \A k \in 1 .. n : a[k] \in A /\ o[k] = s[a[k]] /\ o[k].seq \in Nat
  BY DEF BySeq
<1>2. \A k, l \in 1 .. n : k < l => a[k] # a[l] /\ o[k].seq =< o[l].seq
  BY DEF BySeq
<1>3. \A k \in 2 .. n : k - 1 \in 1 .. n /\ k \in 1 .. n /\ k - 1 < k
  OBVIOUS
<1>4. ASSUME \A k \in 2 .. n : /\ o[k].seq = o[k - 1].seq + 1
                               /\ o[k].prev_hash = o[k - 1].hash,
             NEW i \in A, NEW j \in A, i # j
      PROVE  /\ s[i].seq # s[j].seq
             /\ s[i].seq < s[j].seq =>
                  \E p \in A : /\ s[p].seq = s[j].seq - 1
                               /\ s[p].hash = s[j].prev_hash
  <2>1. ASSUME NEW k \in 1 .. n, NEW l \in 1 .. n, k < l
        PROVE  o[k].seq < o[l].seq
    <3>1. l \in 2 .. n /\ l - 1 \in 1 .. n
      BY <2>1
    <3>2. o[k].seq =< o[l - 1].seq
      <4>1. k = l - 1 \/ k < l - 1
        BY <2>1
      <4>. QED
        BY <1>1, <1>2, <3>1, <4>1
    <3>3. o[l].seq = o[l - 1].seq + 1
      BY <1>4, <3>1
    <3>. QED
      BY <1>1, <3>1, <3>2, <3>3
  <2>2. PICK k \in 1 .. n, l \in 1 .. n : a[k] = i /\ a[l] = j
    BY DEF BySeq
  <2>3. k < l \/ l < k
    BY <1>4, <2>2
  <2>4. s[i] = o[k] /\ s[j] = o[l] /\ o[k].seq \in Nat /\ o[l].seq \in Nat
    BY <1>1, <2>2
  <2>5. s[i].seq # s[j].seq
    BY <2>1, <2>3, <2>4
  <2>6. ASSUME s[i].seq < s[j].seq
        PROVE  \E p \in A : /\ s[p].seq = s[j].seq - 1
                            /\ s[p].hash = s[j].prev_hash
    <3>1. k < l
      BY <2>1, <2>3, <2>4, <2>6
    <3>2. l \in 2 .. n /\ l - 1 \in 1 .. n
      BY <3>1
    <3>3. o[l].seq = o[l - 1].seq + 1 /\ o[l].prev_hash = o[l - 1].hash
      BY <1>4, <3>2
    <3>4. PICK p \in A : p = a[l - 1] /\ s[p] = o[l - 1] /\ o[l - 1].seq \in Nat
      BY <1>1, <3>2
    <3>. QED
      BY <2>4, <3>3, <3>4
  <2>. QED
    BY <2>5, <2>6
<1>5. ASSUME \A i, j \in A :
               i # j => /\ s[i].seq # s[j].seq
                        /\ s[i].seq < s[j].seq =>
                             \E p \in A : /\ s[p].seq = s[j].seq - 1
                                          /\ s[p].hash = s[j].prev_hash,
             NEW k \in 2 .. n
      PROVE  o[k].seq = o[k - 1].seq + 1 /\ o[k].prev_hash = o[k - 1].hash
  <2>1. PICK m \in 1 .. n : m = k - 1 /\ k \in 1 .. n /\ m < k
    BY <1>3
  <2>2. /\ o[m] = s[a[m]] /\ o[k] = s[a[k]] /\ a[m] \in A /\ a[k] \in A
        /\ o[m].seq \in Nat /\ o[k].seq \in Nat
    BY <1>1, <2>1
  <2>3. a[m] # a[k] /\ o[m].seq =< o[k].seq
    BY <1>2, <2>1
  <2>4. o[m].seq < o[k].seq
    BY <1>5, <2>2, <2>3
  <2>5. PICK q \in A : s[q].seq = o[k].seq - 1 /\ s[q].hash = o[k].prev_hash
    BY <1>5, <2>2, <2>3, <2>4
  <2>6. PICK c \in 1 .. n : a[c] = q
    BY DEF BySeq
  <2>7. o[c] = s[q] /\ o[c].seq \in Nat
    BY <1>1, <2>6
  <2>8. c < k
    <3>1. ~(k < c) /\ k # c
      BY <1>2, <2>1, <2>2, <2>5, <2>7
    <3>. QED
      BY <3>1
  <2>9. c = m
    <3>1. CASE c < m
      <4>1. a[c] # a[m] /\ o[c].seq =< o[m].seq
        BY <1>2, <3>1
      <4>2. o[c].seq = o[m].seq
        BY <2>2, <2>4, <2>5, <2>7, <4>1
      <4>. QED
        BY <1>5, <2>2, <2>6, <2>7, <4>1, <4>2
    <3>. QED
      BY <2>1, <2>8, <3>1
  <2>. QED
    BY <2>1, <2>2, <2>5, <2>7, <2>9
<1>. QED
  BY <1>4, <1>5

\* A report calls its rows continuous exactly if they are one unbroken piece
\* of a chain, whatever the order of their event times.
THEOREM IntegrityCorrect == Spec => []IntegrityExact
<1>1. ASSUME RowsInv, NEW req \in Requests, NEW r, r = Generate(entries, req),
             r.err = "none"
      PROVE  r.issues = {} <=>
               \A i, j \in Asked(req) :
                 i # j =>
                   /\ entries[i].seq # entries[j].seq
                   /\ entries[i].seq < entries[j].seq =>
                        \E p \in Asked(req) :
                          /\ entries[p].seq = entries[j].seq - 1
                          /\ entries[p].hash = entries[j].prev_hash
  <2>1. PICK sel : sel = Selected(entries, NormalizeRequest(req))
    OBVIOUS
  <2>2. PICK n, p : SelectedAs(sel, req, n, p)
    BY <1>1, <2>1, SelectedExact
  <2>3. PICK I : I = 1 .. n
    OBVIOUS
  <2>4. /\ n \in Nat /\ I = DOMAIN sel
        /\ I \in SUBSET Int /\ IsFiniteSet(I) /\ Cardinality(I) = n
    <3>1. n \in Nat /\ I = DOMAIN sel
      BY <2>2, <2>3 DEF SelectedAs
    <3>2. 1 \in Int /\ n \in Int
      BY <3>1
    <3>3. IsFiniteSet(1 .. n) /\ Cardinality(1 .. n) = IF 1 > n THEN 0 ELSE n - 1 + 1
      BY <3>2, FS_Interval
    <3>4. Cardinality(1 .. n) = n
      BY <3>1, <3>3
    <3>. QED
      BY <2>3, <3>1, <3>3, <3>4
  <2>5. PICK less : less = {q \in I \X I : sel[q[1]].seq < sel[q[2]].seq}
    OBVIOUS
  <2>6. PICK o : o = StableSort(sel, I, less)
    OBVIOUS
  <2>7. \A k \in I : sel[k].seq \in Nat
    BY <2>2, <2>3 DEF SelectedAs
  <2>8. \A k, l \in I : << k, l >> \in less <=> sel[k].seq < sel[l].seq
    BY <2>5
  <2>9. WeakOrder(less, I)
    <3>. SUFFICES ASSUME NEW i \in I, NEW j \in I, NEW k \in I
                  PROVE  /\ << i, i >> \notin less
                         /\ << i, j >> \in less /\ << j, k >> \in less
                              => << i, k >> \in less
                         /\ << i, j >> \in less
                              => << i, k >> \in less \/ << k, j >> \in less
      BY DEF WeakOrder
    <3>1. sel[i].seq \in Nat /\ sel[j].seq \in Nat /\ sel[k].seq \in Nat
      BY <2>7
    <3>. QED
      BY <2>8, <3>1
  <2>10. PICK q : Arranged(o, sel, I, less, n, q)
    BY <2>4, <2>6, <2>9, SortExact
  <2>11. PICK a : a = [k \in 1 .. n |-> p[q[k]]]
    OBVIOUS
  <2>12. BySeq(o, entries, Asked(req), a, n)
    <3>1. \A k \in 1 .. n : q[k] \in 1 .. n /\ o[k] = sel[q[k]] /\ a[k] = p[q[k]]
      BY <2>3, <2>10, <2>11 DEF Arranged
    <3>2. /\ \A k \in 1 .. n : p[k] \in Asked(req) /\ sel[k] = entries[p[k]]
          /\ \A i \in Asked(req) : \E k \in 1 .. n : p[k] = i
          /\ \A k, l \in 1 .. n : k # l => p[k] # p[l]
      BY <2>2, SelectedFrom
    <3>3. \A k \in 1 .. n : /\ a[k] \in Asked(req) /\ o[k] = entries[a[k]]
                            /\ o[k].seq \in Nat
      BY <2>3, <2>7, <3>1, <3>2
    <3>4. \A i \in Asked(req) : \E k \in 1 .. n : a[k] = i
      BY <2>3, <2>10, <3>1, <3>2 DEF Arranged
    <3>5. ASSUME NEW k \in 1 .. n, NEW l \in 1 .. n, k < l
          PROVE  a[k] # a[l] /\ o[k].seq =< o[l].seq
      <4>1. q[k] # q[l] /\ << q[l], q[k] >> \notin less
        BY <2>10, <3>5 DEF Arranged
      <4>2. a[k] # a[l]
        BY <3>1, <3>2, <4>1
      <4>3. ~(sel[q[l]].seq < sel[q[k]].seq)
        BY <2>3, <2>8, <3>1, <4>1
      <4>4. sel[q[k]].seq \in Nat /\ sel[q[l]].seq \in Nat
        BY <2>3, <2>7, <3>1
      <4>. QED
        BY <3>1, <4>2, <4>3, <4>4
    <3>. QED
      BY <3>3, <3>4, <3>5 DEF BySeq
  <2>13. r.issues = {} <=> \A k \in 2 .. n : /\ o[k].seq = o[k - 1].seq + 1
                                             /\ o[k].prev_hash = o[k - 1].hash
    <3>1. r.issues = InspectIntegrity(sel)
      BY <1>1, <2>1, ReportParts
    <3>2. Len(o) = n
      <4>1. DOMAIN o = 1 .. n /\ \A k \in 1 .. n : o[k] \in RowType
        BY <2>2, <2>3, <2>10 DEF Arranged, SelectedAs
      <4>2. o = [k \in 1 .. n |-> o[k]]
        BY <2>10 DEF Arranged
      <4>3. o \in [1 .. n -> RowType]
        BY <4>1, <4>2
      <4>4. o \in Seq(RowType)
        BY <2>4, <4>3, SeqDef
      <4>. QED
        BY <2>4, <4>1, <4>4, LenProperties
    <3>3. r.issues =
            {<< o[i], "sequence_gap" >> :
               i \in {k \in 2 .. n : o[k].seq # o[k - 1].seq + 1}}
            \cup
            {<< o[i], "previous_hash_mismatch" >> :
               i \in {k \in 2 .. n : o[k].prev_hash # o[k - 1].hash}}
      BY <2>4, <2>5, <2>6, <3>1, <3>2 DEF InspectIntegrity
    <3>. QED
      BY <3>3
  <2>14. (\A k \in 2 .. n : /\ o[k].seq = o[k - 1].seq + 1
                            /\ o[k].prev_hash = o[k - 1].hash)
         <=> \A i, j \in Asked(req) :
               i # j => /\ entries[i].seq # entries[j].seq
                        /\ entries[i].seq < entries[j].seq =>
                             \E m \in Asked(req) :
                               /\ entries[m].seq = entries[j].seq - 1
                               /\ entries[m].hash = entries[j].prev_hash
    BY <2>4, <2>12, ContinuousExact
  <2>. QED
    BY <2>13, <2>14
<1>2. RowsInv => IntegrityExact
  BY <1>1 DEF IntegrityExact
<1>. QED
  BY <1>2, RowsInvariance, PTL

-----------------------------------------------------------------------------
(* The score                                                               *)

\* A quotient is bounded by a factor of the dividend's bound.
LEMMA DivBound ==
  ASSUME NEW a \in Nat, NEW b \in Nat \ {0}, NEW k \in Nat, a =< k * b
  PROVE  /\ a \div b \in 0 .. k
         /\ a \div b = k <=> a = k * b
<1>1. PICK q \in Nat : q = a \div b
  BY SMTT(30)
<1>2. PICK r \in 0 .. b - 1 : a = q * b + r
  <2>1. a % b \in 0 .. b - 1 /\ a = (a \div b) * b + (a % b)
    BY SMTT(30)
  <2>. QED
    BY <2>1, <1>1
<1>3. CASE q >= k + 1
  <2>1. q * b >= (k + 1) * b
    BY <1>3, SMTT(30)
  <2>2. (k + 1) * b = k * b + b /\ k * b \in Nat /\ q * b \in Nat
    BY SMTT(30)
  <2>. QED
    BY <2>1, <2>2, <1>2
<1>4. CASE q = k
  BY <1>1, <1>2, <1>4, SMTT(30)
<1>5. CASE q =< k - 1
  <2>1. q * b =< (k - 1) * b
    BY <1>5, SMTT(30)
  <2>2. (k - 1) * b = k * b - b /\ k * b \in Nat /\ q * b \in Nat
    BY SMTT(30)
  <2>3. a < k * b
    BY <2>1, <2>2, <1>2
  <2>. QED
    BY <2>3, <1>1, <1>5
<1>. QED
  BY <1>1, <1>3, <1>4, <1>5

\* However many entries of each level there are, the score lies in 0 .. 100,
\* it is 100 exactly if every entry is critical, and the cap never cuts it.
THEOREM ScoreExact ==
  ASSUME NEW levels \in [critical : Nat, high : Nat, medium : Nat, low : {0}],
         NEW total \in Nat,
         levels.critical + levels.high + levels.medium =< total
  PROVE  /\ RiskScore(levels, total) \in 0 .. 100
         /\ RiskScore(levels, total) = 100
              <=> total > 0 /\ levels.critical = total
         /\ total > 0 =>
              RiskScore(levels, total)
                = ((levels.critical * 8 + levels.high * 4 + levels.medium * 2) * 100)
                    \div (total * 8)
<1>1. CASE total = 0
  BY <1>1 DEF RiskScore
<1>2. CASE total > 0
  <2>1. PICK c \in Nat, h \in Nat, m \in Nat :
          levels.critical = c /\ levels.high = h /\ levels.medium = m
    OBVIOUS
  <2>2. PICK a \in Nat, b \in Nat \ {0} : /\ a = (c * 8 + h * 4 + m * 2) * 100
                                          /\ b = total * 8
    BY <1>2
  <2>3. a =< 100 * b /\ (a = 100 * b <=> c = total)
    BY <2>1, <2>2
  <2>4. a \div b \in 0 .. 100 /\ (a \div b = 100 <=> a = 100 * b)
    BY <2>3, DivBound, 100 \in Nat
  <2>5. RiskScore(levels, total) = IF a \div b > 100 THEN 100 ELSE a \div b
    BY <1>2, <2>1, <2>2 DEF RiskScore
  <2>. QED
    BY <1>2, <2>1, <2>2, <2>3, <2>4, <2>5
<1>. QED
  BY <1>1, <1>2

-----------------------------------------------------------------------------
(* Risks                                                                   *)

\* The weight that the program gives a row.
RiskWeight(e, policy) == Weight[Level(ClassifyRisk(e, policy))]

\* A merged policy has the lower-case terms of each list, or of its default.
LEMMA PolicyExact ==
  ASSUME NEW req, NEW policy, policy = MergeRiskPolicy(req.policy)
  PROVE  /\ policy.critical = Terms(req, "critical")
         /\ policy.high = Terms(req, "high")
         /\ policy.medium = Terms(req, "medium")
         /\ policy.failure = Terms(req, "failure")
<1>1. DOMAIN DefaultPolicy = {"critical", "high", "medium", "failure"}
  BY ReportAssumption DEF Lists
<1>2. ASSUME NEW list \in {"critical", "high", "medium", "failure"}
      PROVE  policy[list] = Terms(req, list)
  BY <1>1 DEF MergeRiskPolicy, NormalizedSet, Terms
<1>. QED
  BY <1>2

\* The level of a row is that of the gravest list it is on.
LEMMA GravityExact ==
  ASSUME NEW req, NEW policy, policy = MergeRiskPolicy(req.policy), NEW e
  PROVE  /\ Gravity(e, req) = RiskWeight(e, policy)
         /\ Gravity(e, req) \in {0, 2, 4, 8}
         /\ \A level \in {"critical", "high", "medium"} :
              Level(ClassifyRisk(e, policy)) = level
                <=> Gravity(e, req) = Weight[level]
<1>1. PICK c, h, m, f : /\ c = (Parts[e.action] \cap Terms(req, "critical") # {})
                        /\ h = (Parts[e.action] \cap Terms(req, "high") # {})
                        /\ m = (Parts[e.action] \cap Terms(req, "medium") # {})
                        /\ f = (e.notes \cap Terms(req, "failure") # {})
  OBVIOUS
<1>2. ClassifyRisk(e, policy) = IF c THEN "critical action"
                                ELSE IF h THEN "destructive action"
                                ELSE IF f THEN "failure indicator"
                                ELSE IF m THEN "sensitive action"
                                ELSE "none"
  BY <1>1, PolicyExact DEF ClassifyRisk
<1>3. PICK weights : weights = {w \in {0, 2, 4, 8} : \/ w = 8 /\ c
                                                     \/ w = 4 /\ (h \/ f)
                                                     \/ w = 2 /\ m
                                                     \/ w = 0}
  OBVIOUS
<1>4. Gravity(e, req) = CHOOSE w \in weights : \A v \in weights : v =< w
  BY <1>1, <1>3 DEF Gravity
<1>5. ASSUME NEW w \in weights, \A v \in weights : v =< w
      PROVE  Gravity(e, req) = w
  <2>1. PICK g : g = Gravity(e, req)
    OBVIOUS
  <2>2. g \in weights /\ \A v \in weights : v =< g
    BY <1>4, <1>5, <2>1
  <2>3. g =< w /\ w =< g
    BY <1>5, <2>2
  <2>4. w \in Int /\ g \in Int
    BY <1>3, <2>2
  <2>. QED
    BY <2>1, <2>3, <2>4
<1>6. /\ Level("critical action") = "critical"
      /\ Level("destructive action") = "high"
      /\ Level("failure indicator") = "high"
      /\ Level("sensitive action") = "medium"
      /\ Level("none") = "low"
  BY DEF Level
<1>7. /\ Weight["critical"] = 8 /\ Weight["high"] = 4
      /\ Weight["medium"] = 2 /\ Weight["low"] = 0
  BY DEF Weight
<1>8. ASSUME c
      PROVE  Gravity(e, req) = 8 /\ Level(ClassifyRisk(e, policy)) = "critical"
  <2>1. 8 \in weights /\ \A v \in weights : v =< 8
    BY <1>3, <1>8
  <2>2. Gravity(e, req) = 8
    BY <1>5, <2>1
  <2>3. Level(ClassifyRisk(e, policy)) = "critical"
    BY <1>2, <1>6, <1>8
  <2>. QED
    BY <2>2, <2>3
<1>9. ASSUME ~c /\ (h \/ f)
      PROVE  Gravity(e, req) = 4 /\ Level(ClassifyRisk(e, policy)) = "high"
  <2>1. 4 \in weights /\ \A v \in weights : v =< 4
    BY <1>3, <1>9
  <2>2. Gravity(e, req) = 4
    BY <1>5, <2>1
  <2>3. Level(ClassifyRisk(e, policy)) = "high"
    BY <1>2, <1>6, <1>9
  <2>. QED
    BY <2>2, <2>3
<1>10. ASSUME ~c /\ ~h /\ ~f /\ m
      PROVE  Gravity(e, req) = 2 /\ Level(ClassifyRisk(e, policy)) = "medium"
  <2>1. 2 \in weights /\ \A v \in weights : v =< 2
    BY <1>3, <1>10
  <2>2. Gravity(e, req) = 2
    BY <1>5, <2>1
  <2>3. Level(ClassifyRisk(e, policy)) = "medium"
    BY <1>2, <1>6, <1>10
  <2>. QED
    BY <2>2, <2>3
<1>11. ASSUME ~c /\ ~h /\ ~f /\ ~m
      PROVE  Gravity(e, req) = 0 /\ Level(ClassifyRisk(e, policy)) = "low"
  <2>1. 0 \in weights /\ \A v \in weights : v =< 0
    BY <1>3, <1>11
  <2>2. Gravity(e, req) = 0
    BY <1>5, <2>1
  <2>3. Level(ClassifyRisk(e, policy)) = "low"
    BY <1>2, <1>6, <1>11
  <2>. QED
    BY <2>2, <2>3
<1>12. PICK g, level : /\ g = Gravity(e, req)
                       /\ level = Level(ClassifyRisk(e, policy))
  OBVIOUS
<1>13. \/ g = 8 /\ level = "critical"
       \/ g = 4 /\ level = "high"
       \/ g = 2 /\ level = "medium"
       \/ g = 0 /\ level = "low"
  BY <1>8, <1>9, <1>10, <1>11, <1>12
<1>14. /\ g = Weight[level] /\ g \in {0, 2, 4, 8}
       /\ \A x \in {"critical", "high", "medium"} : level = x <=> g = Weight[x]
  BY <1>7, <1>13
<1>. QED
  BY <1>12, <1>14 DEF RiskWeight

\* Three parts of a set have together at most as many elements as it has.
LEMMA ThreeParts ==
  ASSUME NEW S, IsFiniteSet(S), NEW A \in SUBSET S, NEW B \in SUBSET S,
         NEW C \in SUBSET S, A \cap B = {}, A \cap C = {}, B \cap C = {}
  PROVE  /\ Cardinality(A) \in Nat /\ Cardinality(B) \in Nat
         /\ Cardinality(C) \in Nat
         /\ Cardinality(A) + Cardinality(B) + Cardinality(C) =< Cardinality(S)
<1>1. IsFiniteSet(A) /\ IsFiniteSet(B) /\ IsFiniteSet(C) /\ IsFiniteSet({})
  BY FS_Subset, FS_EmptySet
<1>2. /\ Cardinality(A) \in Nat /\ Cardinality(B) \in Nat
      /\ Cardinality(C) \in Nat /\ Cardinality(S) \in Nat
      /\ Cardinality({}) = 0
  BY <1>1, FS_CardinalityType, FS_EmptySet
<1>3. PICK D : D = A \cup B
  OBVIOUS
<1>4. /\ IsFiniteSet(D)
      /\ Cardinality(D) = Cardinality(A) + Cardinality(B) - Cardinality(A \cap B)
  BY <1>1, <1>3, FS_Union
<1>5. /\ IsFiniteSet(D \cup C)
      /\ Cardinality(D \cup C)
           = Cardinality(D) + Cardinality(C) - Cardinality(D \cap C)
  BY <1>1, <1>4, FS_Union
<1>6. A \cap B = {} /\ D \cap C = {} /\ D \cup C \in SUBSET S
  BY <1>3
<1>7. Cardinality(D \cup C) =< Cardinality(S)
  BY <1>6, FS_Subset
<1>8. PICK a \in Nat, b \in Nat, c \in Nat, s \in Nat :
        /\ a = Cardinality(A) /\ b = Cardinality(B)
        /\ c = Cardinality(C) /\ s = Cardinality(S)
  BY <1>2
<1>9. Cardinality(D) = a + b - 0
  BY <1>2, <1>4, <1>6, <1>8
<1>10. Cardinality(D \cup C) = (a + b - 0) + c - 0
  BY <1>2, <1>5, <1>6, <1>8, <1>9
<1>11. (a + b - 0) + c - 0 =< s
  BY <1>7, <1>8, <1>10
<1>12. a + b + c =< s
  BY <1>11
<1>. QED
  BY <1>8, <1>12

\* events has the risky ones among the rows sel, p saying where these come
\* from, the gravest first and the newest first among equals.
RiskList(events, req, risky, sel, n, p) ==
  /\ Cardinality(risky) \in Nat
  /\ DOMAIN events = 1 .. Cardinality(risky)
  /\ Len(events) = Cardinality(risky)
  /\ \E I, q : /\ I = {k \in 1 .. n : p[k] \in risky}
               /\ Arranged(events, sel, I, {}, Cardinality(risky), q)
  /\ {events[k].hash : k \in DOMAIN events} = risky
  /\ \A k \in 2 .. Len(events) :
       LET e == events[k - 1] f == events[k] IN
       \/ Gravity(e, req) > Gravity(f, req)
       \/ Gravity(e, req) = Gravity(f, req) /\ e.time >= f.time

\* The list of risks of a report is the sorted list of its risky rows.
LEMMA EventsExact ==
  ASSUME RowsInv, NEW req \in Requests, NEW sel, NEW n, NEW p,
         SelectedAs(sel, req, n, p),
         NEW policy, policy = MergeRiskPolicy(req.policy),
         NEW risky, risky = {i \in Asked(req) : Gravity(entries[i], req) > 0},
         NEW events, events = RiskEvents(sel, policy)
  PROVE  RiskList(events, req, risky, sel, n, p)
<1>1. /\ n \in Nat /\ DOMAIN sel = 1 .. n
      /\ \A k \in 1 .. n : /\ sel[k] \in RowType /\ sel[k].hash = p[k]
                           /\ sel[k].time \in Int
  BY DEF SelectedAs
<1>2. /\ \A k \in 1 .. n : p[k] \in Asked(req) /\ sel[k] = entries[p[k]]
      /\ \A i \in Asked(req) : \E k \in 1 .. n : p[k] = i
  BY SelectedFrom
<1>3. \A e : /\ Gravity(e, req) = RiskWeight(e, policy)
             /\ Gravity(e, req) \in Nat
  <2>1. \A e : /\ Gravity(e, req) = RiskWeight(e, policy)
               /\ Gravity(e, req) \in {0, 2, 4, 8}
    BY GravityExact
  <2>. QED
    BY <2>1
<1>4. PICK I : I = {k \in 1 .. n : p[k] \in risky}
  OBVIOUS
<1>5. I = {k \in DOMAIN sel : RiskWeight(sel[k], policy) > 0}
  BY <1>1, <1>2, <1>3, <1>4
<1>6. PICK less : less = {q \in I \X I :
        \/ RiskWeight(sel[q[1]], policy) > RiskWeight(sel[q[2]], policy)
        \/ /\ RiskWeight(sel[q[1]], policy) = RiskWeight(sel[q[2]], policy)
           /\ sel[q[1]].time > sel[q[2]].time}
  OBVIOUS
<1>7. events = StableSort(sel, I, less)
  BY <1>5, <1>6 DEF RiskEvents, RiskWeight
<1>8. /\ I \in SUBSET Int /\ IsFiniteSet(I)
      /\ Cardinality(I) = Cardinality(risky)
  <2>1. I \in SUBSET (1 .. n) /\ risky \in SUBSET Asked(req)
    BY <1>4
  <2>2. IsFiniteSet(1 .. n) /\ I \in SUBSET Int
    BY <1>1, <2>1, FS_Interval
  <2>3. IsFiniteSet(I)
    BY <2>1, <2>2, FS_Subset
  <2>4. Cardinality(I) = Cardinality(risky)
    BY <1>4, <2>1, CountSelected
  <2>. QED
    BY <2>2, <2>3, <2>4
<1>9. PICK g : g = [k \in I |-> RiskWeight(sel[k], policy)]
  OBVIOUS
<1>10. /\ \A k \in I : g[k] \in Nat /\ sel[k].time \in Int /\ k \in 1 .. n
       /\ \A k, l \in I : << k, l >> \in less <=>
            g[k] > g[l] \/ (g[k] = g[l] /\ sel[k].time > sel[l].time)
  BY <1>1, <1>3, <1>4, <1>6, <1>9
<1>11. WeakOrder(less, I)
  <2>. SUFFICES ASSUME NEW i \in I, NEW j \in I, NEW k \in I
                PROVE  /\ << i, i >> \notin less
                       /\ << i, j >> \in less /\ << j, k >> \in less
                            => << i, k >> \in less
                       /\ << i, j >> \in less
                            => << i, k >> \in less \/ << k, j >> \in less
    BY DEF WeakOrder
  <2>1. /\ g[i] \in Nat /\ g[j] \in Nat /\ g[k] \in Nat
        /\ sel[i].time \in Int /\ sel[j].time \in Int /\ sel[k].time \in Int
    BY <1>10
  <2>2. << i, i >> \notin less
    BY <1>10, <2>1
  <2>3. << i, j >> \in less /\ << j, k >> \in less => << i, k >> \in less
    BY <1>10, <2>1
  <2>4. << i, j >> \in less => << i, k >> \in less \/ << k, j >> \in less
    BY <1>10, <2>1
  <2>. QED
    BY <2>2, <2>3, <2>4
<1>12. PICK m : m = Cardinality(I)
  OBVIOUS
<1>13. PICK q : m \in Nat /\ Arranged(events, sel, I, less, m, q)
  BY <1>7, <1>8, <1>11, <1>12, SortExact
<1>14. /\ DOMAIN events = 1 .. m
       /\ \A k \in 1 .. m : q[k] \in I /\ events[k] = sel[q[k]]
       /\ \A i \in I : \E k \in 1 .. m : q[k] = i
  BY <1>13 DEF Arranged
<1>15. Len(events) = m
  <2>1. \A k \in 1 .. m : events[k] \in RowType
    BY <1>1, <1>10, <1>14
  <2>2. events \in [1 .. m -> RowType]
    BY <1>13, <1>14, <2>1 DEF Arranged
  <2>3. events \in Seq(RowType)
    BY <1>13, <2>2, SeqDef
  <2>. QED
    BY <1>13, <1>14, <2>3, LenProperties
<1>16. {events[k].hash : k \in DOMAIN events} = risky
  <2>1. \A k \in 1 .. m : events[k].hash \in risky
    BY <1>1, <1>4, <1>10, <1>14
  <2>2. ASSUME NEW i \in risky PROVE \E k \in 1 .. m : events[k].hash = i
    <3>1. PICK l \in 1 .. n : p[l] = i /\ l \in I
      BY <1>2, <1>4
    <3>2. PICK k \in 1 .. m : q[k] = l
      BY <1>14, <3>1
    <3>. QED
      BY <1>1, <1>14, <3>1, <3>2
  <2>. QED
    BY <1>14, <2>1, <2>2
<1>17. ASSUME NEW k \in 2 .. m
       PROVE  \/ Gravity(events[k - 1], req) > Gravity(events[k], req)
              \/ /\ Gravity(events[k - 1], req) = Gravity(events[k], req)
                 /\ events[k - 1].time >= events[k].time
  <2>1. k - 1 \in 1 .. m /\ k \in 1 .. m /\ k - 1 < k
    BY <1>13
  <2>2. << q[k], q[k - 1] >> \notin less
    BY <1>13, <2>1 DEF Arranged
  <2>3. PICK a \in I, b \in I : a = q[k - 1] /\ b = q[k]
    BY <1>14, <2>1
  <2>4. ~(g[b] > g[a]) /\ ~(g[b] = g[a] /\ sel[b].time > sel[a].time)
    BY <1>10, <2>2, <2>3
  <2>5. g[a] \in Nat /\ g[b] \in Nat /\ sel[a].time \in Int /\ sel[b].time \in Int
    BY <1>10
  <2>6. g[a] > g[b] \/ (g[a] = g[b] /\ sel[a].time >= sel[b].time)
    BY <2>4, <2>5
  <2>7. events[k - 1] = sel[a] /\ events[k] = sel[b]
    BY <1>14, <2>1, <2>3
  <2>8. Gravity(sel[a], req) = g[a] /\ Gravity(sel[b], req) = g[b]
    BY <1>3, <1>9
  <2>. QED
    BY <2>6, <2>7, <2>8
<1>18. Arranged(events, sel, I, {}, m, q)
  BY <1>13 DEF Arranged
<1>19. Cardinality(risky) = m /\ m \in Nat
  BY <1>8, <1>12, <1>13
<1>20. \A k \in 2 .. Len(events) :
         LET e == events[k - 1] f == events[k] IN
         \/ Gravity(e, req) > Gravity(f, req)
         \/ Gravity(e, req) = Gravity(f, req) /\ e.time >= f.time
  BY <1>15, <1>17
<1>21. /\ Cardinality(risky) \in Nat
       /\ DOMAIN events = 1 .. Cardinality(risky)
       /\ Len(events) = Cardinality(risky)
       /\ Arranged(events, sel, I, {}, Cardinality(risky), q)
  BY <1>14, <1>15, <1>18, <1>19
<1>. QED
  BY <1>4, <1>16, <1>20, <1>21 DEF RiskList

\* r is a report about the n rows sel.
ReportAbout(r, req, sel, policy, n, p) ==
  /\ SelectedAs(sel, req, n, p)
  /\ policy = MergeRiskPolicy(req.policy)
  /\ RequestError(req) = "none"
  /\ r.summary = Summarize(sel)
  /\ r.timeline = BuildTimeline(sel, RiskEvents(sel, policy),
                                NormalizeRequest(req))
  /\ r.ranks = [dim \in Dimensions |-> RankEntries(sel, dim, TopLimit(req))]
  /\ r.events = RiskEvents(sel, policy)
  /\ r.by_level = ByLevel(sel, policy)
  /\ r.score = RiskScore(ByLevel(sel, policy), Len(sel))

\* A report that is given is about the rows that its request asks for.
LEMMA ReportFrom ==
  ASSUME RowsInv, NEW req \in Requests, NEW r, r = Generate(entries, req),
         r.err = "none"
  PROVE  \E sel, policy, n, p : ReportAbout(r, req, sel, policy, n, p)
<1>1. PICK sel : sel = Selected(entries, NormalizeRequest(req))
  OBVIOUS
<1>2. PICK n, p : SelectedAs(sel, req, n, p)
  BY <1>1, SelectedExact
<1>3. PICK policy : policy = MergeRiskPolicy(NormalizeRequest(req).policy)
  OBVIOUS
<1>4. policy = MergeRiskPolicy(req.policy) /\ NormalizeRequest(req).top = TopLimit(req)
  BY <1>3, RequestShape
<1>5. /\ RequestError(req) = "none"
      /\ r.summary = Summarize(sel)
      /\ r.timeline = BuildTimeline(sel, RiskEvents(sel, policy),
                                    NormalizeRequest(req))
      /\ r.ranks = [dim \in Dimensions |->
                      RankEntries(sel, dim, NormalizeRequest(req).top)]
      /\ r.events = RiskEvents(sel, policy)
      /\ r.by_level = ByLevel(sel, policy)
      /\ r.score = RiskScore(ByLevel(sel, policy), Len(sel))
  BY <1>1, <1>3, ReportParts
<1>. QED
  BY <1>2, <1>4, <1>5 DEF ReportAbout

\* The rows of one weight are counted under its level.
LEMMA LevelsExact ==
  ASSUME NEW req, NEW sel, NEW n, NEW p, SelectedAs(sel, req, n, p),
         NEW policy, policy = MergeRiskPolicy(req.policy),
         NEW level \in {"critical", "high", "medium"},
         NEW J, J = {i \in Asked(req) : Gravity(entries[i], req) = Weight[level]}
  PROVE  /\ IsFiniteSet(J)
         /\ ByLevel(sel, policy)[level] = Cardinality(J)
<1>1. DOMAIN sel = 1 .. n
  BY DEF SelectedAs
<1>2. \A k \in 1 .. n : p[k] \in Asked(req) /\ sel[k] = entries[p[k]]
  BY SelectedFrom
<1>3. ByLevel(sel, policy)[level]
        = Cardinality({k \in 1 .. n : Level(ClassifyRisk(sel[k], policy)) = level})
  <2>1. level # "low" /\ level \in DOMAIN Weight
    BY DEF Weight
  <2>2. {k \in DOMAIN sel : /\ level # "low"
                            /\ Level(ClassifyRisk(sel[k], policy)) = level}
          = {k \in 1 .. n : Level(ClassifyRisk(sel[k], policy)) = level}
    BY <1>1, <2>1
  <2>. QED
    BY <2>1, <2>2 DEF ByLevel
<1>4. {k \in 1 .. n : Level(ClassifyRisk(sel[k], policy)) = level}
        = {k \in 1 .. n : p[k] \in J}
  <2>1. \A k \in 1 .. n : Level(ClassifyRisk(entries[p[k]], policy)) = level
                            <=> Gravity(entries[p[k]], req) = Weight[level]
    BY GravityExact
  <2>. QED
    BY <1>2, <2>1
<1>5. J \in SUBSET Asked(req)
  OBVIOUS
<1>6. IsFiniteSet(J) /\ Cardinality({k \in 1 .. n : p[k] \in J}) = Cardinality(J)
  BY <1>5, CountSelected
<1>. QED
  BY <1>3, <1>4, <1>6

\* The score is 100 exactly if there are rows and all of them are critical.
LEMMA AllCritical ==
  ASSUME NEW req, NEW sel, NEW n, NEW p, SelectedAs(sel, req, n, p),
         NEW policy, policy = MergeRiskPolicy(req.policy)
  PROVE  RiskScore(ByLevel(sel, policy), Len(sel)) = 100
           <=> /\ Asked(req) # {}
               /\ \A i \in Asked(req) : Gravity(entries[i], req) = 8
<1>1. PICK A : A = Asked(req)
  OBVIOUS
<1>2. n \in Nat /\ n = Cardinality(A) /\ Len(sel) = n /\ IsFiniteSet(A)
  <2>1. A \in SUBSET Asked(req)
    BY <1>1
  <2>. QED
    BY <1>1, <2>1, CountSelected DEF SelectedAs
<1>3. PICK C, H, M :
        /\ C = {i \in Asked(req) : Gravity(entries[i], req) = Weight["critical"]}
        /\ H = {i \in Asked(req) : Gravity(entries[i], req) = Weight["high"]}
        /\ M = {i \in Asked(req) : Gravity(entries[i], req) = Weight["medium"]}
  OBVIOUS
<1>4. PICK levels : levels = ByLevel(sel, policy)
  OBVIOUS
<1>5. /\ levels["critical"] = Cardinality(C)
      /\ levels["high"] = Cardinality(H)
      /\ levels["medium"] = Cardinality(M)
  BY <1>3, <1>4, LevelsExact
<1>6. Weight["critical"] = 8 /\ Weight["high"] = 4 /\ Weight["medium"] = 2
  BY DEF Weight
<1>7. /\ C \in SUBSET A /\ H \in SUBSET A /\ M \in SUBSET A
      /\ C \cap H = {} /\ C \cap M = {} /\ H \cap M = {}
  BY <1>1, <1>3, <1>6
<1>8. /\ Cardinality(C) \in Nat /\ Cardinality(H) \in Nat /\ Cardinality(M) \in Nat
      /\ Cardinality(C) + Cardinality(H) + Cardinality(M) =< n
  BY <1>2, <1>7, ThreeParts
<1>9. levels["low"] = 0
  <2>1. levels["low"] = Cardinality({})
    BY <1>4 DEF ByLevel, Weight
  <2>. QED
    BY <2>1, FS_EmptySet
<1>10. levels \in [critical : Nat, high : Nat, medium : Nat, low : {0}]
  <2>1. levels = [level \in {"critical", "high", "medium", "low"} |-> levels[level]]
    BY <1>4 DEF ByLevel, Weight
  <2>. QED
    BY <1>5, <1>8, <1>9, <2>1
<1>11. levels.critical + levels.high + levels.medium =< n
  BY <1>5, <1>8
<1>12. RiskScore(levels, n) = 100 <=> n > 0 /\ levels.critical = n
  BY <1>2, <1>10, <1>11, ScoreExact
<1>13. n > 0 <=> A # {}
  BY <1>2, FS_EmptySet
<1>14. Cardinality(C) = n <=> C = A
  BY <1>2, <1>7, FS_Subset
<1>15. C = A <=> \A i \in Asked(req) : Gravity(entries[i], req) = 8
  BY <1>1, <1>3, <1>6
<1>. QED
  BY <1>1, <1>2, <1>4, <1>5, <1>12, <1>13, <1>14, <1>15

\* What RisksExact says of one report.
RisksOf(r, req) ==
  LET risky == {i \in Asked(req) : Gravity(entries[i], req) > 0} IN
  /\ {r.events[k].hash : k \in DOMAIN r.events} = risky
  /\ Len(r.events) = Cardinality(risky)
  /\ \A k \in 2 .. Len(r.events) :
       LET e == r.events[k - 1] f == r.events[k] IN
       \/ Gravity(e, req) > Gravity(f, req)
       \/ Gravity(e, req) = Gravity(f, req) /\ e.time >= f.time
  /\ \A level \in {"critical", "high", "medium"} :
       r.by_level[level] =
         Cardinality({i \in risky : Gravity(entries[i], req) = Weight[level]})
  /\ r.score = 100 <=> /\ Asked(req) # {}
                       /\ \A i \in Asked(req) : Gravity(entries[i], req) = 8

\* The risk list holds every row that is on some list of the policy, the
\* gravest first and the newest first among equals, counted under the level
\* of the gravest.  The score is 100 only if all rows are critical.
THEOREM RisksCorrect == Spec => []RisksExact
<1>1. ASSUME RowsInv, NEW req \in Requests, NEW r, r = Generate(entries, req),
             r.err = "none"
      PROVE  RisksOf(r, req)
  <2>0. PICK risky : risky = {i \in Asked(req) : Gravity(entries[i], req) > 0}
    OBVIOUS
  <2>1. PICK sel, policy, n, p : ReportAbout(r, req, sel, policy, n, p)
    BY <1>1, ReportFrom
  <2>2. /\ SelectedAs(sel, req, n, p)
        /\ policy = MergeRiskPolicy(req.policy)
        /\ r.by_level = ByLevel(sel, policy)
        /\ r.score = RiskScore(ByLevel(sel, policy), Len(sel))
    BY <2>1 DEF ReportAbout
  <2>3. PICK events : events = RiskEvents(sel, policy) /\ events = r.events
    BY <2>1 DEF ReportAbout
  <2>4. RiskList(events, req, risky, sel, n, p)
    BY <1>1, <2>0, <2>2, <2>3, EventsExact
  <2>5. /\ {events[k].hash : k \in DOMAIN events} = risky
        /\ Len(events) = Cardinality(risky)
        /\ \A k \in 2 .. Len(events) :
             LET e == events[k - 1] f == events[k] IN
             \/ Gravity(e, req) > Gravity(f, req)
             \/ Gravity(e, req) = Gravity(f, req) /\ e.time >= f.time
    BY <2>4 DEF RiskList
  <2>6. ASSUME NEW level \in {"critical", "high", "medium"}
        PROVE  r.by_level[level] =
                 Cardinality({i \in risky : Gravity(entries[i], req) = Weight[level]})
    <3>1. PICK J : J = {i \in Asked(req) : Gravity(entries[i], req) = Weight[level]}
      OBVIOUS
    <3>2. Weight[level] \in {2, 4, 8}
      BY DEF Weight
    <3>3. J = {i \in risky : Gravity(entries[i], req) = Weight[level]}
      BY <2>0, <3>1, <3>2
    <3>4. ByLevel(sel, policy)[level] = Cardinality(J)
      BY <2>2, <3>1, LevelsExact
    <3>. QED
      BY <2>2, <3>3, <3>4
  <2>7. r.score = 100 <=> /\ Asked(req) # {}
                          /\ \A i \in Asked(req) : Gravity(entries[i], req) = 8
    BY <2>2, AllCritical
  <2>8. /\ {r.events[k].hash : k \in DOMAIN r.events} = risky
        /\ Len(r.events) = Cardinality(risky)
        /\ \A k \in 2 .. Len(r.events) :
             LET e == r.events[k - 1] f == r.events[k] IN
             \/ Gravity(e, req) > Gravity(f, req)
             \/ Gravity(e, req) = Gravity(f, req) /\ e.time >= f.time
    BY <2>3, <2>5
  <2>. QED
    BY <2>0, <2>6, <2>7, <2>8 DEF RisksOf
<1>2. RowsInv => RisksExact
  <2>. SUFFICES ASSUME RowsInv, NEW req \in Requests,
                       Generate(entries, req).err = "none"
                PROVE  RisksOf(Generate(entries, req), req)
    BY Zenon DEF RisksExact, RisksOf
  <2>. QED
    BY <1>1
<1>. QED
  BY <1>2, RowsInvariance, PTL

-----------------------------------------------------------------------------
(* Rankings                                                                *)

\* Some index of a set of indices of a list is the smallest, one the largest.
LEMMA Extremes ==
  ASSUME NEW n \in Nat, NEW B \in SUBSET (1 .. n), B # {}
  PROVE  /\ \E i \in B : \A j \in B : i =< j
         /\ \E i \in B : \A j \in B : j =< i
<1>1. PICK R : R = OpToRel(<, Nat)
  OBVIOUS
<1>2. IsWellFoundedOn(R, Nat)
  BY <1>1, NatLessThanWellFounded
<1>3. ASSUME NEW C \in SUBSET Nat, C # {}
      PROVE  \E i \in C : \A j \in C : i =< j
  <2>1. PICK i \in C : \A j \in C : ~(<< j, i >> \in R)
    BY <1>2, <1>3, WFMin
  <2>2. \A j \in C : ~(j < i)
    BY <1>1, <2>1 DEF OpToRel
  <2>. QED
    BY <2>2
<1>4. \E i \in B : \A j \in B : i =< j
  <2>1. B \in SUBSET Nat
    OBVIOUS
  <2>. QED
    BY <1>3, <2>1
<1>5. PICK C : C = {n - i : i \in B}
  OBVIOUS
<1>6. C \in SUBSET Nat /\ C # {}
  <2>1. \A i \in B : n - i \in Nat
    OBVIOUS
  <2>. QED
    BY <1>5, <2>1
<1>7. PICK c \in C : \A j \in C : c =< j
  BY <1>3, <1>6
<1>8. PICK i \in B : c = n - i
  BY <1>5, <1>7
<1>9. ASSUME NEW j \in B PROVE j =< i
  <2>1. n - i =< n - j
    BY <1>5, <1>7, <1>8
  <2>2. i \in Nat /\ j \in Nat
    OBVIOUS
  <2>. QED
    BY <2>1, <2>2
<1>. QED
  BY <1>4, <1>9

\* What a ranking says of one name, of rows in the order of their times.
LEMMA RankExact ==
  ASSUME NEW req, NEW sel, NEW n, NEW p, SelectedAs(sel, req, n, p),
         NEW dim, NEW name, NEW hits,
         hits = {i \in Asked(req) : entries[i][dim] = name}, hits # {}
  PROVE  /\ Rank(sel, dim, name).name = name
         /\ IsFiniteSet(hits)
         /\ Rank(sel, dim, name).count = Cardinality(hits)
         /\ \A i \in hits : /\ Rank(sel, dim, name).first =< entries[i].time
                            /\ entries[i].time =< Rank(sel, dim, name).last
<1>1. /\ n \in Nat /\ DOMAIN sel = 1 .. n
      /\ \A k, l \in 1 .. n : k =< l => sel[k].time =< sel[l].time
  BY DEF SelectedAs
<1>2. /\ \A k \in 1 .. n : p[k] \in Asked(req) /\ sel[k] = entries[p[k]]
      /\ \A i \in Asked(req) : \E k \in 1 .. n : p[k] = i
  BY SelectedFrom
<1>3. PICK K : K = {k \in 1 .. n : p[k] \in hits}
  OBVIOUS
<1>4. K = {i \in DOMAIN sel : sel[i][dim] = name}
  BY <1>1, <1>2, <1>3
<1>5. IsFiniteSet(hits) /\ Cardinality(K) = Cardinality(hits)
  <2>1. hits \in SUBSET Asked(req)
    OBVIOUS
  <2>. QED
    BY <1>3, <2>1, CountSelected
<1>6. K \in SUBSET (1 .. n) /\ K # {}
  BY <1>2, <1>3
<1>7. PICK a, b : /\ a = CHOOSE i \in K : \A j \in K : sel[i].time =< sel[j].time
                  /\ b = CHOOSE i \in K : \A j \in K : sel[j].time =< sel[i].time
  OBVIOUS
<1>8. a \in K /\ \A j \in K : sel[a].time =< sel[j].time
  <2>1. PICK i \in K : \A j \in K : i =< j
    BY <1>1, <1>6, Extremes
  <2>2. \A j \in K : sel[i].time =< sel[j].time
    BY <1>1, <1>6, <2>1
  <2>. QED
    BY <1>7, <2>2
<1>9. b \in K /\ \A j \in K : sel[j].time =< sel[b].time
  <2>1. PICK i \in K : \A j \in K : j =< i
    BY <1>1, <1>6, Extremes
  <2>2. \A j \in K : sel[j].time =< sel[i].time
    BY <1>1, <1>6, <2>1
  <2>. QED
    BY <1>7, <2>2
<1>10. /\ Rank(sel, dim, name).name = name
       /\ Rank(sel, dim, name).count = Cardinality(K)
       /\ Rank(sel, dim, name).first = sel[a].time
       /\ Rank(sel, dim, name).last = sel[b].time
  BY <1>4, <1>7 DEF Rank
<1>11. ASSUME NEW i \in hits
       PROVE  sel[a].time =< entries[i].time /\ entries[i].time =< sel[b].time
  <2>1. PICK k \in 1 .. n : p[k] = i /\ k \in K /\ sel[k] = entries[i]
    BY <1>2, <1>3
  <2>. QED
    BY <1>8, <1>9, <2>1
<1>. QED
  BY <1>5, <1>10, <1>11

\* What RankingExact says of the ranking of one dimension.
RankingOf(ranks, req, dim) ==
  LET Hits(n) == {i \in Asked(req) : entries[i][dim] = n}
      Listed  == {ranks[k].name : k \in DOMAIN ranks}
      names   == {entries[i][dim] : i \in Asked(req)}
  IN  /\ Cardinality(Listed) = Len(ranks) /\ Listed \subseteq names
      /\ \A k \in DOMAIN ranks :
           /\ ranks[k].count = Cardinality(Hits(ranks[k].name))
           /\ \A i \in Hits(ranks[k].name) :
                ranks[k].first =< entries[i].time /\ entries[i].time =< ranks[k].last
           /\ \A n \in names \ Listed : Cardinality(Hits(n)) =< ranks[k].count
      /\ names # Listed => Len(ranks) = TopLimit(req)

\* The names of a dimension are those of the rows asked for.
LEMMA NamesExact ==
  ASSUME RowsInv, NEW req, NEW sel, NEW n, NEW p, SelectedAs(sel, req, n, p),
         NEW dim \in Dimensions
  PROVE  /\ Names(sel, dim) = {entries[i][dim] : i \in Asked(req)}
         /\ Names(sel, dim) \in SUBSET Int
         /\ IsFiniteSet(Names(sel, dim))
<1>1. n \in Nat /\ DOMAIN sel = 1 .. n /\ \A k \in 1 .. n : sel[k] \in RowType
  BY DEF SelectedAs
<1>2. /\ \A k \in 1 .. n : p[k] \in Asked(req) /\ sel[k] = entries[p[k]]
      /\ \A i \in Asked(req) : \E k \in 1 .. n : p[k] = i
  BY SelectedFrom
<1>3. Names(sel, dim) = {sel[k][dim] : k \in 1 .. n}
  BY <1>1 DEF Names
<1>4. {sel[k][dim] : k \in 1 .. n} = {entries[i][dim] : i \in Asked(req)}
  BY <1>2
<1>5. \A k \in 1 .. n : sel[k][dim] \in Int
  <2>1. Strings \in SUBSET Int
    BY ReportAssumption
  <2>2. \A k \in 1 .. n : /\ sel[k].actor \in Strings
                          /\ sel[k].action \in Strings
                          /\ sel[k].target \in Strings
    BY <1>1 DEF RowType
  <2>. QED
    BY <2>1, <2>2 DEF Dimensions
<1>6. IsFiniteSet({sel[k][dim] : k \in 1 .. n})
  <2>1. IsFiniteSet(1 .. n)
    BY <1>1, FS_Interval
  <2>2. PICK f : f = [k \in 1 .. n |-> sel[k][dim]]
    OBVIOUS
  <2>3. f \in Surjection(1 .. n, {sel[k][dim] : k \in 1 .. n})
    BY <2>2 DEF Surjection
  <2>. QED
    BY <2>1, <2>3, FS_Surjection
<1>. QED
  BY <1>3, <1>4, <1>5, <1>6

\* A ranking lists the most active names, and counts their rows exactly.
LEMMA RankingListed ==
  ASSUME RowsInv, NEW req \in Requests, NEW sel, NEW n, NEW p,
         SelectedAs(sel, req, n, p), NEW dim \in Dimensions,
         NEW ranks, ranks = RankEntries(sel, dim, TopLimit(req))
  PROVE  RankingOf(ranks, req, dim)
<1>1. PICK names : names = Names(sel, dim)
  OBVIOUS
<1>2. /\ names = {entries[i][dim] : i \in Asked(req)}
      /\ names \in SUBSET Int /\ IsFiniteSet(names)
  BY <1>1, NamesExact
<1>3. PICK g : g = [x \in names |-> Rank(sel, dim, x)]
  OBVIOUS
<1>4. PICK count : count = [x \in names |->
                      Cardinality({i \in Asked(req) : entries[i][dim] = x})]
  OBVIOUS
<1>5. ASSUME NEW x \in names
      PROVE  /\ g[x].name = x /\ g[x].count = count[x] /\ count[x] \in Nat
             /\ \A i \in Asked(req) : entries[i][dim] = x =>
                  g[x].first =< entries[i].time /\ entries[i].time =< g[x].last
  <2>1. PICK hits : hits = {i \in Asked(req) : entries[i][dim] = x}
    OBVIOUS
  <2>2. hits # {}
    BY <1>2, <2>1
  <2>3. /\ Rank(sel, dim, x).name = x
        /\ IsFiniteSet(hits)
        /\ Rank(sel, dim, x).count = Cardinality(hits)
        /\ \A i \in hits : /\ Rank(sel, dim, x).first =< entries[i].time
                           /\ entries[i].time =< Rank(sel, dim, x).last
    BY <2>1, <2>2, RankExact
  <2>4. count[x] = Cardinality(hits) /\ Cardinality(hits) \in Nat
    BY <1>4, <2>1, <2>3, FS_CardinalityType
  <2>. QED
    BY <1>3, <2>1, <2>3, <2>4
<1>6. PICK less : less = {q \in names \X names :
        \/ g[q[1]].count > g[q[2]].count
        \/ g[q[1]].count = g[q[2]].count /\ g[q[1]].name < g[q[2]].name}
  OBVIOUS
<1>7. \A x, y \in names : << x, y >> \in less <=>
         count[x] > count[y] \/ (count[x] = count[y] /\ x < y)
  BY <1>5, <1>6
<1>8. WeakOrder(less, names)
  <2>. SUFFICES ASSUME NEW i \in names, NEW j \in names, NEW k \in names
                PROVE  /\ << i, i >> \notin less
                       /\ << i, j >> \in less /\ << j, k >> \in less
                            => << i, k >> \in less
                       /\ << i, j >> \in less
                            => << i, k >> \in less \/ << k, j >> \in less
    BY DEF WeakOrder
  <2>1. /\ count[i] \in Nat /\ count[j] \in Nat /\ count[k] \in Nat
        /\ i \in Int /\ j \in Int /\ k \in Int
    BY <1>2, <1>5
  <2>2. << i, i >> \notin less
    BY <1>7, <2>1
  <2>3. << i, j >> \in less /\ << j, k >> \in less => << i, k >> \in less
    BY <1>7, <2>1
  <2>4. << i, j >> \in less => << i, k >> \in less \/ << k, j >> \in less
    BY <1>7, <2>1
  <2>. QED
    BY <2>2, <2>3, <2>4
<1>9. PICK m : m = Cardinality(names)
  OBVIOUS
<1>10. PICK list : list = StableSort(g, names, less)
  OBVIOUS
<1>11. PICK q : m \in Nat /\ Arranged(list, g, names, less, m, q)
  BY <1>2, <1>8, <1>9, <1>10, SortExact
<1>12. /\ m \in Nat
       /\ \A k \in 1 .. m : q[k] \in names /\ list[k] = g[q[k]]
       /\ \A x \in names : \E k \in 1 .. m : q[k] = x
       /\ \A k, l \in 1 .. m : k < l => /\ q[k] # q[l]
                                        /\ << q[l], q[k] >> \notin less
  BY <1>11 DEF Arranged
<1>13. PICK limit, z : limit = TopLimit(req) /\ z = Shorter(m, limit)
  OBVIOUS
<1>14. /\ limit \in Nat /\ z \in 0 .. m
       /\ z # m => z = limit
  <2>1. limit \in Nat
    <3>1. req.top \in Int
      BY RequestShape
    <3>2. DefaultTop \in Nat /\ MaxTop \in Nat
      BY ReportAssumption
    <3>. QED
      BY <1>13, <3>1, <3>2 DEF TopLimit
  <2>. QED
    BY <1>12, <1>13, <2>1 DEF Shorter
<1>15. ranks = [k \in 1 .. z |-> list[k]]
  BY <1>1, <1>3, <1>6, <1>9, <1>10, <1>13 DEF RankEntries
<1>16. DOMAIN ranks = 1 .. z /\ Len(ranks) = z
  <2>1. PICK T : T = {ranks[k] : k \in 1 .. z}
    OBVIOUS
  <2>2. ranks \in [1 .. z -> T] /\ z \in Nat /\ DOMAIN ranks = 1 .. z
    BY <1>14, <1>15, <2>1
  <2>3. ranks \in Seq(T)
    BY <2>2, SeqDef
  <2>. QED
    BY <2>2, <2>3, LenProperties
<1>17. \A k \in 1 .. z : /\ k \in 1 .. m /\ q[k] \in names /\ ranks[k] = g[q[k]]
                         /\ ranks[k].name = q[k]
                         /\ ranks[k].count = count[q[k]]
  <2>1. \A k \in 1 .. z : k \in 1 .. m
    BY <1>12, <1>14
  <2>. QED
    BY <1>5, <1>12, <1>15, <2>1
<1>18. PICK listed : listed = {ranks[k].name : k \in DOMAIN ranks}
  OBVIOUS
<1>19. listed \in SUBSET names
  BY <1>16, <1>17, <1>18
<1>20. Cardinality(listed) = z
  <2>1. PICK K : K = {k \in 1 .. m : q[k] \in listed}
    OBVIOUS
  <2>2. Cardinality(K) = Cardinality(listed)
    BY <1>11, <1>19, <2>1, CountArranged
  <2>3. K = 1 .. z
    <3>1. \A k \in 1 .. z : k \in K
      BY <1>16, <1>17, <1>18, <2>1
    <3>2. ASSUME NEW k \in K PROVE k \in 1 .. z
      <4>1. PICK l \in 1 .. z : q[k] = q[l]
        BY <1>16, <1>17, <1>18, <2>1
      <4>2. l \in 1 .. m /\ k \in 1 .. m
        BY <1>17, <2>1
      <4>3. k = l
        <5>1. ~(k < l) /\ ~(l < k)
          BY <1>12, <4>1, <4>2
        <5>. QED
          BY <4>2, <5>1
      <4>. QED
        BY <4>3
    <3>. QED
      BY <3>1, <3>2
  <2>4. Cardinality(1 .. z) = z
    <3>1. z \in Nat /\ z \in Int /\ 1 \in Int
      BY <1>14
    <3>. QED
      BY <3>1, FS_Interval
  <2>. QED
    BY <2>2, <2>3, <2>4
<1>21. ASSUME NEW k \in 1 .. z, NEW x \in names \ listed
       PROVE  count[x] =< ranks[k].count
  <2>1. PICK l \in 1 .. m : q[l] = x
    BY <1>12
  <2>2. l \notin 1 .. z
    BY <1>16, <1>17, <1>18, <2>1
  <2>3. k < l /\ k \in 1 .. m
    BY <1>14, <1>17, <2>2
  <2>4. << x, q[k] >> \notin less
    BY <1>12, <2>1, <2>3
  <2>5. PICK y \in names : y = q[k]
    BY <1>17
  <2>6. ~(count[x] > count[y])
    BY <1>7, <2>4, <2>5
  <2>7. count[x] \in Nat /\ count[y] \in Nat
    BY <1>5
  <2>. QED
    BY <1>17, <2>5, <2>6, <2>7
<1>22. names # listed => z = limit
  <2>1. ASSUME z = m PROVE names = listed
    BY <1>12, <1>16, <1>17, <1>18, <1>19, <2>1
  <2>. QED
    BY <1>14, <2>1
<1>23. ASSUME NEW k \in 1 .. z
       PROVE  /\ ranks[k].count
                   = Cardinality({i \in Asked(req) : entries[i][dim] = ranks[k].name})
              /\ \A i \in {j \in Asked(req) : entries[j][dim] = ranks[k].name} :
                   /\ ranks[k].first =< entries[i].time
                   /\ entries[i].time =< ranks[k].last
              /\ \A x \in names \ listed :
                   Cardinality({i \in Asked(req) : entries[i][dim] = x})
                     =< ranks[k].count
  <2>1. PICK y \in names : y = q[k] /\ ranks[k] = g[y] /\ ranks[k].name = y
    BY <1>17
  <2>2. \A x \in names :
          count[x] = Cardinality({i \in Asked(req) : entries[i][dim] = x})
    BY <1>4
  <2>3. ranks[k].count = count[y]
    BY <1>5, <2>1
  <2>4. \A i \in Asked(req) : entries[i][dim] = y =>
          ranks[k].first =< entries[i].time /\ entries[i].time =< ranks[k].last
    BY <1>5, <2>1
  <2>5. \A x \in names \ listed : count[x] =< ranks[k].count
    BY <1>21
  <2>. QED
    BY <2>1, <2>2, <2>3, <2>4, <2>5
<1>. QED
  BY <1>2, <1>13, <1>16, <1>18, <1>19, <1>20, <1>22, <1>23 DEF RankingOf

\* The rankings of actors, actions and targets list the most active names:
\* counts and times are exact, no name that was cut off has more rows than a
\* listed one, and nothing is cut off before the limit is reached.
THEOREM RankingCorrect == Spec => []RankingExact
<1>1. ASSUME RowsInv, NEW req \in Requests, NEW r, r = Generate(entries, req),
             r.err = "none", NEW dim \in Dimensions
      PROVE  /\ RankingOf(r.ranks[dim], req, dim)
             /\ r.summary.unique[dim]
                  = Cardinality({entries[i][dim] : i \in Asked(req)})
  <2>1. PICK sel, policy, n, p : ReportAbout(r, req, sel, policy, n, p)
    BY <1>1, ReportFrom
  <2>2. /\ SelectedAs(sel, req, n, p)
        /\ r.summary = Summarize(sel)
        /\ r.ranks = [d \in Dimensions |-> RankEntries(sel, d, TopLimit(req))]
    BY <2>1 DEF ReportAbout
  <2>3. r.ranks[dim] = RankEntries(sel, dim, TopLimit(req))
    BY <2>2
  <2>4. RankingOf(r.ranks[dim], req, dim)
    BY <1>1, <2>2, <2>3, RankingListed
  <2>5. r.summary.unique[dim] = Cardinality(Names(sel, dim))
    BY <2>2 DEF Summarize
  <2>. QED
    BY <1>1, <2>2, <2>4, <2>5, NamesExact
<1>2. RowsInv => RankingExact
  <2>. SUFFICES ASSUME RowsInv, NEW req \in Requests,
                       Generate(entries, req).err = "none", NEW dim \in Dimensions
                PROVE  /\ RankingOf(Generate(entries, req).ranks[dim], req, dim)
                       /\ Generate(entries, req).summary.unique[dim]
                            = Cardinality({entries[i][dim] : i \in Asked(req)})
    BY Zenon DEF RankingExact, RankingOf
  <2>. QED
    BY <1>1
<1>. QED
  BY <1>2, RowsInvariance, PTL

-----------------------------------------------------------------------------
(* The timeline                                                            *)

\* A quotient is the number of the interval its dividend lies in.
LEMMA DivInterval ==
  ASSUME NEW x \in Int, NEW d \in Nat \ {0}
  PROVE  /\ x \div d \in Int /\ x % d \in 0 .. d - 1
         /\ x = (x \div d) * d + (x % d)
         /\ \A k \in Int : x \div d = k <=> k * d =< x /\ x < k * d + d
<1>1. x \div d \in Int /\ x % d \in 0 .. d - 1 /\ x = (x \div d) * d + (x % d)
  BY SMTT(30)
<1>2. PICK q \in Int, m \in 0 .. d - 1 : q = x \div d /\ x = q * d + m
  BY <1>1
<1>3. ASSUME NEW k \in Int
      PROVE  q = k <=> k * d =< x /\ x < k * d + d
  <2>1. k * d \in Int /\ q * d \in Int
    OBVIOUS
  <2>2. q = k => k * d =< x /\ x < k * d + d
    BY <1>2, <2>1
  <2>3. ASSUME q =< k - 1 PROVE x < k * d
    <3>1. q * d =< (k - 1) * d
      BY <2>3, SMTT(30)
    <3>2. (k - 1) * d = k * d - d
      BY SMTT(30)
    <3>. QED
      BY <1>2, <2>1, <3>1, <3>2
  <2>4. ASSUME q >= k + 1 PROVE x >= k * d + d
    <3>1. q * d >= (k + 1) * d
      BY <2>4, SMTT(30)
    <3>2. (k + 1) * d = k * d + d
      BY SMTT(30)
    <3>. QED
      BY <1>2, <2>1, <3>1, <3>2
  <2>5. q = k \/ q =< k - 1 \/ q >= k + 1
    OBVIOUS
  <2>. QED
    BY <2>1, <2>2, <2>3, <2>4, <2>5
<1>. QED
  BY <1>1, <1>2, <1>3

\* Quotients grow with their dividends.
LEMMA DivMonotone ==
  ASSUME NEW d \in Nat \ {0}, NEW x \in Int, NEW y \in Int, x =< y
  PROVE  x \div d =< y \div d
<1>1. PICK a \in Int, b \in Int : a = x \div d /\ b = y \div d
  BY DivInterval
<1>2. a * d =< x /\ y < b * d + d /\ a * d \in Int /\ b * d \in Int
  BY <1>1, DivInterval
<1>3. ASSUME a >= b + 1 PROVE FALSE
  <2>1. a * d >= (b + 1) * d
    BY <1>3, SMTT(30)
  <2>2. (b + 1) * d = b * d + d
    BY SMTT(30)
  <2>. QED
    BY <1>2, <2>1, <2>2
<1>. QED
  BY <1>1, <1>3

\* Truncate returns the start of an interval.
LEMMA TruncateExact ==
  ASSUME NEW t \in Int, NEW d \in Nat \ {0}
  PROVE  \E a \in Int : /\ Truncate(t, d) = a * d /\ a * d \in Int
                        /\ a * d =< t /\ t < a * d + d
<1>1. PICK a \in Int : a = t \div d
  BY DivInterval
<1>2. a * d \in Int /\ a * d =< t /\ t < a * d + d /\ t = a * d + (t % d)
      /\ t % d \in 0 .. d - 1
  BY <1>1, DivInterval
<1>3. Truncate(t, d) = a * d
  BY <1>2 DEF Truncate
<1>. QED
  BY <1>2, <1>3

\* No row a timeline can tell apart lies after its last bucket.
LEMMA SpanExact ==
  ASSUME NEW d \in Nat \ {0}, NEW a \in Int, NEW b \in Int, NEW t \in Int,
         a * d =< t, t < b * d + d, t - a * d =< MaxDuration,
         NEW c, c = Sub(b * d, a * d) \div d + 1
  PROVE  /\ c \in Int
         /\ (t - a * d) \div d + 1 \in 1 .. c
<1>1. MaxDuration \in Nat
  BY ReportAssumption
<1>2. PICK u \in Int, v \in Int : u = a * d /\ v = b * d
  OBVIOUS
<1>3. PICK x \in Nat : x = t - a * d /\ x =< MaxDuration /\ x < (v - u) + d
  BY <1>1, <1>2
<1>4. PICK D : D = Sub(v, u)
  OBVIOUS
<1>5. D \in Int
  BY <1>1, <1>2, <1>4 DEF Sub
<1>6. PICK q \in Int, e \in Int : q = x \div d /\ e = D \div d
  <2>1. x \in Int
    OBVIOUS
  <2>2. x \div d \in Int /\ D \div d \in Int
    BY <1>5, <2>1, DivInterval
  <2>. QED
    BY <2>2
<1>7. q >= 0
  <2>1. 0 \div d =< x \div d
    BY <1>3, DivMonotone
  <2>2. 0 \div d = 0
    BY SMTT(30)
  <2>. QED
    BY <1>6, <2>1, <2>2
<1>8. PICK w \in Int : w = b - a /\ w * d = v - u /\ w * d \in Int
  BY <1>2, SMTT(30)
<1>9. w >= 0
  <2>1. ASSUME w =< -1 PROVE FALSE
    <3>1. w * d =< (-1) * d
      BY <2>1, SMTT(30)
    <3>. QED
      BY <1>3, <1>8, <3>1
  <2>. QED
    BY <2>1
<1>10. w * d >= 0
  BY <1>9, SMTT(30)
<1>11. q =< e
  <2>1. CASE v - u > MaxDuration
    <3>1. D = MaxDuration
      BY <1>4, <2>1 DEF Sub
    <3>. QED
      BY <1>1, <1>3, <1>6, <3>1, DivMonotone
  <2>2. CASE ~(v - u > MaxDuration)
    <3>1. D = w * d
      BY <1>1, <1>4, <1>8, <1>10, <2>2 DEF Sub
    <3>2. D =< D /\ D < D + d
      BY <1>5
    <3>3. e = w
      BY <1>5, <1>6, <3>1, <3>2, DivInterval
    <3>4. q * d =< x /\ q * d \in Int
      <4>1. x \in Int
        OBVIOUS
      <4>2. q * d =< x
        BY <1>6, <4>1, DivInterval
      <4>. QED
        BY <4>2
    <3>5. ASSUME q >= w + 1 PROVE FALSE
      <4>1. q * d >= (w + 1) * d
        BY <3>5, SMTT(30)
      <4>2. (w + 1) * d = w * d + d
        BY SMTT(30)
      <4>. QED
        BY <1>3, <1>6, <1>8, <3>4, <4>1, <4>2
    <3>. QED
      BY <3>3, <3>5
  <2>. QED
    BY <2>1, <2>2
<1>12. c = e + 1
  BY <1>2, <1>4, <1>6
<1>13. (t - a * d) \div d + 1 = q + 1
  BY <1>3, <1>6
<1>. QED
  BY <1>7, <1>11, <1>12, <1>13

\* A row is counted in the bucket whose interval has its time.
LEMMA SubExact ==
  ASSUME NEW d \in Nat \ {0}, NEW s \in Int, NEW t \in Int, NEW k \in Int,
         0 =< t - s, t - s =< MaxDuration
  PROVE  Sub(t, s) \div d = k - 1 <=> s + (k - 1) * d =< t /\ t < s + k * d
<1>1. PICK x \in Int : x = t - s /\ x >= 0
  OBVIOUS
<1>2. Sub(t, s) = x
  <2>1. MaxDuration \in Nat
    BY ReportAssumption
  <2>. QED
    BY <1>1, <2>1 DEF Sub
<1>3. PICK h \in Int : h = k - 1
  OBVIOUS
<1>4. x \div d = h <=> h * d =< x /\ x < h * d + d
  BY DivInterval
<1>5. h * d \in Int /\ k * d \in Int /\ k * d = h * d + d
  BY <1>3, SMTT(30)
<1>6. h * d =< x /\ x < h * d + d <=> s + h * d =< t /\ t < s + k * d
  BY <1>1, <1>5
<1>. QED
  BY <1>2, <1>3, <1>4, <1>6

\* The rows asked for whose times lie in an interval.
Within(req, start, end) ==
  {i \in Asked(req) : start =< entries[i].time /\ entries[i].time < end}

\* Where the rows in the list of risks come from.
LEMMA RisksFrom ==
  ASSUME NEW req, NEW sel, NEW n, NEW p, SelectedAs(sel, req, n, p),
         NEW risky \in SUBSET Asked(req), NEW events,
         RiskList(events, req, risky, sel, n, p)
  PROVE  \E a : Arranged(events, entries, risky, {}, Cardinality(risky), a)
<1>1. /\ \A k \in 1 .. n : p[k] \in Asked(req) /\ sel[k] = entries[p[k]]
      /\ \A i \in Asked(req) : \E k \in 1 .. n : p[k] = i
      /\ \A k, l \in 1 .. n : k # l => p[k] # p[l]
  BY SelectedFrom
<1>2. PICK m : m = Cardinality(risky)
  OBVIOUS
<1>3. PICK I, q : /\ I = {k \in 1 .. n : p[k] \in risky}
                  /\ Arranged(events, sel, I, {}, m, q)
  BY <1>2 DEF RiskList
<1>4. /\ events = [k \in 1 .. m |-> sel[q[k]]]
      /\ \A k \in 1 .. m : q[k] \in I
      /\ \A i \in I : \E k \in 1 .. m : q[k] = i
      /\ \A k, l \in 1 .. m : k < l => q[k] # q[l]
  BY <1>3 DEF Arranged
<1>5. PICK a : a = [k \in 1 .. m |-> p[q[k]]]
  OBVIOUS
<1>6. \A k \in 1 .. m : /\ a[k] \in risky /\ q[k] \in 1 .. n /\ a[k] = p[q[k]]
                        /\ sel[q[k]] = entries[a[k]]
  BY <1>1, <1>3, <1>4, <1>5
<1>7. events = [k \in 1 .. m |-> entries[a[k]]]
  BY <1>4, <1>6
<1>8. \A i \in risky : \E k \in 1 .. m : a[k] = i
  <2>. SUFFICES ASSUME NEW i \in risky PROVE \E k \in 1 .. m : a[k] = i
    OBVIOUS
  <2>1. PICK l \in 1 .. n : p[l] = i
    BY <1>1
  <2>2. PICK k \in 1 .. m : q[k] = l
    BY <1>3, <1>4, <2>1
  <2>. QED
    BY <1>6, <2>1, <2>2
<1>9. \A k, l \in 1 .. m : k < l => a[k] # a[l]
  BY <1>1, <1>4, <1>6
<1>10. Arranged(events, entries, risky, {}, m, a)
  BY <1>6, <1>7, <1>8, <1>9 DEF Arranged
<1>. QED
  BY <1>2, <1>10

\* What is counted in the bucket from lo to hi: rows, risks, rows by action.
BucketExact(req, sel, events, K, L, B) ==
  /\ Cardinality(K) = Cardinality(B)
  /\ Cardinality(L) = Cardinality({i \in B : Gravity(entries[i], req) > 0})
  /\ \A i \in B :
       /\ entries[i].action \in {sel[j].action : j \in K}
       /\ Cardinality({j \in K : sel[j].action = entries[i].action})
            = Cardinality({j \in B : entries[j].action = entries[i].action})

\* A bucket counts exactly the rows, and the risks, of its interval.
LEMMA BucketCounts ==
  ASSUME NEW req, NEW sel, NEW n, NEW p, SelectedAs(sel, req, n, p),
         NEW risky, risky = {i \in Asked(req) : Gravity(entries[i], req) > 0},
         NEW events, RiskList(events, req, risky, sel, n, p),
         NEW d \in Nat \ {0}, NEW s \in Int, NEW h \in Int,
         \A i \in Asked(req) : /\ entries[i].time \in Int
                              /\ 0 =< entries[i].time - s
                              /\ entries[i].time - s =< MaxDuration,
         NEW K, K = {j \in DOMAIN sel : Sub(sel[j].time, s) \div d = h - 1},
         NEW L, L = {j \in DOMAIN events : Sub(events[j].time, s) \div d = h - 1},
         NEW B, B = Within(req, s + (h - 1) * d, s + h * d)
  PROVE  BucketExact(req, sel, events, K, L, B)
<1>1. DOMAIN sel = 1 .. n
  BY DEF SelectedAs
<1>2. /\ \A k \in 1 .. n : p[k] \in Asked(req) /\ sel[k] = entries[p[k]]
      /\ \A i \in Asked(req) : \E k \in 1 .. n : p[k] = i
  BY SelectedFrom
<1>3. ASSUME NEW i \in Asked(req)
      PROVE  Sub(entries[i].time, s) \div d = h - 1 <=> i \in B
  <2>1. Sub(entries[i].time, s) \div d = h - 1
          <=> s + (h - 1) * d =< entries[i].time /\ entries[i].time < s + h * d
    BY SubExact
  <2>. QED
    BY <2>1 DEF Within
<1>4. B \in SUBSET Asked(req)
  BY DEF Within
<1>5. K = {j \in 1 .. n : p[j] \in B}
  BY <1>1, <1>2, <1>3
<1>6. ASSUME NEW J \in SUBSET Asked(req), NEW M, M = {j \in 1 .. n : p[j] \in J}
      PROVE  Cardinality(M) = Cardinality(J)
  BY <1>6, CountSelected
<1>7. Cardinality(K) = Cardinality(B)
  BY <1>4, <1>5, <1>6
<1>8. Cardinality(L) = Cardinality({i \in B : Gravity(entries[i], req) > 0})
  <2>1. risky \in SUBSET Asked(req)
    OBVIOUS
  <2>2. PICK m : m = Cardinality(risky)
    OBVIOUS
  <2>3. PICK a : Arranged(events, entries, risky, {}, m, a)
    BY <2>1, <2>2, RisksFrom
  <2>4. /\ m \in Nat /\ DOMAIN events = 1 .. m
        /\ \A k \in 1 .. m : a[k] \in risky /\ events[k] = entries[a[k]]
    BY <2>2, <2>3 DEF Arranged, RiskList
  <2>5. PICK J : J = {i \in B : Gravity(entries[i], req) > 0}
    OBVIOUS
  <2>6. J \in SUBSET risky
    BY <1>4, <2>5
  <2>7. \A i \in risky : i \in J <=> i \in B
    BY <2>5
  <2>8. L = {k \in 1 .. m : a[k] \in J}
    BY <1>3, <2>1, <2>4, <2>7
  <2>9. Cardinality(L) = Cardinality(J)
    BY <2>3, <2>4, <2>6, <2>8, CountArranged
  <2>. QED
    BY <2>5, <2>9
<1>9. ASSUME NEW i \in B
      PROVE  /\ entries[i].action \in {sel[j].action : j \in K}
             /\ Cardinality({j \in K : sel[j].action = entries[i].action})
                  = Cardinality({j \in B : entries[j].action = entries[i].action})
  <2>1. PICK k \in 1 .. n : p[k] = i
    BY <1>2, <1>4
  <2>2. k \in K /\ sel[k].action = entries[i].action
    BY <1>2, <1>5, <2>1
  <2>3. PICK J : J = {j \in B : entries[j].action = entries[i].action}
    OBVIOUS
  <2>4. J \in SUBSET Asked(req)
    BY <1>4, <2>3
  <2>5. PICK M : M = {j \in K : sel[j].action = entries[i].action}
    OBVIOUS
  <2>6. M = {j \in 1 .. n : p[j] \in J}
    BY <1>2, <1>5, <2>3, <2>5
  <2>7. Cardinality(M) = Cardinality(J)
    BY <1>6, <2>4, <2>6
  <2>. QED
    BY <2>2, <2>3, <2>5, <2>7
<1>. QED
  BY <1>7, <1>8, <1>9 DEF BucketExact

\* A timeline that is not empty starts at or before the first row asked for,
\* and its last bucket ends after the last one.
LEMMA EndsExact ==
  ASSUME RowsInv, NEW req \in Requests, RequestError(req) = "none",
         NEW sel, NEW n, NEW p, SelectedAs(sel, req, n, p), n > 0,
         NEW d, d = Bucket(req)
  PROVE  /\ d \in Nat \ {0}
         /\ \E a, b \in Int :
              /\ TimelineStart(sel, NormalizeRequest(req)) = a * d
              /\ TimelineEnd(sel, NormalizeRequest(req)) = b * d
              /\ a * d \in Int /\ b * d \in Int
              /\ \A i \in Asked(req) : /\ entries[i].time \in Int
                                       /\ a * d =< entries[i].time
                                       /\ entries[i].time < b * d + d
<1>1. /\ n \in Nat /\ Len(sel) = n
      /\ \A k \in 1 .. n : sel[k].time \in Int
      /\ \A k, l \in 1 .. n : k =< l => sel[k].time =< sel[l].time
  BY DEF SelectedAs
<1>2. /\ \A k \in 1 .. n : p[k] \in Asked(req) /\ sel[k] = entries[p[k]]
      /\ \A i \in Asked(req) : \E k \in 1 .. n : p[k] = i
  BY SelectedFrom
<1>3. 1 \in 1 .. n /\ n \in 1 .. n
  BY <1>1
<1>4. d \in Nat \ {0}
  <2>1. d \in Int
    <3>1. req.bucket \in Int /\ DefaultBucket \in Nat
      BY RequestShape, ReportAssumption
    <3>. QED
      BY <3>1 DEF Bucket
  <2>2. ~(d < MinBucket)
    BY DEF RequestError
  <2>3. MinBucket \in Nat \ {0}
    BY ReportAssumption
  <2>. QED
    BY <2>1, <2>2, <2>3
<1>5. PICK base, last :
        /\ base = IF req.from # NoTime THEN req.from ELSE sel[1].time
        /\ last = IF req.to # NoTime THEN req.to ELSE sel[n].time
  OBVIOUS
<1>6. base \in Int /\ last \in Int
  <2>1. /\ req.from \in Int \/ req.from = NoTime
        /\ req.to \in Int \/ req.to = NoTime
    BY RequestShape
  <2>. QED
    BY <1>1, <1>3, <1>5, <2>1
<1>7. ASSUME NEW i \in Asked(req)
      PROVE  entries[i].time \in Int /\ base =< entries[i].time /\ entries[i].time =< last
  <2>1. PICK k \in 1 .. n : p[k] = i /\ sel[k] = entries[i]
    BY <1>2
  <2>2. 1 =< k /\ k =< n
    BY <1>1
  <2>3. /\ sel[1].time =< sel[k].time /\ sel[k].time =< sel[n].time
        /\ sel[k].time \in Int
    BY <1>1, <1>3, <2>2
  <2>4. /\ req.from = NoTime \/ req.from =< entries[i].time
        /\ req.to = NoTime \/ entries[i].time =< req.to
    BY DEF Asked
  <2>. QED
    BY <1>5, <2>1, <2>3, <2>4
<1>8. /\ TimelineStart(sel, NormalizeRequest(req)) = Truncate(base, d)
      /\ TimelineEnd(sel, NormalizeRequest(req)) = Truncate(last, d)
  <2>1. /\ NormalizeRequest(req).from = req.from
        /\ NormalizeRequest(req).to = req.to
        /\ NormalizeRequest(req).bucket = d
    BY RequestShape
  <2>. QED
    BY <1>1, <1>5, <2>1 DEF TimelineStart, TimelineEnd
<1>9. PICK a \in Int : /\ Truncate(base, d) = a * d /\ a * d \in Int
                      /\ a * d =< base
  BY <1>4, <1>6, TruncateExact
<1>10. PICK b \in Int : /\ Truncate(last, d) = b * d /\ b * d \in Int
                       /\ last < b * d + d
  BY <1>4, <1>6, TruncateExact
<1>11. PICK s \in Int, e \in Int : s = a * d /\ e = b * d
  BY <1>9, <1>10
<1>12. ASSUME NEW i \in Asked(req)
       PROVE  s =< entries[i].time /\ entries[i].time < e + d
  <2>1. PICK t \in Int : t = entries[i].time /\ base =< t /\ t =< last
    BY <1>7
  <2>2. s =< base /\ last < e + d
    BY <1>9, <1>10, <1>11
  <2>3. s =< t /\ t < e + d
    BY <1>4, <1>6, <2>1, <2>2
  <2>. QED
    BY <2>1, <2>3
<1>. QED
  BY <1>4, <1>7, <1>8, <1>9, <1>10, <1>11, <1>12

\* What TimelineComplete says of one timeline.
TimelineOf(line, req) ==
  /\ \A i \in Asked(req) : \E k \in DOMAIN line : i \in Within(req, line[k].start, line[k].end)
  /\ \A k \in DOMAIN line :
       /\ line[k].count = Cardinality(Within(req, line[k].start, line[k].end))
       /\ line[k].risks
            = Cardinality({i \in Within(req, line[k].start, line[k].end) :
                             Gravity(entries[i], req) > 0})
       /\ \A i \in Within(req, line[k].start, line[k].end) :
            line[k].actions[entries[i].action]
              = Cardinality({j \in Within(req, line[k].start, line[k].end) :
                               entries[j].action = entries[i].action})
       /\ k > 1 => line[k].start = line[k - 1].end

\* The timeline of a report misses nothing and counts nothing twice.
LEMMA TimelineExact ==
  ASSUME RowsInv, NEW req \in Requests, RequestError(req) = "none",
         NEW sel, NEW n, NEW p, SelectedAs(sel, req, n, p),
         NEW policy, policy = MergeRiskPolicy(req.policy),
         NEW line,
         line = BuildTimeline(sel, RiskEvents(sel, policy), NormalizeRequest(req)),
         \A i \in Asked(req) : entries[i].time - line[1].start =< MaxDuration
  PROVE  TimelineOf(line, req)
<1>1. PICK events : events = RiskEvents(sel, policy)
  OBVIOUS
<1>2. PICK risky : risky = {i \in Asked(req) : Gravity(entries[i], req) > 0}
  OBVIOUS
<1>3. RiskList(events, req, risky, sel, n, p)
  BY <1>1, <1>2, EventsExact
<1>4. PICK d, s, e, m : /\ d = Bucket(req)
                        /\ s = TimelineStart(sel, NormalizeRequest(req))
                        /\ e = TimelineEnd(sel, NormalizeRequest(req))
                        /\ m = BucketCount(sel, NormalizeRequest(req))
  OBVIOUS
<1>5. NormalizeRequest(req).bucket = d
  BY <1>4, RequestShape
<1>6. n \in Nat /\ Len(sel) = n /\ sel \in Seq(RowType)
  BY DEF SelectedAs
<1>7. PICK K, L :
        /\ K = [k \in 1 .. m |-> {j \in DOMAIN sel : Sub(sel[j].time, s) \div d = k - 1}]
        /\ L = [k \in 1 .. m |-> {j \in DOMAIN events : Sub(events[j].time, s) \div d = k - 1}]
  OBVIOUS
<1>8. line = [k \in 1 .. m |->
                [start   |-> s + (k - 1) * d,
                 end     |-> s + k * d,
                 count   |-> Cardinality(K[k]),
                 risks   |-> Cardinality(L[k]),
                 actions |-> [a \in {sel[j].action : j \in K[k]} |->
                                Cardinality({j \in K[k] : sel[j].action = a})]]]
  BY <1>1, <1>4, <1>5, <1>7 DEF BuildTimeline
<1>9. DOMAIN line = 1 .. m
  BY <1>8
<1>10. ASSUME NEW k \in 1 .. m
       PROVE  /\ line[k].start = s + (k - 1) * d
              /\ line[k].end = s + k * d
              /\ line[k].count = Cardinality(K[k])
              /\ line[k].risks = Cardinality(L[k])
              /\ line[k].actions = [a \in {sel[j].action : j \in K[k]} |->
                                      Cardinality({j \in K[k] : sel[j].action = a})]
  <2>1. PICK lo, hi, count, risks, actions :
          /\ lo = s + (k - 1) * d
          /\ hi = s + k * d
          /\ count = Cardinality(K[k])
          /\ risks = Cardinality(L[k])
          /\ actions = [a \in {sel[j].action : j \in K[k]} |->
                          Cardinality({j \in K[k] : sel[j].action = a})]
    OBVIOUS
  <2>2. line[k] = [start |-> lo, end |-> hi, count |-> count, risks |-> risks,
                   actions |-> actions]
    BY <1>8, <2>1, Zenon
  <2>. QED
    BY <2>1, <2>2
<1>11. CASE n = 0
  <2>1. sel = << >>
    BY <1>6, <1>11, EmptySeq
  <2>2. m = 0
    BY <1>4, <2>1 DEF BucketCount
  <2>3. Asked(req) = {}
    <3>1. \A i \in Asked(req) : \E k \in 1 .. n : p[k] = i
      BY SelectedFrom
    <3>. QED
      BY <1>11, <3>1
  <2>. QED
    BY <1>9, <2>2, <2>3 DEF TimelineOf
<1>12. CASE n > 0
  <2>1. /\ d \in Nat \ {0}
        /\ \E x, y \in Int :
             /\ s = x * d /\ e = y * d /\ x * d \in Int /\ y * d \in Int
             /\ \A i \in Asked(req) : /\ entries[i].time \in Int
                                      /\ x * d =< entries[i].time
                                      /\ entries[i].time < y * d + d
    BY <1>4, <1>12, EndsExact
  <2>2. PICK x \in Int, y \in Int :
          /\ s = x * d /\ e = y * d /\ s \in Int /\ e \in Int
          /\ \A i \in Asked(req) : /\ entries[i].time \in Int
                                   /\ x * d =< entries[i].time
                                   /\ entries[i].time < y * d + d
    BY <2>1
  <2>3. PICK c : c = Sub(y * d, x * d) \div d + 1
    OBVIOUS
  <2>4. m = IF c < 1 THEN 1 ELSE c
    <3>1. sel # << >>
      BY <1>6, <1>12, EmptySeq
    <3>. QED
      BY <1>4, <1>5, <2>2, <2>3, <3>1 DEF BucketCount
  <2>5. Asked(req) # {}
    <3>1. 1 \in 1 .. n
      BY <1>6, <1>12
    <3>2. p[1] \in Asked(req)
      BY <3>1, SelectedFrom
    <3>. QED
      BY <3>2
  <2>6. \A i \in Asked(req) : entries[i].time - line[1].start =< MaxDuration
    OBVIOUS
  <2>7. c \in Int
    <3>1. Sub(y * d, x * d) \in Int
      <4>1. MaxDuration \in Nat
        BY ReportAssumption
      <4>2. PICK u \in Int, v \in Int : u = x * d /\ v = y * d
        BY <2>2
      <4>. QED
        BY <4>1, <4>2 DEF Sub
    <3>2. PICK D \in Int : D = Sub(y * d, x * d)
      BY <3>1
    <3>3. D \div d \in Int
      BY <2>1, DivInterval
    <3>. QED
      BY <2>3, <3>2, <3>3
  <2>8. m \in Int /\ m >= 1 /\ m >= c
    BY <2>4, <2>7
  <2>9. line[1].start = s
    <3>1. PICK z : z = (1 - 1) * d
      OBVIOUS
    <3>2. 1 \in 1 .. m /\ z = 0
      BY <2>1, <2>8, <3>1
    <3>3. line[1].start = s + z
      BY <1>10, <3>1, <3>2
    <3>. QED
      BY <2>2, <3>2, <3>3
  <2>10. ASSUME NEW i \in Asked(req)
         PROVE  /\ entries[i].time \in Int
                /\ 0 =< entries[i].time - s
                /\ entries[i].time - s =< MaxDuration
                /\ \E k \in 1 .. m : i \in Within(req, line[k].start, line[k].end)
    <3>1. PICK t \in Int : t = entries[i].time
      BY <2>2
    <3>2. x * d =< t /\ t < y * d + d /\ t - x * d =< MaxDuration
      BY <2>2, <2>6, <2>9, <3>1
    <3>3. (t - x * d) \div d + 1 \in 1 .. c
      BY <2>1, <2>3, <3>2, SpanExact
    <3>4. PICK q : q = (t - s) \div d
      OBVIOUS
    <3>5. PICK k \in 1 .. m : k = q + 1
      BY <2>2, <2>7, <2>8, <3>3, <3>4
    <3>6. q \in Int /\ q = k - 1
      <4>1. t - s \in Int
        BY <2>2
      <4>2. q \in Int
        BY <2>1, <3>4, <4>1, DivInterval
      <4>. QED
        BY <3>5, <4>2
    <3>7. 0 =< t - s /\ t - s =< MaxDuration
      BY <2>2, <3>2
    <3>8. Sub(t, s) = t - s
      <4>1. MaxDuration \in Nat
        BY ReportAssumption
      <4>2. PICK z \in Int : z = t - s
        BY <2>2
      <4>. QED
        BY <3>7, <4>1, <4>2 DEF Sub
    <3>9. k \in Int
      BY <2>8
    <3>10. s + (k - 1) * d =< t /\ t < s + k * d
      BY <2>1, <2>2, <3>4, <3>6, <3>7, <3>8, <3>9, SubExact
    <3>11. i \in Within(req, line[k].start, line[k].end)
      BY <1>10, <3>1, <3>10 DEF Within
    <3>. QED
      BY <3>1, <3>7, <3>11
  <2>11. ASSUME NEW k \in 1 .. m, NEW B, B = Within(req, line[k].start, line[k].end)
         PROVE  /\ line[k].count = Cardinality(B)
                /\ line[k].risks
                     = Cardinality({i \in B : Gravity(entries[i], req) > 0})
                /\ \A i \in B : line[k].actions[entries[i].action]
                     = Cardinality({j \in B : entries[j].action = entries[i].action})
    <3>1. k \in Int
      BY <2>8
    <3>2. PICK KK, LL : KK = K[k] /\ LL = L[k]
      OBVIOUS
    <3>3. /\ KK = {j \in DOMAIN sel : Sub(sel[j].time, s) \div d = k - 1}
          /\ LL = {j \in DOMAIN events : Sub(events[j].time, s) \div d = k - 1}
      BY <1>7, <3>2
    <3>4. B = Within(req, s + (k - 1) * d, s + k * d)
      BY <1>10, <2>11
    <3>5. \A i \in Asked(req) : /\ entries[i].time \in Int
                               /\ 0 =< entries[i].time - s
                               /\ entries[i].time - s =< MaxDuration
      BY <2>10
    <3>6. BucketExact(req, sel, events, KK, LL, B)
      BY <1>2, <1>3, <2>1, <2>2, <3>1, <3>3, <3>4, <3>5, BucketCounts
    <3>7. /\ line[k].count = Cardinality(KK)
          /\ line[k].risks = Cardinality(LL)
          /\ line[k].actions = [a \in {sel[j].action : j \in KK} |->
                                  Cardinality({j \in KK : sel[j].action = a})]
      BY <1>10, <3>2
    <3>8. ASSUME NEW i \in B
          PROVE  line[k].actions[entries[i].action]
                   = Cardinality({j \in B : entries[j].action = entries[i].action})
      <4>1. PICK a : a = entries[i].action
        OBVIOUS
      <4>2. a \in {sel[j].action : j \in KK}
        BY <3>6, <4>1 DEF BucketExact
      <4>3. line[k].actions[a] = Cardinality({j \in KK : sel[j].action = a})
        BY <3>7, <4>2
      <4>. QED
        BY <3>6, <4>1, <4>3 DEF BucketExact
    <3>. QED
      BY <3>6, <3>7, <3>8 DEF BucketExact
  <2>12. ASSUME NEW k \in 1 .. m, k > 1
         PROVE  line[k].start = line[k - 1].end
    <3>1. k - 1 \in 1 .. m
      BY <2>8, <2>12
    <3>. QED
      BY <1>10, <3>1
  <2>13. \A i \in Asked(req) : \E k \in DOMAIN line :
           i \in Within(req, line[k].start, line[k].end)
    BY <1>9, <2>10
  <2>. QED
    BY <1>9, <2>11, <2>12, <2>13 DEF TimelineOf
<1>. QED
  BY <1>6, <1>11, <1>12

\* The timeline misses nothing and counts nothing twice: its buckets are
\* adjacent, every row asked for lies in one, and each bucket counts exactly
\* the rows, by action too, and the risky rows, of its interval.
THEOREM TimelineCorrect == Spec => []TimelineComplete
<1>1. ASSUME RowsInv, NEW req \in Requests, NEW r, r = Generate(entries, req),
             r.err = "none",
             \A i \in Asked(req) : entries[i].time - r.timeline[1].start =< MaxDuration
      PROVE  TimelineOf(r.timeline, req)
  <2>1. PICK sel, policy, n, p : ReportAbout(r, req, sel, policy, n, p)
    BY <1>1, ReportFrom
  <2>2. PICK line : line = r.timeline
    OBVIOUS
  <2>3. /\ SelectedAs(sel, req, n, p)
        /\ policy = MergeRiskPolicy(req.policy)
        /\ RequestError(req) = "none"
        /\ line = BuildTimeline(sel, RiskEvents(sel, policy), NormalizeRequest(req))
    BY <2>1, <2>2 DEF ReportAbout
  <2>4. \A i \in Asked(req) : entries[i].time - line[1].start =< MaxDuration
    BY <1>1, <2>2
  <2>. QED
    BY <1>1, <2>2, <2>3, <2>4, TimelineExact
<1>2. RowsInv => TimelineComplete
  <2>. SUFFICES ASSUME RowsInv, NEW req \in Requests,
                       Generate(entries, req).err = "none",
                       \A i \in Asked(req) :
                         entries[i].time - Generate(entries, req).timeline[1].start
                           =< MaxDuration
                PROVE  TimelineOf(Generate(entries, req).timeline, req)
    BY Zenon DEF TimelineComplete, TimelineOf, Within
  <2>. QED
    BY <1>1
<1>. QED
  BY <1>2, RowsInvariance, PTL

=============================================================================
