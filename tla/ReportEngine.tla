---------------------------- MODULE ReportEngine ----------------------------
(***************************************************************************)
(* internal/report: the statistics over a list of entries.  Pure.          *)
(*                                                                         *)
(* Strings are numbers in their sort order.  An entry has an actor, an     *)
(* action, a target and a time, and records which terms its detail         *)
(* contains (notes).  Percentages and averages are left out.               *)
(***************************************************************************)
EXTENDS Integers, Sequences, FiniteSets

CONSTANTS Strings,         \* all strings but the blank ones
          Blank,           \* a string of white space
          Trim,            \* strings.TrimSpace
          Lower,           \* strings.ToLower
          Parts,           \* per string, what its lower-case form contains
          NoTime,          \* a nil *time.Time
          MaxDuration,     \* the largest time.Duration, about 292 years
          DefaultPolicy,   \* defaultRiskPolicy
          MinBucket, DefaultBucket, MaxBuckets, DefaultTop, MaxTop

\* The term lists of a risk policy.
Lists == {"critical", "high", "medium", "failure"}

ASSUME ReportAssumption ==
  /\ Strings \subseteq Nat /\ Blank \notin Strings
  /\ Trim \in [Strings -> Strings] /\ Lower \in [Strings -> Strings]
  /\ Parts \in [Strings -> SUBSET Strings]
  /\ \A s \in Strings : Lower[s] \in Parts[s]
  /\ {MinBucket, DefaultBucket, MaxBuckets, DefaultTop, MaxTop, MaxDuration}
       \subseteq Nat \ {0}
  /\ DefaultPolicy \in [Lists -> SUBSET (Strings \cup {Blank})]
  /\ NoTime \notin Int
  /\ MinBucket =< DefaultBucket /\ DefaultBucket =< MaxDuration
  /\ DefaultTop =< MaxTop

Dimensions == {"actor", "action", "target"}

\* sort.SliceStable, of what s holds at the indices I: less has the pairs of
\* indices whose elements the comparator puts in this order.
StableSort(s, I, less) ==
  LET Before(i, j) == << i, j >> \in less \/ (i < j /\ << j, i >> \notin less)
      place == [i \in I |-> 1 + Cardinality({j \in I : Before(j, i)})]
  IN  [k \in 1 .. Cardinality(I) |-> s[CHOOSE i \in I : place[i] = k]]

-----------------------------------------------------------------------------
(* The request *)

NormalizedSet(values) == {Lower[Trim[v]] : v \in values \ {Blank}}

Bucket(req) == IF req.bucket = 0 THEN DefaultBucket ELSE req.bucket

TopLimit(req) ==
  CASE req.top =< 0     -> DefaultTop
    [] req.top > MaxTop -> MaxTop
    [] OTHER            -> req.top

RequestError(req) ==
  IF req.from # NoTime /\ req.to # NoTime /\ req.to < req.from
  THEN "ErrInvalidRange"
  ELSE IF Bucket(req) < MinBucket THEN "ErrInvalidBucket" ELSE "none"

NormalizeRequest(req) ==
  [req EXCEPT !.bucket = Bucket(req), !.top = TopLimit(req),
              !.actors = NormalizedSet(req.actors),
              !.actions = NormalizedSet(req.actions),
              !.targets = NormalizedSet(req.targets)]

\* On a normalized request.
Matches(e, req) ==
  /\ req.from # NoTime => req.from =< e.time
  /\ req.to # NoTime => e.time =< req.to
  /\ req.actors # {} => Lower[e.actor] \in req.actors
  /\ req.actions # {} => Lower[e.action] \in req.actions
  /\ req.targets # {} => Parts[e.target] \cap req.targets # {}

\* Mutant of Selected: the entries stay in the order of the log.
UnsortedSelected(entries, req) ==
  StableSort(entries, {i \in DOMAIN entries : Matches(entries[i], req)}, {})

\* The entries a report is about, in the order of their event times.
Selected(entries, req) ==
  LET I == {i \in DOMAIN entries : Matches(entries[i], req)}
      Earlier(e, f) == e.time < f.time \/ (e.time = f.time /\ e.seq < f.seq)
  IN  StableSort(entries, I, {p \in I \X I : Earlier(entries[p[1]], entries[p[2]])})

-----------------------------------------------------------------------------
(* Risks *)

Weight == [critical |-> 8, high |-> 4, medium |-> 2, low |-> 0]

\* An empty list means the default; a list of blanks means no term at all.
MergeRiskPolicy(policy) ==
  [list \in DOMAIN DefaultPolicy |->
     NormalizedSet(IF policy[list] = {} THEN DefaultPolicy[list] ELSE policy[list])]

\* Mutant of ClassifyRisk: sensitive actions are tried before failures.
HastyClassifyRisk(e, policy) ==
  LET words == Parts[e.action] IN
  IF words \cap policy.critical # {} THEN "critical action"
  ELSE IF words \cap policy.high # {} THEN "destructive action"
  ELSE IF words \cap policy.medium # {} THEN "sensitive action"
  ELSE IF e.notes \cap policy.failure # {} THEN "failure indicator"
  ELSE "none"

\* The reason, on a merged policy; it determines the level.
ClassifyRisk(e, policy) ==
  LET words == Parts[e.action] IN
  IF words \cap policy.critical # {} THEN "critical action"
  ELSE IF words \cap policy.high # {} THEN "destructive action"
  ELSE IF e.notes \cap policy.failure # {} THEN "failure indicator"
  ELSE IF words \cap policy.medium # {} THEN "sensitive action"
  ELSE "none"

Level(reason) == CASE reason = "critical action"  -> "critical"
                   [] reason \in {"destructive action", "failure indicator"} -> "high"
                   [] reason = "sensitive action" -> "medium"
                   [] reason = "none"             -> "low"

\* The worst first, the newest first among equals.
RiskEvents(sel, policy) ==
  LET W(e) == Weight[Level(ClassifyRisk(e, policy))]
      I == {i \in DOMAIN sel : W(sel[i]) > 0}
      Worse(e, f) == W(e) > W(f) \/ (W(e) = W(f) /\ e.time > f.time)
  IN  StableSort(sel, I, {p \in I \X I : Worse(sel[p[1]], sel[p[2]])})

\* Entries of low risk are counted under no level and no reason.
ByLevel(sel, policy) ==
  [level \in DOMAIN Weight |->
     Cardinality({i \in DOMAIN sel : /\ level # "low"
                                     /\ Level(ClassifyRisk(sel[i], policy)) = level})]

ByReason(sel, policy) ==
  [reason \in {ClassifyRisk(sel[i], policy) : i \in DOMAIN sel} \ {"none"} |->
     Cardinality({i \in DOMAIN sel : ClassifyRisk(sel[i], policy) = reason})]

RiskScore(levels, total) ==
  IF total = 0 THEN 0
  ELSE LET weighted == levels.critical * 8 + levels.high * 4 + levels.medium * 2
           score    == (weighted * 100) \div (total * 8)
       IN  IF score > 100 THEN 100 ELSE score

-----------------------------------------------------------------------------
(* Summary, ranking, timeline, integrity of the selected entries *)

Names(sel, dim) == {sel[i][dim] : i \in DOMAIN sel}

Summarize(sel) ==
  LET seqs == {sel[i].seq : i \in DOMAIN sel} IN
  [total  |-> Len(sel),
   unique |-> [dim \in Dimensions |-> Cardinality(Names(sel, dim))],
   first  |-> IF sel = << >> THEN 0 ELSE CHOOSE s \in seqs : \A t \in seqs : s =< t,
   last   |-> IF sel = << >> THEN 0 ELSE CHOOSE s \in seqs : \A t \in seqs : t =< s]

Rank(sel, dim, name) ==
  LET hits == {i \in DOMAIN sel : sel[i][dim] = name} IN
  [name  |-> name,
   count |-> Cardinality(hits),
   first |-> sel[CHOOSE i \in hits : \A j \in hits : sel[i].time =< sel[j].time].time,
   last  |-> sel[CHOOSE i \in hits : \A j \in hits : sel[j].time =< sel[i].time].time]

Shorter(n, limit) == IF n > limit THEN limit ELSE n

\* Mutant of RankEntries: sorted by name only.
NameRankEntries(sel, dim, limit) ==
  LET names == Names(sel, dim)
      list  == StableSort([n \in names |-> Rank(sel, dim, n)], names, {})
  IN  [k \in 1 .. Shorter(Cardinality(names), limit) |-> list[k]]

\* Names are ranked as written, although they are matched in lower case.
RankEntries(sel, dim, limit) ==
  LET names == Names(sel, dim)
      ranks == [n \in names |-> Rank(sel, dim, n)]
      Above(m, n) == \/ m.count > n.count
                     \/ m.count = n.count /\ m.name < n.name
      list  == StableSort(ranks, names,
                 {p \in names \X names : Above(ranks[p[1]], ranks[p[2]])})
  IN  [k \in 1 .. Shorter(Cardinality(names), limit) |-> list[k]]

\* time.Time.Truncate
Truncate(t, d) == t - (t % d)

TimelineStart(sel, req) ==
  Truncate(IF req.from # NoTime THEN req.from ELSE sel[1].time, req.bucket)

TimelineEnd(sel, req) ==
  Truncate(IF req.to # NoTime THEN req.to ELSE sel[Len(sel)].time, req.bucket)

\* time.Time.Sub saturates, it does not overflow.
Sub(t, u) == IF t - u > MaxDuration THEN MaxDuration
             ELSE IF t - u < -MaxDuration THEN -MaxDuration - 1 ELSE t - u

BucketCount(sel, req) ==
  IF sel = << >> THEN 0
  ELSE LET count == Sub(TimelineEnd(sel, req), TimelineStart(sel, req))
                      \div req.bucket + 1
       IN  IF count < 1 THEN 1 ELSE count

\* All rows lie at or after the start, so the quotients are naturals.
BuildTimeline(sel, events, req) ==
  LET start == TimelineStart(sel, req)
      In(s, k) == {i \in DOMAIN s : Sub(s[i].time, start) \div req.bucket = k - 1}
  IN  [k \in 1 .. BucketCount(sel, req) |->
         [start   |-> start + (k - 1) * req.bucket,
          end     |-> start + k * req.bucket,
          count   |-> Cardinality(In(sel, k)),
          risks   |-> Cardinality(In(events, k)),
          actions |-> [a \in {sel[i].action : i \in In(sel, k)} |->
                         Cardinality({i \in In(sel, k) : sel[i].action = a})]]]

\* Mutant of InspectIntegrity: neighbours in time instead of neighbours in seq.
TimeOrderInspectIntegrity(sel) ==
  {<< sel[i], "sequence_gap" >> : i \in {k \in 2 .. Len(sel) : sel[k].seq # sel[k - 1].seq + 1}}
  \cup
  {<< sel[i], "previous_hash_mismatch" >> :
     i \in {k \in 2 .. Len(sel) : sel[k].prev_hash # sel[k - 1].hash}}

\* The issues found between neighbours by seq; continuous if there is none.
InspectIntegrity(sel) ==
  LET I == DOMAIN sel
      ordered == StableSort(sel, I, {p \in I \X I : sel[p[1]].seq < sel[p[2]].seq})
      Pairs   == 2 .. Len(ordered)
  IN  {<< ordered[i], "sequence_gap" >> :
         i \in {k \in Pairs : ordered[k].seq # ordered[k - 1].seq + 1}}
      \cup
      {<< ordered[i], "previous_hash_mismatch" >> :
         i \in {k \in Pairs : ordered[k].prev_hash # ordered[k - 1].hash}}

-----------------------------------------------------------------------------

Failed(err) == [err |-> err]

Generate(entries, request) ==
  IF RequestError(request) # "none" THEN Failed(RequestError(request))
  ELSE
  LET req    == NormalizeRequest(request)
      sel    == Selected(entries, req)
      policy == MergeRiskPolicy(req.policy)
      events == RiskEvents(sel, policy)
  IN  IF BucketCount(sel, req) > MaxBuckets THEN Failed("ErrTooManyBuckets")
      ELSE [err       |-> "none",
            summary   |-> Summarize(sel),
            timeline  |-> BuildTimeline(sel, events, req),
            ranks     |-> [dim \in Dimensions |-> RankEntries(sel, dim, req.top)],
            events    |-> events,
            by_level  |-> ByLevel(sel, policy),
            by_reason |-> ByReason(sel, policy),
            score     |-> RiskScore(ByLevel(sel, policy), Len(sel)),
            issues    |-> InspectIntegrity(sel)]

=============================================================================
