----------------------------- MODULE ReportLog -----------------------------
(***************************************************************************)
(* The lists of entries a report is asked for: logs in the order of their  *)
(* positions, with event times in any order (clients may back-date), and   *)
(* a bounded number of rows that were lost, forked or unlinked.            *)
(***************************************************************************)
EXTENDS ReportEngine

CONSTANTS Contents,     \* the [actor, action, target, time, notes] that occur
          Requests,     \* the requests that are made
          MaxRows,      \* bound: rows of the log
          MaxDamage     \* bound: damaged rows

\* What report.Request and the business columns of an entry can hold.
ASSUME InputAssumption ==
  /\ MaxRows \in Nat /\ MaxDamage \in Nat
  /\ Contents \subseteq [actor : Strings, action : Strings, target : Strings,
                         time : Int, notes : SUBSET Strings]
  /\ Requests \subseteq
       [from : Int \cup {NoTime}, to : Int \cup {NoTime},
        actors : SUBSET (Strings \cup {Blank}),
        actions : SUBSET (Strings \cup {Blank}),
        targets : SUBSET (Strings \cup {Blank}),
        bucket : Int, top : Int,
        policy : [Lists -> SUBSET (Strings \cup {Blank})]]

VARIABLES entries, damage

vars == << entries, damage >>

Init == entries = << >> /\ damage = 0

Row(content, seq, prev) ==
  [seq |-> seq, prev_hash |-> prev, hash |-> Len(entries) + 1,
   actor |-> content.actor, action |-> content.action,
   target |-> content.target, time |-> content.time, notes |-> content.notes]

LastSeq  == IF entries = << >> THEN 0 ELSE entries[Len(entries)].seq
LastHash == Len(entries)

Add(seq, prev) ==
  /\ Len(entries) < MaxRows
  /\ \E content \in Contents : entries' = Append(entries, Row(content, seq, prev))

Damage == damage < MaxDamage /\ damage' = damage + 1

AddRow      == Add(LastSeq + 1, LastHash) /\ UNCHANGED damage
AddAfterGap == entries # << >> /\ Add(LastSeq + 2, LastHash + 100) /\ Damage
AddFork     == entries # << >> /\ Add(LastSeq, LastHash - 1) /\ Damage
AddUnlinked == entries # << >> /\ Add(LastSeq + 1, LastHash + 100) /\ Damage

Next == AddRow \/ AddAfterGap \/ AddFork \/ AddUnlinked

Spec == Init /\ [][Next]_vars

-----------------------------------------------------------------------------

\* The rows a request asks for, read off the request as it was made.
Asked(req) ==
  {i \in DOMAIN entries :
     /\ req.from = NoTime \/ req.from =< entries[i].time
     /\ req.to = NoTime \/ entries[i].time =< req.to
     /\ \/ req.actors \subseteq {Blank}
        \/ \E a \in req.actors \ {Blank} : Lower[Trim[a]] = Lower[entries[i].actor]
     /\ \/ req.actions \subseteq {Blank}
        \/ \E a \in req.actions \ {Blank} : Lower[Trim[a]] = Lower[entries[i].action]
     /\ \/ req.targets \subseteq {Blank}
        \/ \E a \in req.targets \ {Blank} : Lower[Trim[a]] \in Parts[entries[i].target]}

Terms(req, list) ==
  LET given == IF req.policy[list] = {} THEN DefaultPolicy[list] ELSE req.policy[list]
  IN  {Lower[Trim[t]] : t \in given \ {Blank}}

\* The weight of the gravest list a row is on.
Gravity(e, req) ==
  LET On(list) == Parts[e.action] \cap Terms(req, list) # {}
      weights  == {w \in {0, 2, 4, 8} :
                     \/ w = 8 /\ On("critical")
                     \/ w = 4 /\ (On("high") \/ e.notes \cap Terms(req, "failure") # {})
                     \/ w = 2 /\ On("medium")
                     \/ w = 0}
  IN  CHOOSE w \in weights : \A v \in weights : v =< w

\* The timeline misses nothing and counts nothing twice: its buckets are
\* adjacent, every row asked for lies in one, and each bucket counts exactly
\* the rows, by action too, and the risky rows, of its interval.  That holds
\* of timelines shorter than a Duration can be: 292 years after its start
\* Sub saturates (aggregate.go:108, 121), and later rows are all counted in
\* the last bucket, which does not hold them.
TimelineComplete ==
  \A req \in Requests :
    LET r    == Generate(entries, req)
        line == r.timeline
        In(b) == {i \in Asked(req) : b.start =< entries[i].time /\ entries[i].time < b.end}
    IN  /\ r.err = "none"
        /\ \A i \in Asked(req) : entries[i].time - line[1].start =< MaxDuration
        =>
        /\ \A i \in Asked(req) : \E k \in DOMAIN line : i \in In(line[k])
        /\ \A k \in DOMAIN line :
             /\ line[k].count = Cardinality(In(line[k]))
             /\ line[k].risks = Cardinality({i \in In(line[k]) : Gravity(entries[i], req) > 0})
             /\ \A i \in In(line[k]) :
                  line[k].actions[entries[i].action] =
                    Cardinality({j \in In(line[k]) : entries[j].action = entries[i].action})
             /\ k > 1 => line[k].start = line[k - 1].end

\* The rankings of actors, actions and targets list the most active names:
\* counts and times are exact, no name that was cut off has more rows than a
\* listed one, and nothing is cut off before the limit is reached.
RankingExact ==
  \A req \in Requests :
    LET r == Generate(entries, req) IN
    r.err = "none" => \A dim \in Dimensions :
    LET ranks   == r.ranks[dim]
        Hits(n) == {i \in Asked(req) : entries[i][dim] = n}
        Listed  == {ranks[k].name : k \in DOMAIN ranks}
        names   == {entries[i][dim] : i \in Asked(req)}
    IN  /\ Cardinality(Listed) = Len(ranks) /\ Listed \subseteq names
        /\ \A k \in DOMAIN ranks :
             /\ ranks[k].count = Cardinality(Hits(ranks[k].name))
             /\ \A i \in Hits(ranks[k].name) :
                  ranks[k].first =< entries[i].time /\ entries[i].time =< ranks[k].last
             /\ \A n \in names \ Listed : Cardinality(Hits(n)) =< ranks[k].count
        /\ names # Listed => Len(ranks) = TopLimit(req)
        /\ r.summary.unique[dim] = Cardinality(names)

\* The risk list holds every row that is on some list of the policy, the
\* gravest first and the newest first among equals, counted under the level
\* of the gravest.  The score is 100 only if all rows are critical.
RisksExact ==
  \A req \in Requests :
    LET r      == Generate(entries, req)
        risky  == {i \in Asked(req) : Gravity(entries[i], req) > 0}
    IN  r.err = "none" =>
        /\ {r.events[k].hash : k \in DOMAIN r.events} = risky
        /\ Len(r.events) = Cardinality(risky)
        /\ \A k \in 2 .. Len(r.events) :
             LET e == r.events[k - 1] f == r.events[k] IN
             \/ Gravity(e, req) > Gravity(f, req)
             \/ Gravity(e, req) = Gravity(f, req) /\ e.time >= f.time
        /\ \A level \in {"critical", "high", "medium"} :
             r.by_level[level] =
               Cardinality({i \in risky : Gravity(entries[i], req) = Weight[level]})
        /\ r.score = 100 <=> /\ Asked(req) # {}
                             /\ \A i \in Asked(req) : Gravity(entries[i], req) = 8

\* A report calls its rows continuous exactly if they are one unbroken piece
\* of a chain, whatever the order of their event times.  (A filter that drops
\* a row in between makes the report say gap, on an intact log too.)
IntegrityExact ==
  \A req \in Requests :
    LET r == Generate(entries, req) IN
    r.err = "none" => (r.issues = {} <=>
      \A i, j \in Asked(req) :
        i # j =>
          /\ entries[i].seq # entries[j].seq
          /\ entries[i].seq < entries[j].seq =>
               \E p \in Asked(req) : /\ entries[p].seq = entries[j].seq - 1
                                     /\ entries[p].hash = entries[j].prev_hash)

=============================================================================
