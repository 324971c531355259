---------------------------- MODULE MCReportLog ----------------------------
(* A small instance of ReportLog for TLC. *)
EXTENDS ReportLog

\* 1 "Bob", 2 "DROP table", 3 "bob", 4 "carol", 5 "caroline", 6 "delete",
\* 7 "drop", 8 "drop table", 9 "failed", 10 "login", 11 "read", and, in
\* requests only, 12 " Bob ", 13 "login " and 14 " bob "
AllStrings == 1 .. 14
Trimmed    == [s \in AllStrings |-> CASE s = 12 -> 1 [] s = 13 -> 10
                                      [] s = 14 -> 3 [] OTHER -> s]
LowerCase  == [s \in AllStrings |-> CASE s = 1 -> 3 [] s = 2 -> 8
                                      [] s = 12 -> 14 [] OTHER -> s]
Substrings == [s \in AllStrings |-> CASE s = 1 -> {3}
                                      [] s \in {2, 8} -> {7, 8}
                                      [] s = 5 -> {4, 5}
                                      [] s \in {12, 14} -> {3, 14}
                                      [] s = 13 -> {10, 13}
                                      [] OTHER -> {s}]
Defaults   == [critical |-> {7}, high |-> {6}, medium |-> {10}, failure |-> {9}]

Content(who, did, what, t, n) ==
  [actor |-> who, action |-> did, target |-> what, time |-> t, notes |-> n]

\* A critical row, a failed one with a sensitive action, an ordinary one at
\* the same time, and a later sensitive one.
SomeContents == {Content(1, 2, 4, 0, {}), Content(3, 10, 1, 3, {9}),
                 Content(4, 11, 4, 3, {}), Content(4, 10, 5, 5, {})}

Base == [from |-> NoTime, to |-> NoTime, actors |-> {}, actions |-> {},
         targets |-> {}, bucket |-> 0, top |-> 0,
         policy |-> [critical |-> {}, high |-> {}, medium |-> {}, failure |-> {}]]

\* Windows with buckets (one too small, one that starts too long ago),
\* filters with limits, policies (a blank list, a list of one's own).
SomeRequests ==
  {[Base EXCEPT !.from = f, !.to = t, !.bucket = b] :
     f \in {NoTime, 1}, t \in {NoTime, 0, 4}, b \in {0, 1, 2}}
  \cup {[Base EXCEPT !.from = -8]}
  \cup {[Base EXCEPT !.actors = a, !.top = n] :
          a \in {{}, {Blank}, {12}, {Blank, 3, 4}}, n \in {1, 3}}
  \cup {[Base EXCEPT !.actions = {8, 11}], [Base EXCEPT !.targets = {Blank, 4}],
        [Base EXCEPT !.actions = {13}, !.targets = {1}]}
  \cup {[Base EXCEPT !.policy.critical = {Blank}],
        [Base EXCEPT !.policy.medium = {9}, !.policy.high = {10}]}

=============================================================================
