----------------------------- MODULE Input_proof -----------------------------
(***************************************************************************)
(* What the program lets in.  The text an entry's hash is computed from    *)
(* determines the entry, also in a damaged log; what an append accepted, a *)
(* verification can hash; and a configuration that is accepted is one the  *)
(* other modules assume.                                                   *)
(***************************************************************************)
EXTENDS DigestInput, Config, SequenceTheorems, TLAPS

-----------------------------------------------------------------------------
(* Entries                                                                 *)

D == << Delim >>

\* One more part behind a text, and a text behind a first part.
Glue(x, a) == (x \o D) \o a
Lead(a, x) == a \o (D \o x)

\* The delimiter as a text.
LEMMA OneChar ==
  ASSUME Delim \in Chars
  PROVE  D \in Texts /\ Len(D) = 1 /\ D[1] = Delim
BY DEF D, Texts

\* A delimiter in front of a text.
LEMMA AfterDelim ==
  ASSUME Delim \in Chars, NEW x \in Texts
  PROVE  /\ D \o x \in Texts
         /\ Len(D \o x) \in Nat \ {0}
         /\ (D \o x)[1] = Delim
<1>1. Len(x) \in Nat
  BY LenProperties DEF Texts
<1>2. /\ D \o x \in Texts
      /\ Len(D \o x) = Len(D) + Len(x)
      /\ \A i \in 1 .. Len(D) + Len(x) :
           (D \o x)[i] = IF i =< Len(D) THEN D[i] ELSE x[i - Len(D)]
  BY OneChar, ConcatProperties DEF Texts
<1>3. 1 \in 1 .. Len(D) + Len(x) /\ 1 =< Len(D)
  BY <1>1, OneChar
<1>4. (D \o x)[1] = D[1]
  BY <1>2, <1>3
<1> QED
  BY <1>1, <1>2, <1>4, OneChar

\* Likewise behind a text.
LEMMA BeforeDelim ==
  ASSUME Delim \in Chars, NEW x \in Texts
  PROVE  /\ x \o D \in Texts
         /\ Len(x \o D) \in Nat \ {0}
         /\ (x \o D)[Len(x \o D)] = Delim
<1>1. PICK n \in Nat : n = Len(x)
  BY LenProperties DEF Texts
<1>2. /\ x \o D \in Texts
      /\ Len(x \o D) = Len(x) + Len(D)
      /\ \A i \in 1 .. Len(x) + Len(D) :
           (x \o D)[i] = IF i =< Len(x) THEN x[i] ELSE D[i - Len(x)]
  BY OneChar, ConcatProperties DEF Texts
<1>3. PICK s \in Texts :
        /\ s = x \o D
        /\ Len(s) = Len(x) + Len(D)
        /\ \A i \in 1 .. Len(x) + Len(D) :
             s[i] = IF i =< Len(x) THEN x[i] ELSE D[i - Len(x)]
  BY <1>2, Zenon
<1>4. Len(s) = n + 1
  BY <1>1, <1>3, OneChar
<1>5. \A i \in 1 .. n + 1 : s[i] = IF i =< n THEN x[i] ELSE D[i - n]
  BY <1>1, <1>3, OneChar
<1>6. n + 1 \in 1 .. n + 1 /\ ~(n + 1 =< n) /\ (n + 1) - n = 1
  OBVIOUS
<1>7. s[n + 1] = D[1]
  BY <1>5, <1>6
<1>8. Len(s) \in Nat \ {0} /\ s[Len(s)] = Delim
  BY <1>4, <1>7, OneChar
<1> QED
  BY <1>3, <1>8

\* What an element of a concatenation is.
LEMMA ConcatElements ==
  ASSUME NEW s \in Texts, NEW t \in Texts
  PROVE  /\ Len(s) \in Nat /\ Len(t) \in Nat
         /\ Len(s \o t) = Len(s) + Len(t)
         /\ \A i \in 1 .. Len(s) : (s \o t)[i] = s[i]
         /\ \A i \in 1 .. Len(t) : (s \o t)[Len(s) + i] = t[i]
<1>1. Len(s) \in Nat /\ Len(t) \in Nat
  BY LenProperties DEF Texts
<1>2. /\ Len(s \o t) = Len(s) + Len(t)
      /\ \A i \in 1 .. Len(s) + Len(t) :
           (s \o t)[i] = IF i =< Len(s) THEN s[i] ELSE t[i - Len(s)]
  BY ConcatProperties DEF Texts
<1>3. ASSUME NEW i \in 1 .. Len(s) PROVE (s \o t)[i] = s[i]
  <2>1. i \in 1 .. Len(s) + Len(t) /\ i =< Len(s)
    BY <1>1
  <2> QED
    BY <1>2, <2>1
<1>4. ASSUME NEW i \in 1 .. Len(t) PROVE (s \o t)[Len(s) + i] = t[i]
  <2>1. /\ Len(s) + i \in 1 .. Len(s) + Len(t)
        /\ ~(Len(s) + i =< Len(s)) /\ Len(s) + i - Len(s) = i
    BY <1>1
  <2> QED
    BY <1>2, <2>1
<1> QED
  BY <1>1, <1>2, <1>3, <1>4

\* Two texts that start alike with equally long parts have them in common.
LEMMA SameSplit ==
  ASSUME NEW a \in Texts, NEW b \in Texts, NEW s \in Texts, NEW t \in Texts,
         a \o s = b \o t, Len(a) = Len(b)
  PROVE  a = b /\ s = t
<1>1. \A i \in 1 .. Len(a) : a[i] = b[i]
  BY ConcatElements
<1>2. a = b
  BY <1>1, SeqEqual DEF Texts
<1>3. s = t
  BY <1>2, ConcatSimplifications DEF Texts
<1> QED
  BY <1>2, <1>3

\* A delimiter-free part cannot end behind the first delimiter.
LEMMA NotLonger ==
  ASSUME NEW a \in PlainTexts, NEW b \in PlainTexts,
         NEW s \in Texts, NEW t \in Texts,
         Len(s) # 0, s[1] = Delim, a \o s = b \o t
  PROVE  Len(b) =< Len(a)
<1>1. a \in Texts /\ b \in Texts
  BY DEF PlainTexts
<1>2. Len(a) \in Nat /\ Len(b) \in Nat /\ Len(s) \in Nat
  BY <1>1, ConcatElements
<1>3. (a \o s)[Len(a) + 1] = Delim
  BY <1>1, <1>2, ConcatElements
<1>4. ASSUME Len(a) < Len(b) PROVE FALSE
  <2>1. Len(a) + 1 \in 1 .. Len(b)
    BY <1>2, <1>4
  <2>2. (b \o t)[Len(a) + 1] = b[Len(a) + 1]
    BY <1>1, <2>1, ConcatElements
  <2> QED
    BY <1>3, <2>1, <2>2 DEF PlainTexts, DelimFree
<1> QED
  BY <1>2, <1>4

\* A delimiter-free part cannot start before the last delimiter.
LEMMA NotEarlier ==
  ASSUME NEW a \in PlainTexts, NEW b \in PlainTexts,
         NEW s \in Texts, NEW t \in Texts,
         Len(t) # 0, t[Len(t)] = Delim, s \o a = t \o b
  PROVE  Len(t) =< Len(s)
<1>1. a \in Texts /\ b \in Texts
  BY DEF PlainTexts
<1>2. Len(a) \in Nat /\ Len(b) \in Nat /\ Len(s) \in Nat /\ Len(t) \in Nat
  BY <1>1, ConcatElements
<1>3. Len(s) + Len(a) = Len(t) + Len(b)
  BY <1>1, ConcatElements
<1>4. (t \o b)[Len(t)] = Delim
  BY <1>1, <1>2, ConcatElements
<1>5. ASSUME Len(s) < Len(t) PROVE FALSE
  <2>1. \A m, n, i, j \in Nat :
          m + i = n + j /\ m < n => \E k \in 1 .. i : m + k = n
    <3> SUFFICES ASSUME NEW m \in Nat, NEW n \in Nat, NEW i \in Nat, NEW j \in Nat,
                        m + i = n + j, m < n
                 PROVE  n - m \in 1 .. i /\ m + (n - m) = n
      OBVIOUS
    <3> QED
      OBVIOUS
  <2>2. PICK k \in 1 .. Len(a) : Len(s) + k = Len(t)
    BY <1>2, <1>3, <1>5, <2>1
  <2>3. (s \o a)[Len(t)] = a[k]
    BY <1>1, <2>2, ConcatElements
  <2> QED
    BY <1>4, <2>2, <2>3 DEF PlainTexts, DelimFree
<1> QED
  BY <1>2, <1>5

\* What stands before the first delimiter is determined, and what follows it.
LEMMA FirstPart ==
  ASSUME Delim \in Chars,
         NEW a \in PlainTexts, NEW b \in PlainTexts,
         NEW x \in Texts, NEW y \in Texts,
         Lead(a, x) = Lead(b, y)
  PROVE  a = b /\ x = y
<1>1. PICK s \in Texts : s = D \o x /\ Len(s) # 0 /\ s[1] = Delim
  BY AfterDelim
<1>2. PICK t \in Texts : t = D \o y /\ Len(t) # 0 /\ t[1] = Delim
  BY AfterDelim
<1>3. a \o s = b \o t
  BY <1>1, <1>2 DEF Lead
<1>4. a \in Texts /\ b \in Texts /\ Len(a) \in Nat /\ Len(b) \in Nat
  BY LenProperties DEF PlainTexts, Texts
<1>5. Len(a) =< Len(b) /\ Len(b) =< Len(a)
  BY <1>1, <1>2, <1>3, NotLonger
<1>6. Len(a) = Len(b)
  BY <1>4, <1>5
<1>7. a = b /\ s = t
  BY <1>3, <1>4, <1>6, SameSplit, Zenon
<1>8. D \o x = D \o y
  BY <1>1, <1>2, <1>7
<1> QED
  BY <1>7, <1>8, OneChar, ConcatSimplifications DEF Texts

\* What stands behind the last delimiter is determined, and what precedes it.
LEMMA LastPart ==
  ASSUME Delim \in Chars,
         NEW a \in PlainTexts, NEW b \in PlainTexts,
         NEW x \in Texts, NEW y \in Texts,
         (x \o D) \o a = (y \o D) \o b
  PROVE  a = b /\ x = y
<1>1. PICK s \in Texts : s = x \o D /\ Len(s) \in Nat \ {0} /\ s[Len(s)] = Delim
  BY BeforeDelim
<1>2. PICK t \in Texts : t = y \o D /\ Len(t) \in Nat \ {0} /\ t[Len(t)] = Delim
  BY BeforeDelim
<1>3. s \o a = t \o b
  BY <1>1, <1>2
<1>4. a \in Texts /\ b \in Texts
  BY DEF PlainTexts
<1>5. Len(s) =< Len(t) /\ Len(t) =< Len(s)
  BY <1>1, <1>2, <1>3, NotEarlier
<1>6. Len(s) = Len(t)
  BY <1>1, <1>2, <1>5
<1>7. s = t /\ a = b
  BY <1>3, <1>4, <1>6, SameSplit, Zenon
<1>8. x \o D = y \o D
  BY <1>1, <1>2, <1>7
<1> QED
  BY <1>7, <1>8, OneChar, ConcatSimplifications DEF Texts

-----------------------------------------------------------------------------

\* What is joined is a text.
LEMMA JoinedTyped ==
  ASSUME Delim \in Chars, NEW a \in Texts, NEW b \in Texts
  PROVE  (a \o D) \o b \in Texts
BY OneChar, ConcatProperties DEF Texts

\* The parts of an entry that HashEntry accepts.
LEMMA PartsTyped ==
  ASSUME FormatsInjective, NEW e \in Entries, ~Refused(e)
  PROVE  /\ Delim \in Chars
         /\ SeqText[e.seq] \in PlainTexts
         /\ e.prev_hash \in Texts
         /\ TimeText[e.event_time] \in PlainTexts
         /\ e.actor \in PlainTexts
         /\ e.action \in PlainTexts
         /\ e.target \in PlainTexts
         /\ CanonicalJSON(e.detail) \in PlainTexts
<1>1. e.seq \in Nat /\ e.event_time \in Int
  BY DEF Entries
<1>2. e.actor \in PlainTexts /\ e.action \in PlainTexts /\ e.target \in PlainTexts
  BY DEF Entries, Refused, Names, PlainTexts
<1> QED
  BY <1>1, <1>2 DEF FormatsInjective, Entries, Refused, NotCanonical, CanonicalJSON

\* One more part at the end: the texts are equal only if the parts are.
LEMMA GlueInjective ==
  ASSUME Delim \in Chars
  PROVE  /\ \A x \in Texts, a \in PlainTexts : Glue(x, a) \in Texts
         /\ \A x, y \in Texts, a, b \in PlainTexts :
              Glue(x, a) = Glue(y, b) => x = y /\ a = b
<1>1. ASSUME NEW x \in Texts, NEW a \in PlainTexts PROVE Glue(x, a) \in Texts
  <2>1. a \in Texts
    BY DEF PlainTexts
  <2> QED
    BY <2>1, JoinedTyped DEF Glue
<1>2. ASSUME NEW x \in Texts, NEW y \in Texts, NEW a \in PlainTexts,
             NEW b \in PlainTexts, Glue(x, a) = Glue(y, b)
      PROVE  x = y /\ a = b
  <2>1. (x \o D) \o a = (y \o D) \o b
    BY <1>2 DEF Glue
  <2> QED
    BY <2>1, LastPart
<1> QED
  BY <1>1, <1>2

\* The text behind the position.
Rest(e) == Glue(Glue(Glue(Glue(Glue(e.prev_hash, TimeText[e.event_time]),
             e.actor), e.action), e.target), CanonicalJSON(e.detail))

\* The joined text determines all seven parts, even if prev_hash, which
\* nobody checks, contains the delimiter: no two entries of a log, damaged or
\* not, are hashed over the same text.
THEOREM JoinInjective ==
  ASSUME FormatsInjective,
         NEW e \in Entries, NEW f \in Entries, ~Refused(e), ~Refused(f),
         Joined(e) = Joined(f)
  PROVE  /\ e.seq = f.seq
         /\ e.prev_hash = f.prev_hash
         /\ e.event_time = f.event_time
         /\ \A n \in Names : e[n] = f[n]
         /\ CanonicalJSON(e.detail) = CanonicalJSON(f.detail)
<1>1. Delim \in Chars
  BY DEF FormatsInjective
<1>2. Joined(e) = Lead(SeqText[e.seq], Rest(e)) /\ Joined(f) = Lead(SeqText[f.seq], Rest(f))
  BY Zenon DEF Joined, Lead, Rest, Glue, D
<1>3. Rest(e) \in Texts /\ Rest(f) \in Texts
  BY <1>1, PartsTyped, GlueInjective DEF Rest
<1>4. SeqText[e.seq] = SeqText[f.seq] /\ Rest(e) = Rest(f)
  <2>1. SeqText[e.seq] \in PlainTexts /\ SeqText[f.seq] \in PlainTexts
    BY PartsTyped
  <2>2. Lead(SeqText[e.seq], Rest(e)) = Lead(SeqText[f.seq], Rest(f))
    BY <1>2
  <2> QED
    BY <1>1, <1>3, <2>1, <2>2, FirstPart
<1>5. /\ e.prev_hash = f.prev_hash
      /\ TimeText[e.event_time] = TimeText[f.event_time]
      /\ e.actor = f.actor /\ e.action = f.action /\ e.target = f.target
      /\ CanonicalJSON(e.detail) = CanonicalJSON(f.detail)
  <2>1. PICK a1, a2, a3, a4, a5 \in PlainTexts, p \in Texts :
          /\ p = e.prev_hash /\ a1 = TimeText[e.event_time] /\ a2 = e.actor
          /\ a3 = e.action /\ a4 = e.target /\ a5 = CanonicalJSON(e.detail)
    BY PartsTyped, Zenon
  <2>2. PICK b1, b2, b3, b4, b5 \in PlainTexts, q \in Texts :
          /\ q = f.prev_hash /\ b1 = TimeText[f.event_time] /\ b2 = f.actor
          /\ b3 = f.action /\ b4 = f.target /\ b5 = CanonicalJSON(f.detail)
    BY PartsTyped, Zenon
  <2>3. PICK x1 \in Texts, y1 \in Texts : x1 = Glue(p, a1) /\ y1 = Glue(q, b1)
    BY <1>1, GlueInjective
  <2>4. PICK x2 \in Texts, y2 \in Texts : x2 = Glue(x1, a2) /\ y2 = Glue(y1, b2)
    BY <1>1, GlueInjective
  <2>5. PICK x3 \in Texts, y3 \in Texts : x3 = Glue(x2, a3) /\ y3 = Glue(y2, b3)
    BY <1>1, GlueInjective
  <2>6. PICK x4 \in Texts, y4 \in Texts : x4 = Glue(x3, a4) /\ y4 = Glue(y3, b4)
    BY <1>1, GlueInjective
  <2>7. Glue(x4, a5) = Glue(y4, b5)
    BY <1>4, <2>1, <2>2, <2>3, <2>4, <2>5, <2>6, Zenon DEF Rest
  <2>8. x4 = y4 /\ a5 = b5
    BY <1>1, <2>7, GlueInjective
  <2>9. x3 = y3 /\ a4 = b4
    <3>1. Glue(x3, a4) = Glue(y3, b4)
      BY <2>6, <2>8
    <3> QED
      BY <1>1, <3>1, GlueInjective
  <2>10. x2 = y2 /\ a3 = b3
    <3>1. Glue(x2, a3) = Glue(y2, b3)
      BY <2>5, <2>9
    <3> QED
      BY <1>1, <3>1, GlueInjective
  <2>11. x1 = y1 /\ a2 = b2
    <3>1. Glue(x1, a2) = Glue(y1, b2)
      BY <2>4, <2>10
    <3> QED
      BY <1>1, <3>1, GlueInjective
  <2>12. p = q /\ a1 = b1
    <3>1. Glue(p, a1) = Glue(q, b1)
      BY <2>3, <2>11
    <3> QED
      BY <1>1, <3>1, GlueInjective
  <2> QED
    BY <2>1, <2>2, <2>8, <2>9, <2>10, <2>11, <2>12, Zenon
<1>6. e.seq = f.seq /\ e.event_time = f.event_time
  BY <1>4, <1>5 DEF FormatsInjective, Entries
<1> QED
  BY <1>5, <1>6 DEF Names

\* What Normalize accepts, HashEntry does not refuse: neither when the entry
\* is sealed nor when a verification reads it back, which would then fail on
\* an entry that nobody altered.  A detail that was left out is stored as "{}".
THEOREM AcceptedIsHashable ==
  ASSUME FormatsInjective, CanonicalStable, NEW r, NEW n, NEW now,
         NormalizedTo(r, n, now), NEW seq, NEW prev
  PROVE  LET e == Sealed(seq, prev, n) IN
         /\ ~Refused(e) /\ ~Refused(ReadBack(e))
         /\ CanonicalJSON(e.detail) = e.detail
         /\ TrimmedTo(r.detail, << >>) => e.detail = EmptyObject
<1> DEFINE e == Sealed(seq, prev, n)
<1>1. /\ e.actor = n.actor /\ e.action = n.action /\ e.target = n.target
      /\ e.detail = n.detail
      /\ ReadBack(e).actor = n.actor /\ ReadBack(e).action = n.action
      /\ ReadBack(e).target = n.target /\ ReadBack(e).detail = n.detail
  BY DEF Sealed, ReadBack
<1>2. DelimFree(n.actor) /\ DelimFree(n.action) /\ DelimFree(n.target)
  BY DEF NormalizedTo, Names
<1>3. PICK d \in Objects : /\ d = Given(r.detail)
                            /\ Canonical[d] \in PlainTexts
                            /\ n.detail = Canonical[d]
  BY DEF NormalizedTo, NotCanonical, CanonicalJSON
<1>4. n.detail \in Objects /\ Canonical[n.detail] = n.detail /\ n.detail \in PlainTexts
  BY <1>3 DEF CanonicalStable
<1>5. Given(n.detail) = n.detail
  BY <1>4 DEF CanonicalStable, Given
<1>6. \A x : x.actor = n.actor /\ x.action = n.action /\ x.target = n.target
             /\ x.detail = n.detail => ~Refused(x)
  BY <1>2, <1>4, <1>5 DEF Refused, Names, NotCanonical, PlainTexts
<1>7. CanonicalJSON(n.detail) = n.detail
  BY <1>4, <1>5 DEF CanonicalJSON
<1>8. TrimmedTo(r.detail, << >>) => n.detail = EmptyObject
  BY <1>3 DEF Given, CanonicalStable
<1> QED
  BY <1>1, <1>6, <1>7, <1>8

\* An entry that was stored and read back is hashed over the same text, and
\* so verified as intact, exactly if its event time is not before the year 0
\* in UTC.  Normalize bounds event_time only from above (entry.go:69).
THEOREM ReadBackVerifies ==
  ASSUME FormatsInjective, YearZero \in Int, ZeroTime \in Int, ZeroTime >= YearZero,
         NEW e \in Entries, ~Refused(e)
  PROVE  Joined(ReadBack(e)) = Joined(e) <=> e.event_time >= YearZero
<1>1. e.event_time \in Int
  BY DEF Entries
<1>2. CASE e.event_time >= YearZero
  <2>1. ReadBack(e) = e
    BY <1>2 DEF ReadBack, Entries
  <2> QED
    BY <1>2, <2>1
<1>3. CASE ~(e.event_time >= YearZero)
  <2>1. ReadBack(e) \in Entries /\ ReadBack(e).event_time = ZeroTime
    BY <1>3 DEF ReadBack, Entries
  <2>2. ~Refused(ReadBack(e))
    BY DEF ReadBack, Refused, Names, Entries
  <2>3. ReadBack(e).event_time # e.event_time
    BY <1>1, <1>3, <2>1
  <2> QED
    BY <1>3, <2>1, <2>2, <2>3, JoinInjective
<1> QED
  BY <1>2, <1>3

-----------------------------------------------------------------------------
(* Settings                                                                *)

\* Whatever the environment and the flags hold, a server that starts has a
\* batch that leaves at least one active row (PolicyAssumption of AuditStore),
\* and an interval for which time.NewTicker does not panic.
THEOREM AcceptedPolicy ==
  ASSUME Hour \in Int, NEW env, NEW flags, Accepted(env, flags)
  PROVE  LET c == Load(env, flags) IN
         /\ c["threshold"] \in Nat
         /\ c["keep_min"] \in Nat \ {0}
         /\ c["keep_min"] < c["threshold"]
         /\ c["interval"] \in Nat \ {0}
<1>1. \A s \in Numbers : Defaults[s] \in Int
  BY DEF Numbers, Defaults
<1>2. \A s \in Numbers : Load(env, flags)[s] \in Int
  BY <1>1 DEF Accepted, Malformed, Load, WithEnv, Settings
<1>3. /\ Load(env, flags)["threshold"] \in Int
      /\ Load(env, flags)["keep_min"] \in Int
      /\ Load(env, flags)["interval"] \in Int
  BY <1>2 DEF Numbers
<1> QED
  BY <1>3 DEF Accepted, Validate

=============================================================================
