----------------------------- MODULE DigestInput -----------------------------
(***************************************************************************)
(* What a hash is computed from: AppendRequest.Normalize, CanonicalJSON    *)
(* (internal/model/entry.go) and the text that HashEntry hands to SHA-256  *)
(* (internal/chain/hashchain.go), over an arbitrary alphabet.  Chain takes *)
(* the hash for the tuple of the fields; the theorems here say why it may. *)
(***************************************************************************)
EXTENDS Integers, Sequences

CONSTANTS Chars,           \* the bytes of a text
          Blanks,          \* those that strings.TrimSpace cuts off
          Delim,           \* "|"
          MaxFieldLength,
          Objects,         \* the texts that hold exactly one JSON object
          EmptyObject,     \* "{}"
          Canonical,       \* per object, what json.Marshal writes for it
          SeqText,         \* strconv.FormatInt, per position
          TimeText,        \* Format(time.RFC3339Nano), per UTC instant
          YearZero,        \* the first instant of the year 0
          ZeroTime,        \* time.Time{}: the first instant of the year 1
          Skew             \* five minutes

Texts == Seq(Chars)

DelimFree(t) == \A i \in 1 .. Len(t) : t[i] # Delim

PlainTexts == {t \in Texts : DelimFree(t)}

Names == {"actor", "action", "target"}

\* model.Entry without its id and its hash.
Entries == [seq : Nat, prev_hash : Texts, event_time : Int,
            actor : Texts, action : Texts, target : Texts, detail : Texts]

\* strings.TrimSpace(t) = u.
TrimmedTo(t, u) ==
  /\ \E a, b \in Seq(Blanks) : t = a \o u \o b
  /\ u # << >> => u[1] \notin Blanks /\ u[Len(u)] \notin Blanks

\* What CanonicalJSON parses: a detail that was left out, or holds nothing but
\* blanks, stands for "{}".
Given(detail) == IF TrimmedTo(detail, << >>) THEN EmptyObject ELSE detail

\* CanonicalJSON fails: not one object, or a delimiter in what it writes.
NotCanonical(detail) ==
  \/ Given(detail) \notin Objects
  \/ Canonical[Given(detail)] \notin PlainTexts

CanonicalJSON(detail) == Canonical[Given(detail)]

\* Normalize accepts request r at time now and leaves it as n (a request
\* without an event_time has that of now).
NormalizedTo(r, n, now) ==
  /\ \A f \in Names : /\ TrimmedTo(r[f], n[f])
                      /\ n[f] # << >>
                      /\ Len(n[f]) =< MaxFieldLength
                      /\ DelimFree(n[f])
  /\ r.event_time =< now + Skew
  /\ n.event_time = r.event_time
  /\ ~NotCanonical(r.detail)
  /\ n.detail = CanonicalJSON(r.detail)

\* NewEntry: the fields HashEntry is given.
Sealed(seq, prev, n) ==
  [seq |-> seq, prev_hash |-> prev, event_time |-> n.event_time,
   actor |-> n.actor, action |-> n.action, target |-> n.target,
   detail |-> n.detail]

\* HashEntry returns an error.
Refused(e) == \/ \E f \in Names : ~DelimFree(e[f])
              \/ ~DelimFree(e.detail)
              \/ NotCanonical(e.detail)

\* HashEntry: strings.Join of the seven parts.
Joined(e) ==
  LET bar == << Delim >>
      prevTime == e.prev_hash \o bar \o TimeText[e.event_time]
      who      == prevTime \o bar \o e.actor
      did      == who \o bar \o e.action
      what     == did \o bar \o e.target
      how      == what \o bar \o CanonicalJSON(e.detail)
  IN  SeqText[e.seq] \o (bar \o how)

\* Append and scanEntry: the row comes back as it was stored, except that a
\* year before 0 is written with a sign, which time.Parse does not accept
\* (its error is dropped).
ReadBack(e) ==
  [e EXCEPT !.event_time = IF @ >= YearZero THEN @ ELSE ZeroTime]

-----------------------------------------------------------------------------
(* What is known of the library functions                                  *)

\* Different positions and instants have different texts, without "|".
FormatsInjective ==
  /\ Delim \in Chars
  /\ SeqText \in [Nat -> PlainTexts]
  /\ \A a, b \in Nat : SeqText[a] = SeqText[b] => a = b
  /\ TimeText \in [Int -> PlainTexts]
  /\ \A a, b \in Int : TimeText[a] = TimeText[b] => a = b

\* "{}" is an object, an object is not blank, and reading a canonical object
\* back and writing it again changes nothing.
CanonicalStable ==
  /\ EmptyObject \in Objects \cap PlainTexts
  /\ Canonical[EmptyObject] = EmptyObject
  /\ \A d \in Objects : ~TrimmedTo(d, << >>)
  /\ \A d \in Objects : Canonical[d] \in PlainTexts =>
       /\ Canonical[d] \in Objects
       /\ Canonical[Canonical[d]] = Canonical[d]

=============================================================================
